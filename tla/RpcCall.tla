------------------------------- MODULE RpcCall -------------------------------
(***************************************************************************)
(* What one remote call of lafrpc promises, whichever peer makes it and    *)
(* however the connection behaves: the caller either never hears of it, or *)
(* gets exactly the reply that the one invocation of the remote method     *)
(* produced, or fails.  A method is invoked at most once per call, and its *)
(* reply never changes.  Peer.tla is shown to implement this module.       *)
(***************************************************************************)

CONSTANT Calls

VARIABLES client,   \* how far the caller is
          server    \* how far the invocation of the method is

callVars == <<client, server>>

Replies == {"value", "stream", "exception"}
ClientStates == {"idle", "pending", "returned", "raised", "failed"}
ServerStates == {"none", "running", "lost"} \cup Replies

RpcTypeOK ==
    /\ client \in [Calls -> ClientStates]
    /\ server \in [Calls -> ServerStates]

RpcInit ==
    /\ client = [c \in Calls |-> "idle"]
    /\ server = [c \in Calls |-> "none"]

\* The caller enters the call.
Invoke(c) ==
    /\ client[c] = "idle"
    /\ client' = [client EXCEPT ![c] = "pending"]
    /\ UNCHANGED server

\* The method starts, at most once, and only for a call that was made.
Run(c) ==
    /\ server[c] = "none" /\ client[c] # "idle"
    /\ server' = [server EXCEPT ![c] = "running"]
    /\ UNCHANGED client

\* The invocation produces its reply; a call may be refused with an exception
\* before the method runs.
Produce(c) ==
    /\ \/ server[c] = "running" /\ server' \in {[server EXCEPT ![c] = r] : r \in Replies}
       \/ server[c] = "none" /\ client[c] # "idle" /\ server' = [server EXCEPT ![c] = "exception"]
    /\ UNCHANGED client

\* The invocation ends without a reply: it is refused, killed or unserializable.
\* Killing it kills the calls it was itself waiting in.
Lose(c) ==
    /\ server[c] \in {"none", "running"} /\ client[c] # "idle"
    /\ server' = [server EXCEPT ![c] = "lost"]
    /\ \E inner \in SUBSET {d \in Calls : client[d] = "pending"} :
         client' = [d \in Calls |-> IF d \in inner THEN "failed" ELSE client[d]]

\* The caller gets the reply that was produced.
Complete(c) ==
    /\ client[c] = "pending"
    /\ \/ server[c] \in {"value", "stream"} /\ client' = [client EXCEPT ![c] = "returned"]
       \/ server[c] = "exception" /\ client' = [client EXCEPT ![c] = "raised"]
    /\ UNCHANGED server

\* The caller fails: disconnected, killed, or the stream of the reply is gone.
Fail(c) ==
    /\ client[c] \in {"idle", "pending"}
    /\ client' = [client EXCEPT ![c] = "failed"]
    /\ UNCHANGED server

RpcNext ==
    \E c \in Calls : Invoke(c) \/ Run(c) \/ Produce(c) \/ Lose(c) \/ Complete(c) \/ Fail(c)

RpcSpec == RpcInit /\ [][RpcNext]_callVars
=============================================================================
