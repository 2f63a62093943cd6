------------------------------- MODULE PyPeer -------------------------------
(***************************************************************************)
(* The Python peers of lafrpc (python/lafrpc/peer.py) on the gevent        *)
(* scheduler: two Peer objects joined by one DataChannel, callers in       *)
(* _call, the handle_packet task of each side, one handle_request task per *)
(* request, and shutdown(), which joins the tasks it kills while it holds  *)
(* the peer's lock.                                                        *)
(*                                                                         *)
(* Greenlets switch only where they block.  All uses of the lock but that  *)
(* of shutdown() are short, so the lock is held between two actions only   *)
(* while shutdown() kills: Free(s) guards every step that takes the lock.  *)
(* Streams are left out.                                                   *)
(***************************************************************************)
EXTENDS Naturals, Sequences

CONSTANTS Calls,         \* the calls that may be made
          NoCall,        \* no call
          NoReply,       \* the value of a waiter nobody has signalled
          Disconnected,  \* the RpcDisconnectedException that is sent to waiters
          Caller,        \* the side that makes the call
          Inside         \* the call whose method makes this call, or NoCall

Sides == {"a", "b"}
Other(s) == IF s = "a" THEN "b" ELSE "a"
Callee(c) == Other(Caller[c])

ASSUME CallsAssumption ==
    /\ NoCall \notin Calls /\ NoReply \notin Calls /\ Disconnected \notin Calls
    /\ NoReply # Disconnected
    /\ Caller \in [Calls -> Sides]
    /\ Inside \in [Calls -> Calls \cup {NoCall}]
    /\ \A c \in Calls : Inside[c] # NoCall => Caller[c] = Other(Caller[Inside[c]])

VARIABLES pc,        \* the caller: where call() is blocked, or how it ended
          waiters,   \* Peer.waiters of each side
          event,     \* the value of the call's waiter
          hpc,       \* the handle_request task of the call
          reply,     \* the response it computed
          receiver,  \* the handle_packet task of each side
          phase,     \* how far the end of each peer is; broken unless "live"
          closer,    \* the call whose caller, or whose method, runs shutdown(), or NoCall
          doomed,    \* the handlers that shutdown() found in kill_many
          open,      \* the sides whose channel has no error
          wire       \* the packets on their way to each handle_packet

callVars == <<pc, waiters, event>>
handlerVars == <<hpc, reply>>
closeVars == <<phase, closer, doomed>>
vars == <<callVars, handlerVars, receiver, closeVars, open, wire>>

\* "sent": the packet is written and the caller about to run again; "closing": in
\* self.close() on its way out; "dying": killed, and back for the lock to leave waiters.
CallerActive == {"header", "sending", "sent", "waiting", "closing", "dying"}
\* "internal": the header or the request could not be made or sent.
CallerEnded == {"value", "exception", "disconnected", "internal", "killed"}
\* "closing": the method runs shutdown(); "deferred": in wait_deferred() for the Deferred that the method returned; "stranded":
\* there, but its event can no longer be set.
HandlerActive == {"spawned", "running", "closing", "deferred", "stranded", "sending"}
\* "refused": returned without a response; "gone": killed, or the peer was not ok.
HandlerEnded == {"sent", "refused", "gone"}

Request(c) == [type |-> "request", call |-> c]
Response(c) == [type |-> "response", call |-> c]
Packets == [type : {"request", "response"}, call : Calls]

\* The peer's lock can be had.
Free(s) == phase[s] # "killing"

\* Peer.is_ok(), which takes the lock.
IsOk(s) == phase[s] = "live" /\ open[s]

WireWith(s, p) == IF open[Other(s)] THEN [wire EXCEPT ![Other(s)] = Append(@, p)] ELSE wire
WireRead(s) == [wire EXCEPT ![s] = Tail(@)]
Arrives(s, type) == wire[s] # <<>> /\ Head(wire[s]).type = type

TypeOK ==
    /\ pc \in [Calls -> {"idle"} \cup CallerActive \cup CallerEnded]
    /\ waiters \in [Sides -> SUBSET Calls]
    /\ event \in [Calls -> Calls \cup {NoReply, Disconnected}]
    /\ hpc \in [Calls -> {"none"} \cup HandlerActive \cup HandlerEnded]
    /\ reply \in [Calls -> {"none", "value", "exception"}]
    \* It waits for the lock: "delivering" with a response, "failing" in clean() after
    \* recv_packet raised, "cleaning" in clean() once it was killed.
    /\ receiver \in [Sides -> {"receiving", "delivering", "failing", "cleaning", "ended"}]
    \* "killing": shutdown() in kill_many, with the lock; "closing": channel.close();
    \* "removed": disconnected is emitted; "abandoned": shutdown() was killed halfway.
    /\ phase \in [Sides -> {"live", "killing", "closing", "removed", "abandoned"}]
    /\ closer \in [Sides -> Calls \cup {NoCall}]
    /\ doomed \in [Sides -> SUBSET Calls]
    /\ open \in [Sides -> BOOLEAN]
    /\ wire \in [Sides -> Seq(Packets)]

Init ==
    /\ pc = [c \in Calls |-> "idle"]
    /\ waiters = [s \in Sides |-> {}]
    /\ event = [c \in Calls |-> NoReply]
    /\ hpc = [c \in Calls |-> "none"]
    /\ reply = [c \in Calls |-> "none"]
    /\ receiver = [s \in Sides |-> "receiving"]
    /\ phase = [s \in Sides |-> "live"]
    /\ closer = [s \in Sides |-> NoCall]
    /\ doomed = [s \in Sides |-> {}]
    /\ open = [s \in Sides |-> TRUE]
    /\ wire = [s \in Sides |-> <<>>]

-----------------------------------------------------------------------------
(* Peer.shutdown *)

\* The call the method of call p is waiting in.
Inner(p) == {d \in Calls : Inside[d] = p /\ pc[d] \in CallerActive}

\* The peer is broken and its tasks are listed; the lock is held from here on.
BeginShutdown(s, who) ==
    /\ phase' = [phase EXCEPT ![s] = "killing"]
    /\ closer' = [closer EXCEPT ![s] = who]
    /\ doomed' = [doomed EXCEPT ![s] =
                    {p \in Calls : Callee(p) = s /\ hpc[p] \in HandlerActive}]

\* The application, or Rpc.shutdown(), closes the peer in a greenlet that is no task of it.
UserShutdown(s) ==
    /\ phase[s] = "live"
    /\ BeginShutdown(s, NoCall)
    /\ UNCHANGED <<callVars, handlerVars, receiver, open, wire>>

\* A method closes the peer it was called on: its own task is among those to be killed.
MethodCloses(p) ==
    LET s == Callee(p) IN
    /\ hpc[p] = "running" /\ Inner(p) = {} /\ phase[s] = "live"
    /\ BeginShutdown(s, p)
    /\ hpc' = [hpc EXCEPT ![p] = "closing"]
    /\ UNCHANGED <<callVars, reply, receiver, open, wire>>

\* handle_packet is the first task of the peer and the first to be killed: in
\* recv_packet it catches the Exit and goes for the lock in clean(); where it waits for
\* the lock already, it ends.
KillReceiver(s) ==
    /\ phase[s] = "killing" /\ receiver[s] \in {"receiving", "delivering", "failing"}
    /\ receiver' = [receiver EXCEPT ![s] =
                      IF @ = "receiving" THEN "cleaning" ELSE "ended"]
    /\ UNCHANGED <<callVars, handlerVars, closeVars, open, wire>>

\* Then the handlers.  One that waits in a call of its own goes for the lock in the
\* finally clause of _call; the one that runs shutdown() ends itself, and shutdown().
KillHandler(p) ==
    LET s == Callee(p) IN
    /\ phase[s] = "killing" /\ receiver[s] = "ended"
    /\ p \in doomed[s] /\ hpc[p] \in HandlerActive
    /\ \A d \in Inner(p) : pc[d] # "dying"
    /\ IF \E d \in Inner(p) : pc[d] = "waiting"
       THEN /\ pc' = [d \in Calls |-> IF d \in Inner(p) THEN "dying" ELSE pc[d]]
            /\ UNCHANGED <<hpc, phase>>
       ELSE /\ pc' = [d \in Calls |-> IF d \in Inner(p) THEN "killed" ELSE pc[d]]
            /\ hpc' = [hpc EXCEPT ![p] = "gone"]
            /\ phase' = IF closer[s] \in Inner(p) \cup {p}
                        THEN [phase EXCEPT ![s] = "abandoned"] ELSE phase
    /\ UNCHANGED <<waiters, event, reply, receiver, closer, doomed, open, wire>>

\* Every waiter is sent an exception and forgotten.
WakeWaiters(s) ==
    /\ event' = [c \in Calls |-> IF c \in waiters[s] THEN Disconnected ELSE event[c]]
    /\ waiters' = [waiters EXCEPT ![s] = {}]

\* All are joined: the waiters are woken, the lock released, the channel closed.
FinishShutdown(s) ==
    /\ phase[s] = "killing" /\ receiver[s] = "ended"
    /\ \A p \in doomed[s] : hpc[p] \notin HandlerActive
    /\ WakeWaiters(s)
    /\ phase' = [phase EXCEPT ![s] = "closing"]
    /\ open' = [open EXCEPT ![s] = FALSE]
    /\ UNCHANGED <<pc, handlerVars, receiver, closer, doomed, wire>>

\* channel.close() returns and the signal disconnected is emitted.
Remove(s) ==
    /\ phase[s] = "closing"
    /\ phase' = [phase EXCEPT ![s] = "removed"]
    /\ UNCHANGED <<callVars, handlerVars, receiver, closer, doomed, open, wire>>

-----------------------------------------------------------------------------
(* Peer.call and Peer._call *)

\* A method makes one call at a time, while it runs.
MayCall(c) ==
    Inside[c] # NoCall => hpc[Inside[c]] = "running" /\ Inner(Inside[c]) = {}

\* A peer that is not ok is refused at once, else make_header_callback.
Enter(c) ==
    /\ pc[c] = "idle" /\ MayCall(c) /\ Free(Caller[c])
    /\ pc' = [pc EXCEPT ![c] = IF IsOk(Caller[c]) THEN "header" ELSE "disconnected"]
    /\ UNCHANGED <<waiters, event, handlerVars, receiver, closeVars, open, wire>>

\* The header is made: the request is packed and handed to the channel, or the
\* exception leads to self.close().
HeaderMade(c) ==
    /\ pc[c] = "header" /\ Free(Caller[c])
    /\ pc' = [pc EXCEPT ![c] = IF IsOk(Caller[c]) THEN "sending" ELSE "closing"]
    /\ UNCHANGED <<waiters, event, handlerVars, receiver, closeVars, open, wire>>

\* The header callback raises, the request cannot be serialized, or send_packet
\* raises on a channel that was closed while the caller waited to be let through.
CannotSend(c) ==
    /\ pc[c] = "header" \/ (pc[c] = "sending" /\ ~open[Caller[c]])
    /\ pc' = [pc EXCEPT ![c] = "internal"]
    /\ UNCHANGED <<waiters, event, handlerVars, receiver, closeVars, open, wire>>

\* Wrong: a packet that is written in part is written again from its start.
RequestWrittenTwice(c) ==
    /\ pc[c] = "sending" /\ open[Caller[c]]
    /\ pc' = [pc EXCEPT ![c] = "sent"]
    /\ wire' = IF open[Callee(c)]
               THEN [wire EXCEPT ![Callee(c)] = @ \o <<Request(c), Request(c)>>] ELSE wire
    /\ UNCHANGED <<waiters, event, handlerVars, receiver, closeVars, open>>

\* The sending task of the channel writes the packet and wakes the caller.
RequestWritten(c) ==
    /\ pc[c] = "sending" /\ open[Caller[c]]
    /\ pc' = [pc EXCEPT ![c] = "sent"]
    /\ wire' = WireWith(Caller[c], Request(c))
    /\ UNCHANGED <<waiters, event, handlerVars, receiver, closeVars, open>>

\* Wrong: does not look again whether the peer is ok.
RegisterUnchecked(c) ==
    /\ pc[c] = "sent" /\ Free(Caller[c])
    /\ pc' = [pc EXCEPT ![c] = "waiting"]
    /\ waiters' = [waiters EXCEPT ![Caller[c]] = @ \cup {c}]
    /\ UNCHANGED <<event, handlerVars, receiver, closeVars, open, wire>>

\* send_packet returns: the waiter is registered on a peer that is still ok.
Register(c) ==
    LET s == Caller[c] IN
    /\ pc[c] = "sent" /\ Free(s)
    /\ IF IsOk(s)
       THEN /\ pc' = [pc EXCEPT ![c] = "waiting"]
            /\ waiters' = [waiters EXCEPT ![s] = @ \cup {c}]
       ELSE /\ pc' = [pc EXCEPT ![c] = "closing"]
            /\ UNCHANGED waiters
    /\ UNCHANGED <<event, handlerVars, receiver, closeVars, open, wire>>

\* The waiter is signalled: it is removed, and its value returned or raised.
GetResponse(c) ==
    LET s == Caller[c] IN
    /\ pc[c] = "waiting" /\ event[c] # NoReply /\ Free(s)
    /\ pc' = [pc EXCEPT ![c] =
                IF event[c] = Disconnected \/ ~IsOk(s) THEN "closing" ELSE reply[event[c]]]
    /\ waiters' = [waiters EXCEPT ![s] = @ \ {c}]
    /\ UNCHANGED <<event, handlerVars, receiver, closeVars, open, wire>>

\* call() closes the peer after an RpcDisconnectedException; shutdown() returns at
\* once from a peer that is broken.
Close(c) ==
    LET s == Caller[c] IN
    /\ pc[c] = "closing" /\ closer[s] # c /\ Free(s)
    /\ IF phase[s] = "live"
       THEN BeginShutdown(s, c) /\ UNCHANGED pc
       ELSE pc' = [pc EXCEPT ![c] = "disconnected"] /\ UNCHANGED closeVars
    /\ UNCHANGED <<waiters, event, handlerVars, receiver, open, wire>>

\* The shutdown() it ran is done, and the exception goes on.
CloseReturns(c) ==
    /\ pc[c] = "closing" /\ closer[Caller[c]] = c /\ phase[Caller[c]] = "removed"
    /\ pc' = [pc EXCEPT ![c] = "disconnected"]
    /\ UNCHANGED <<waiters, event, handlerVars, receiver, closeVars, open, wire>>

\* The application kills the greenlet of the call, or a Timeout ends it.
Interrupt(c) ==
    LET s == Caller[c] IN
    /\ Inside[c] = NoCall /\ pc[c] \in CallerActive \ {"dying"}
    /\ pc' = [pc EXCEPT ![c] = IF @ = "waiting" THEN "dying" ELSE "killed"]
    /\ phase' = IF pc[c] = "closing" /\ closer[s] = c /\ phase[s] \in {"killing", "closing"}
                THEN [phase EXCEPT ![s] = "abandoned"] ELSE phase
    /\ UNCHANGED <<waiters, event, handlerVars, receiver, closer, doomed, open, wire>>

\* It has the lock, removes its waiter and ends, with the method it is in.
Die(c) ==
    LET s == Caller[c] IN
    /\ pc[c] = "dying" /\ Free(s)
    /\ pc' = [pc EXCEPT ![c] = "killed"]
    /\ waiters' = [waiters EXCEPT ![s] = @ \ {c}]
    /\ hpc' = IF Inside[c] = NoCall THEN hpc ELSE [hpc EXCEPT ![Inside[c]] = "gone"]
    /\ UNCHANGED <<event, reply, receiver, closeVars, open, wire>>

-----------------------------------------------------------------------------
(* Peer.handle_packet *)

\* A request is handled in a task of its own.
Dispatch(s) ==
    /\ receiver[s] = "receiving" /\ Arrives(s, "request")
    /\ hpc' = [hpc EXCEPT ![Head(wire[s]).call] = "spawned"]
    /\ wire' = WireRead(s)
    /\ UNCHANGED <<callVars, reply, receiver, closeVars, open>>

\* Wrong: the waiter is sent the result and not the response.
DeliverResult(s) ==
    /\ receiver[s] \in {"receiving", "delivering"} /\ Free(s) /\ Arrives(s, "response")
    /\ LET c == Head(wire[s]).call IN
       /\ pc[c] # "sent"
       /\ event' = IF c \in waiters[s] THEN [event EXCEPT ![c] = reply[c]] ELSE event
    /\ receiver' = [receiver EXCEPT ![s] = "receiving"]
    /\ wire' = WireRead(s)
    /\ UNCHANGED <<pc, waiters, handlerVars, closeVars, open>>

\* A response goes to its waiter, if there is one.  The response cannot overtake the
\* caller that send_packet has just woken: gevent runs the callbacks of its loop, in
\* order, before it looks at the sockets again.
Deliver(s) ==
    /\ receiver[s] \in {"receiving", "delivering"} /\ Free(s) /\ Arrives(s, "response")
    /\ LET c == Head(wire[s]).call IN
       /\ pc[c] # "sent"
       /\ event' = IF c \in waiters[s] THEN [event EXCEPT ![c] = c] ELSE event
    /\ receiver' = [receiver EXCEPT ![s] = "receiving"]
    /\ wire' = WireRead(s)
    /\ UNCHANGED <<pc, waiters, handlerVars, closeVars, open>>

\* A response is there and shutdown() has the lock.
DeliverBlocked(s) ==
    /\ receiver[s] = "receiving" /\ ~Free(s) /\ Arrives(s, "response")
    /\ receiver' = [receiver EXCEPT ![s] = "delivering"]
    /\ UNCHANGED <<callVars, handlerVars, closeVars, open, wire>>

\* recv_packet raises on a channel that is closed.
ReceiveFails(s) ==
    /\ receiver[s] = "receiving" /\ ~open[s]
    /\ receiver' = [receiver EXCEPT ![s] = "failing"]
    /\ UNCHANGED <<callVars, handlerVars, closeVars, open, wire>>

\* Wrong: leaves the waiters to shutdown(), which nobody calls.
CleanSilent(s) ==
    /\ receiver[s] \in {"failing", "cleaning"} /\ Free(s)
    /\ receiver' = [receiver EXCEPT ![s] = "ended"]
    /\ phase' = [phase EXCEPT ![s] = IF @ = "live" THEN "closing" ELSE @]
    /\ open' = [open EXCEPT ![s] = FALSE]
    /\ UNCHANGED <<callVars, handlerVars, closer, doomed, wire>>

\* clean(): what shutdown() does, but for the killing; nothing if the peer is broken.
Clean(s) ==
    /\ receiver[s] \in {"failing", "cleaning"} /\ Free(s)
    /\ receiver' = [receiver EXCEPT ![s] = "ended"]
    /\ IF phase[s] = "live"
       THEN /\ WakeWaiters(s)
            /\ phase' = [phase EXCEPT ![s] = "closing"]
            /\ open' = [open EXCEPT ![s] = FALSE]
       ELSE UNCHANGED <<waiters, event, phase, open>>
    /\ UNCHANGED <<pc, handlerVars, closer, doomed, wire>>

\* The network fails, keepalive gives up, or the other side has closed.
ChannelFails(s) ==
    /\ open[s]
    /\ open' = [open EXCEPT ![s] = FALSE]
    /\ UNCHANGED <<callVars, handlerVars, receiver, closeVars, wire>>

-----------------------------------------------------------------------------
(* Peer.handle_request *)

\* The peer is not ok any more, or auth_header_callback says no: no response.
Reject(c) ==
    /\ hpc[c] = "spawned" /\ Free(Callee(c))
    /\ hpc' = [hpc EXCEPT ![c] = IF IsOk(Callee(c)) THEN "refused" ELSE "gone"]
    /\ UNCHANGED <<callVars, reply, receiver, closeVars, open, wire>>

\* The request is authorised and the method called.
Accept(c) ==
    /\ hpc[c] = "spawned" /\ Free(Callee(c)) /\ IsOk(Callee(c))
    /\ hpc' = [hpc EXCEPT ![c] = "running"]
    /\ UNCHANGED <<callVars, reply, receiver, closeVars, open, wire>>

MethodEnds(c) == hpc[c] = "running" /\ Inner(c) = {}

\* The method returns, and the peer is still ok.
Answer(c) ==
    /\ MethodEnds(c) /\ Free(Callee(c)) /\ IsOk(Callee(c))
    /\ hpc' = [hpc EXCEPT ![c] = "sending"]
    /\ reply' = [reply EXCEPT ![c] = "value"]
    /\ UNCHANGED <<callVars, receiver, closeVars, open, wire>>

\* The method returns a Deferred, and the handler waits for it; a Deferred that was fired
\* before has no callbacks any more.
Defer(c) ==
    /\ MethodEnds(c) /\ Free(Callee(c)) /\ IsOk(Callee(c))
    /\ \E fired \in BOOLEAN :
         hpc' = [hpc EXCEPT ![c] = IF fired THEN "stranded" ELSE "deferred"]
    /\ UNCHANGED <<callVars, reply, receiver, closeVars, open, wire>>

\* callback(): its argument is the result, whatever became of the peer.
DeferredFires(c) ==
    /\ hpc[c] = "deferred"
    /\ hpc' = [hpc EXCEPT ![c] = "sending"]
    /\ reply' = [reply EXCEPT ![c] = "value"]
    /\ UNCHANGED <<callVars, receiver, closeVars, open, wire>>

\* errback(): Event.send_exception of gevent keeps the exception and wakes nobody.
DeferredFails(c) ==
    /\ hpc[c] = "deferred"
    /\ hpc' = [hpc EXCEPT ![c] = "stranded"]
    /\ UNCHANGED <<callVars, reply, receiver, closeVars, open, wire>>

\* The method raises: the exception is the response, whatever became of the peer.
AnswerException(c) ==
    /\ MethodEnds(c)
    /\ hpc' = [hpc EXCEPT ![c] = "sending"]
    /\ reply' = [reply EXCEPT ![c] = "exception"]
    /\ UNCHANGED <<callVars, receiver, closeVars, open, wire>>

\* The method returns and the peer is not ok any more.
HandlerBroken(c) ==
    /\ MethodEnds(c) /\ Free(Callee(c)) /\ ~IsOk(Callee(c))
    /\ hpc' = [hpc EXCEPT ![c] = "gone"]
    /\ UNCHANGED <<callVars, reply, receiver, closeVars, open, wire>>

\* The method raises RpcDisconnectedException, or its result cannot be serialized:
\* no response.
CannotAnswer(c) ==
    /\ MethodEnds(c)
    /\ hpc' = [hpc EXCEPT ![c] = "refused"]
    /\ UNCHANGED <<callVars, reply, receiver, closeVars, open, wire>>

\* The sending task of the channel writes the response.
ResponseWritten(c) ==
    /\ hpc[c] = "sending" /\ open[Callee(c)]
    /\ hpc' = [hpc EXCEPT ![c] = "sent"]
    /\ wire' = WireWith(Callee(c), Response(c))
    /\ UNCHANGED <<callVars, reply, receiver, closeVars, open>>

\* send_packet raises on a channel that is closed; the error is logged.
ResponseFails(c) ==
    /\ hpc[c] = "sending" /\ ~open[Callee(c)]
    /\ hpc' = [hpc EXCEPT ![c] = "gone"]
    /\ UNCHANGED <<callVars, reply, receiver, closeVars, open, wire>>

-----------------------------------------------------------------------------

CallStep(c) ==
    \/ Enter(c) \/ HeaderMade(c) \/ CannotSend(c) \/ RequestWritten(c) \/ Register(c)
    \/ GetResponse(c) \/ Close(c) \/ CloseReturns(c) \/ Interrupt(c) \/ Die(c)

HandlerStep(c) ==
    \/ Reject(c) \/ Accept(c) \/ Answer(c) \/ AnswerException(c) \/ HandlerBroken(c)
    \/ Defer(c) \/ DeferredFires(c) \/ DeferredFails(c)
    \/ CannotAnswer(c) \/ ResponseWritten(c) \/ ResponseFails(c)
    \/ MethodCloses(c) \/ KillHandler(c)

PeerStep(s) ==
    \/ Dispatch(s) \/ Deliver(s) \/ DeliverBlocked(s) \/ ReceiveFails(s) \/ Clean(s)
    \/ UserShutdown(s) \/ KillReceiver(s) \/ FinishShutdown(s) \/ Remove(s)
    \/ ChannelFails(s)

Next ==
    \/ \E c \in Calls : CallStep(c) \/ HandlerStep(c)
    \/ \E s \in Sides : PeerStep(s)

Spec == Init /\ [][Next]_vars

\* Tasks that can run do run; kill_many and close() go on as long as nothing blocks them.
Fairness ==
    /\ \A c \in Calls : WF_vars(GetResponse(c)) /\ WF_vars(Die(c)) /\ WF_vars(KillHandler(c))
    /\ \A s \in Sides :
         /\ WF_vars(ReceiveFails(s)) /\ WF_vars(Clean(s)) /\ WF_vars(KillReceiver(s))
         /\ WF_vars(FinishShutdown(s)) /\ WF_vars(Remove(s))

FairSpec == Spec /\ Fairness

-----------------------------------------------------------------------------
(* Properties *)

\* A caller that waits for an answer can still be reached: its waiter is registered, and
\* the peer is not broken, or its shutdown() has yet to wake the waiters, or was killed
\* before it did (peer.py:142-152, 239-249, 302-308).
WaitingIsReachable ==
    \A c \in Calls :
        pc[c] = "waiting" /\ event[c] = NoReply =>
            /\ c \in waiters[Caller[c]]
            /\ phase[Caller[c]] \in {"live", "killing", "abandoned"}

ClientOf(at) ==
    IF at = "idle" THEN "idle"
    ELSE IF at \in CallerActive THEN "pending"
    ELSE IF at = "value" THEN "returned"
    ELSE IF at = "exception" THEN "raised" ELSE "failed"

ServerOf(answer, at) ==
    IF answer # "none" THEN answer
    ELSE IF at \in {"running", "closing", "deferred", "stranded"} THEN "running"
    ELSE IF at \in {"refused", "gone"} THEN "lost" ELSE "none"

ClientView == [c \in Calls |-> ClientOf(pc[c])]
ServerView == [c \in Calls |-> ServerOf(reply[c], hpc[c])]

\* The Python peers implement the same abstract call as the C++ ones: one invocation at
\* most, and the caller gets the reply of that invocation, or fails.
Abstract == INSTANCE RpcCall WITH client <- ClientView, server <- ServerView
ImplementsRpcCall == Abstract!RpcSpec

\* A connection that is lost lets go of the callers that wait for a response, unless
\* somebody is in shutdown() or was killed there (peer.py:299-317, 324-337).
LostConnectionReleases ==
    \A c \in Calls :
        ~open[Caller[c]] /\ pc[c] = "waiting" ~>
            pc[c] # "waiting" \/ phase[Caller[c]] \in {"killing", "abandoned"}

\* What peer.py:300 says of clean(): "similar to close() but no kill greenlets", so that
\* close() too ends with the channel closed.
ShutdownCloses ==
    \A s \in Sides : phase[s] = "killing" ~> ~open[s]
=============================================================================
