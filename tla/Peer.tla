-------------------------------- MODULE Peer --------------------------------
(***************************************************************************)
(* The call protocol of lafrpc's C++ peers (cpp/src/peer.cpp): two Peer    *)
(* objects joined by one DataChannel, callers blocked in PeerPrivate::call,*)
(* the handlePacket coroutine of each side, one handleRequest coroutine    *)
(* per request, the sub channels of stream arguments and stream results,   *)
(* and PeerPrivate::shutdown with its wait for the killed coroutines.      *)
(*                                                                         *)
(* Coroutines switch only where they block, so one action is the code from *)
(* one blocking call to the next.  The DataChannel is an external library  *)
(* (qtnetworkng): packets of one direction stay in order, and when the     *)
(* link is down the reader may miss any suffix of them.                    *)
(***************************************************************************)
EXTENDS Naturals, Sequences

CONSTANTS Calls,         \* the calls that may be made
          NoCall,        \* no call
          NoReply,       \* the value of a waiter nobody has signalled
          EmptyReply,    \* the empty Response that shutdown() sends to waiters
          Caller,        \* the side that makes the call
          Inside,        \* the call whose method makes this call, or NoCall
          Interruptible, \* the calls whose coroutine may be killed, or has a timeout
          ParamStream,   \* the calls that pass a UseStream argument
          ResultStream   \* the calls whose method may return a UseStream

Sides == {"a", "b"}
Other(s) == IF s = "a" THEN "b" ELSE "a"
Callee(c) == Other(Caller[c])

ASSUME CallsAssumption ==
    /\ NoCall \notin Calls /\ NoReply \notin Calls /\ EmptyReply \notin Calls
    /\ NoReply # EmptyReply
    /\ Caller \in [Calls -> Sides]
    /\ Inside \in [Calls -> Calls \cup {NoCall}]
    /\ \A c \in Calls : Inside[c] # NoCall => Caller[c] = Other(Caller[Inside[c]])
    /\ Interruptible \subseteq Calls
    /\ ParamStream \subseteq Calls /\ ResultStream \subseteq Calls

VARIABLES pc,        \* the caller: where PeerPrivate::call is blocked, or how it ended
          waiters,   \* PeerPrivate::waiters of each side
          event,     \* the value of the call's waiter: the response that was sent to it
          hpc,       \* the handler: where PeerPrivate::handleRequest is blocked, or how it ended
          reply,     \* the response the handler computed
          phase,     \* how far PeerPrivate::shutdown of each side is
          closer,    \* the call whose coroutine runs shutdown(), NoCall for any other coroutine
          pending,   \* the sub channels announced to a side and not taken yet
          mine,      \* the sub channels whose maker still holds them
          wire,      \* the packets on their way to each side
          link       \* whether the connection is up

callerVars == <<pc, waiters, event>>
handlerVars == <<hpc, reply>>
shutdownVars == <<phase, closer>>
channelVars == <<pending, mine, wire, link>>
vars == <<callerVars, handlerVars, shutdownVars, channelVars>>

\* "closing": the caller runs shutdown() and waits for the coroutines it killed.
CallerActive == {"header", "channel", "sending", "waiting", "closing"}
\* "lost": the response's stream is gone; "unpackable": the request cannot be serialized.
CallerEnded == {"value", "stream", "exception", "disconnected", "lost", "unpackable", "killed"}
HandlerActive == {"spawned", "running", "channel", "sending"}
\* "refused": returned without a response; "gone": the peer broke, or the coroutine was killed.
HandlerEnded == {"sent", "refused", "gone"}
Replies == {"value", "stream", "exception"}
\* "live": not broken; "killing": in killall(); "aborted": the channel is aborted;
\* "removed": the Rpc forgot the peer; "abandoned": shutdown() was killed in killall().
Phases == {"live", "killing", "aborted", "removed", "abandoned"}

Param(c) == <<c, "param">>
Result(c) == <<c, "result">>
Channels == Calls \X {"param", "result"}
Maker(ch) == IF ch[2] = "param" THEN Caller[ch[1]] ELSE Callee(ch[1])

Request(c) == [type |-> "request", call |-> c]
Response(c) == [type |-> "response", call |-> c]
Make(ch) == [type |-> "make", channel |-> ch]
Destroy(ch) == [type |-> "destroy", channel |-> ch]
Packets == [type : {"request", "response"}, call : Calls]
             \cup [type : {"make", "destroy"}, channel : Channels]

Broken(s) == phase[s] # "live"
Aborted(s) == phase[s] \in {"aborted", "removed"}

\* The wire after side s sent packet p: nothing travels on a connection that is down.
WireWith(s, p) == IF link THEN [wire EXCEPT ![Other(s)] = Append(@, p)] ELSE wire

\* pending of side s after takeChannel(ch), whether or not ch was there.
Without(s, ch) == [pending EXCEPT ![s] = @ \ {ch}]

TypeOK ==
    /\ pc \in [Calls -> {"idle"} \cup CallerActive \cup CallerEnded]
    /\ waiters \in [Sides -> SUBSET Calls]
    /\ event \in [Calls -> Calls \cup {NoReply, EmptyReply}]
    /\ hpc \in [Calls -> {"none"} \cup HandlerActive \cup HandlerEnded]
    /\ reply \in [Calls -> {"none"} \cup Replies]
    /\ phase \in [Sides -> Phases]
    /\ closer \in [Sides -> Calls \cup {NoCall}]
    /\ pending \in [Sides -> SUBSET Channels]
    /\ mine \in SUBSET Channels
    /\ wire \in [Sides -> Seq(Packets)]
    /\ link \in BOOLEAN

Init ==
    /\ pc = [c \in Calls |-> "idle"]
    /\ waiters = [s \in Sides |-> {}]
    /\ event = [c \in Calls |-> NoReply]
    /\ hpc = [c \in Calls |-> "none"]
    /\ reply = [c \in Calls |-> "none"]
    /\ phase = [s \in Sides |-> "live"]
    /\ closer = [s \in Sides |-> NoCall]
    /\ pending = [s \in Sides |-> {}]
    /\ mine = {}
    /\ wire = [s \in Sides |-> <<>>]
    /\ link = TRUE

-----------------------------------------------------------------------------
(* PeerPrivate::shutdown *)

\* The calls the method of call p is waiting in.
Inner(p) == {d \in Calls : Inside[d] = p /\ pc[d] \in CallerActive}

\* Wrong: forgets the waiters without waking them.
BeginShutdownSilent(s, who) ==
    /\ phase' = [phase EXCEPT ![s] = "killing"]
    /\ closer' = [closer EXCEPT ![s] = who]
    /\ waiters' = [waiters EXCEPT ![s] = {}]
    /\ UNCHANGED event

\* The part before killall(): the peer is broken, every waiter is woken with an
\* empty response and forgotten.
BeginShutdown(s, who) ==
    /\ phase' = [phase EXCEPT ![s] = "killing"]
    /\ closer' = [closer EXCEPT ![s] = who]
    /\ event' = [c \in Calls |-> IF c \in waiters[s] THEN EmptyReply ELSE event[c]]
    /\ waiters' = [waiters EXCEPT ![s] = {}]

\* killall() reaches the handler of call p, unless that handler is the coroutine
\* which runs shutdown(): the method dies, and the call it is waiting in with it.
KillHandler(p) ==
    LET s == Callee(p) IN
    /\ phase[s] \in {"killing", "abandoned"} /\ hpc[p] \in HandlerActive
    /\ closer[s] # NoCall => Inside[closer[s]] # p
    /\ hpc' = [hpc EXCEPT ![p] = "gone"]
    /\ pc' = [d \in Calls |-> IF d \in Inner(p) THEN "killed" ELSE pc[d]]
    /\ pending' = Without(s, Param(p))
    /\ UNCHANGED <<waiters, event, reply, shutdownVars, mine, wire, link>>

\* Wrong: killall() also joins the coroutine that called it.
AbortAfterAll(s) ==
    /\ phase[s] = "killing"
    /\ \A p \in Calls : Callee(p) = s => hpc[p] \notin HandlerActive
    /\ phase' = [phase EXCEPT ![s] = "aborted"]
    /\ pc' = [c \in Calls |-> IF c = closer[s] THEN "disconnected" ELSE pc[c]]
    /\ link' = FALSE
    /\ pending' = [pending EXCEPT ![s] = {}]
    /\ wire' = [wire EXCEPT ![s] = <<>>]
    /\ UNCHANGED <<waiters, event, handlerVars, closer, mine>>

\* killall() has joined every other coroutine; the channel is aborted and the
\* caller that ran shutdown() throws RpcDisconnectedException.
Abort(s) ==
    /\ phase[s] = "killing"
    /\ \A p \in Calls : Callee(p) = s /\ hpc[p] \in HandlerActive => closer[s] \in Inner(p)
    /\ phase' = [phase EXCEPT ![s] = "aborted"]
    /\ pc' = [c \in Calls |-> IF c = closer[s] THEN "disconnected" ELSE pc[c]]
    /\ link' = FALSE
    /\ pending' = [pending EXCEPT ![s] = {}]
    /\ wire' = [wire EXCEPT ![s] = <<>>]
    /\ UNCHANGED <<waiters, event, handlerVars, closer, mine>>

\* The event loop runs the scheduled functor: disconnected is emitted and the Rpc
\* removes the peer.
Remove(s) ==
    /\ phase[s] = "aborted"
    /\ phase' = [phase EXCEPT ![s] = "removed"]
    /\ UNCHANGED <<callerVars, handlerVars, closer, channelVars>>

\* Peer::shutdown() from the application, from Rpc::shutdown() or from ~Peer().
UserShutdown(s) ==
    /\ phase[s] = "live"
    /\ BeginShutdown(s, NoCall)
    /\ UNCHANGED <<pc, handlerVars, channelVars>>

-----------------------------------------------------------------------------
(* PeerPrivate::call *)

\* A call that is made inside a method is made while that method runs, and the
\* method makes one call at a time.
MayCall(c) ==
    Inside[c] # NoCall => hpc[Inside[c]] = "running" /\ Inner(Inside[c]) = {}

\* The call enters: a broken peer is refused at once, else headerCallback->make.
Enter(c) ==
    /\ pc[c] = "idle" /\ MayCall(c)
    /\ pc' = [pc EXCEPT ![c] = IF Broken(Caller[c]) THEN "disconnected" ELSE "header"]
    /\ UNCHANGED <<waiters, event, handlerVars, shutdownVars, channelVars>>

\* With a stream argument the caller makes a sub channel (and a raw socket).
OpenStream(c) ==
    /\ pc[c] = "header" /\ c \in ParamStream /\ ~Broken(Caller[c])
    /\ pc' = [pc EXCEPT ![c] = "channel"]
    /\ mine' = mine \cup {Param(c)}
    /\ wire' = WireWith(Caller[c], Make(Param(c)))
    /\ UNCHANGED <<waiters, event, handlerVars, shutdownVars, pending, link>>

\* The last blocking step before the request is packed.
ReadyToSend(c) == pc[c] = IF c \in ParamStream THEN "channel" ELSE "header"

\* Wrong: does not look again whether the peer broke while the caller was blocked.
SendRequestUnchecked(c) ==
    /\ ReadyToSend(c)
    /\ pc' = [pc EXCEPT ![c] = "sending"]
    /\ waiters' = [waiters EXCEPT ![Caller[c]] = @ \cup {c}]
    /\ wire' = WireWith(Caller[c], Request(c))
    /\ UNCHANGED <<event, handlerVars, shutdownVars, pending, mine, link>>

\* The waiter is registered and the request handed to the channel without a switch
\* in between, so the response cannot come before the waiter.
SendRequest(c) ==
    /\ ReadyToSend(c) /\ ~Broken(Caller[c])
    /\ pc' = [pc EXCEPT ![c] = "sending"]
    /\ waiters' = [waiters EXCEPT ![Caller[c]] = @ \cup {c}]
    /\ wire' = WireWith(Caller[c], Request(c))
    /\ UNCHANGED <<event, handlerVars, shutdownVars, pending, mine, link>>

\* packRequest fails: RpcSerializationException, before the waiter exists.
CannotPack(c) ==
    /\ ReadyToSend(c) /\ ~Broken(Caller[c])
    /\ pc' = [pc EXCEPT ![c] = "unpackable"]
    /\ UNCHANGED <<waiters, event, handlerVars, shutdownVars, channelVars>>

\* The peer broke while the caller was blocked before sending, or makeChannel
\* fails on a connection that is down.
GiveUp(c) ==
    /\ \/ pc[c] \in {"header", "channel"} /\ Broken(Caller[c])
       \/ pc[c] = "header" /\ c \in ParamStream /\ ~link
    /\ pc' = [pc EXCEPT ![c] = "disconnected"]
    /\ UNCHANGED <<waiters, event, handlerVars, shutdownVars, channelVars>>

\* sendPacket succeeds; the response may be here already.
RequestSent(c) ==
    /\ pc[c] = "sending" /\ ~Aborted(Caller[c])
    /\ pc' = [pc EXCEPT ![c] = IF Broken(Caller[c]) THEN "disconnected" ELSE "waiting"]
    /\ UNCHANGED <<waiters, event, handlerVars, shutdownVars, channelVars>>

\* sendPacket fails: the caller shuts the peer down, unless it is broken already.
SendFailed(c) ==
    /\ pc[c] = "sending" /\ ~link
    /\ IF Broken(Caller[c])
       THEN /\ pc' = [pc EXCEPT ![c] = "disconnected"]
            /\ UNCHANGED <<waiters, event, shutdownVars>>
       ELSE /\ pc' = [pc EXCEPT ![c] = "closing"]
            /\ BeginShutdown(Caller[c], c)
    /\ UNCHANGED <<handlerVars, channelVars>>

\* What the caller makes of the response in its waiter.
Outcome(c) ==
    IF event[c] = EmptyReply \/ Broken(Caller[c]) THEN "disconnected"
    ELSE IF reply[event[c]] # "stream" THEN reply[event[c]]
    ELSE IF Result(event[c]) \in pending[Caller[c]] THEN "stream" ELSE "lost"

\* Wrong: the waiter stays registered.
GetResponseKeepWaiter(c) ==
    /\ pc[c] = "waiting" /\ event[c] # NoReply
    /\ pc' = [pc EXCEPT ![c] = Outcome(c)]
    /\ pending' = IF Outcome(c) = "stream"
                  THEN Without(Caller[c], Result(event[c]))
                  ELSE pending
    /\ UNCHANGED <<waiters, event, handlerVars, shutdownVars, mine, wire, link>>

\* tryWait returns: the waiter is removed, a returned stream is claimed.
GetResponse(c) ==
    /\ pc[c] = "waiting" /\ event[c] # NoReply
    /\ pc' = [pc EXCEPT ![c] = Outcome(c)]
    /\ waiters' = [waiters EXCEPT ![Caller[c]] = @ \ {c}]
    /\ pending' = IF Outcome(c) = "stream"
                  THEN Without(Caller[c], Result(event[c]))
                  ELSE pending
    /\ UNCHANGED <<event, handlerVars, shutdownVars, mine, wire, link>>

\* The application kills the coroutine of the call, or a timeout interrupts it, also one
\* that a method puts round a call of its own.
\* Only tryWait is in a try block: killed in sendPacket, the call leaves its waiter;
\* killed in the killall() of shutdown(), it leaves the rest of shutdown undone.
Interrupt(c) ==
    LET s == Caller[c] IN
    /\ c \in Interruptible /\ pc[c] \in CallerActive
    /\ pc' = [pc EXCEPT ![c] = "killed"]
    /\ waiters' = IF pc[c] = "waiting" THEN [waiters EXCEPT ![s] = @ \ {c}] ELSE waiters
    /\ phase' = IF pc[c] = "closing" THEN [phase EXCEPT ![s] = "abandoned"] ELSE phase
    /\ UNCHANGED <<event, handlerVars, closer, channelVars>>

-----------------------------------------------------------------------------
(* PeerPrivate::handlePacket, and the DataChannel that feeds it *)

Arrives(s, type) == wire[s] # <<>> /\ Head(wire[s]).type = type
WireRead(s) == [wire EXCEPT ![s] = Tail(@)]

\* Wrong: the receiving coroutine handles the request itself.
DispatchInline(s) ==
    /\ ~Broken(s) /\ Arrives(s, "request")
    /\ \A p \in Calls : Callee(p) = s => hpc[p] \notin HandlerActive
    /\ hpc' = [hpc EXCEPT ![Head(wire[s]).call] = "spawned"]
    /\ wire' = WireRead(s)
    /\ UNCHANGED <<callerVars, reply, shutdownVars, pending, mine, link>>

\* A request is handled in a coroutine of its own.
Dispatch(s) ==
    /\ ~Broken(s) /\ Arrives(s, "request")
    /\ hpc' = [hpc EXCEPT ![Head(wire[s]).call] = "spawned"]
    /\ wire' = WireRead(s)
    /\ UNCHANGED <<callerVars, reply, shutdownVars, pending, mine, link>>

\* Wrong: hands the waiter the result and not the response.
DeliverResult(s) ==
    /\ ~Broken(s) /\ Arrives(s, "response")
    /\ LET c == Head(wire[s]).call IN
       event' = IF c \in waiters[s] THEN [event EXCEPT ![c] = reply[c]] ELSE event
    /\ wire' = WireRead(s)
    /\ UNCHANGED <<pc, waiters, handlerVars, shutdownVars, pending, mine, link>>

\* Wrong: a response without a waiter is ignored, its channel with it.
DeliverOrIgnore(s) ==
    /\ ~Broken(s) /\ Arrives(s, "response")
    /\ LET c == Head(wire[s]).call IN
       event' = IF c \in waiters[s] THEN [event EXCEPT ![c] = c] ELSE event
    /\ wire' = WireRead(s)
    /\ UNCHANGED <<pc, waiters, handlerVars, shutdownVars, pending, mine, link>>

\* Wrong: a response goes to whichever call waits.
DeliverToAny(s) ==
    /\ ~Broken(s) /\ Arrives(s, "response")
    /\ \E d \in waiters[s] : event' = [event EXCEPT ![d] = Head(wire[s]).call]
    /\ wire' = WireRead(s)
    /\ UNCHANGED <<pc, waiters, handlerVars, shutdownVars, pending, mine, link>>

\* A response goes to its waiter; without a waiter its channel is claimed and dropped.
Deliver(s) ==
    /\ ~Broken(s) /\ Arrives(s, "response")
    /\ LET c == Head(wire[s]).call IN
       IF c \in waiters[s]
       THEN event' = [event EXCEPT ![c] = c] /\ UNCHANGED pending
       ELSE /\ pending' = IF reply[c] = "stream" THEN Without(s, Result(c)) ELSE pending
            /\ UNCHANGED event
    /\ wire' = WireRead(s)
    /\ UNCHANGED <<pc, waiters, handlerVars, shutdownVars, mine, link>>

\* The connection ended: recvPacket returns an empty packet and handlePacket shuts
\* the peer down.
EndOfPackets(s) ==
    /\ ~Broken(s) /\ ~link
    /\ BeginShutdown(s, NoCall)
    /\ UNCHANGED <<pc, handlerVars, channelVars>>

\* The DataChannel learns of a sub channel the other side made.
ChannelMade(s) ==
    /\ ~Aborted(s) /\ Arrives(s, "make")
    /\ pending' = [pending EXCEPT ![s] = @ \cup {Head(wire[s]).channel}]
    /\ wire' = WireRead(s)
    /\ UNCHANGED <<callerVars, handlerVars, shutdownVars, mine, link>>

\* The DataChannel learns that the other side destroyed a sub channel.
ChannelDestroyed(s) ==
    /\ ~Aborted(s) /\ Arrives(s, "destroy")
    /\ pending' = Without(s, Head(wire[s]).channel)
    /\ wire' = WireRead(s)
    /\ UNCHANGED <<callerVars, handlerVars, shutdownVars, mine, link>>

\* The owner of a UseStream drops it once the call, or the handler, that made its
\* sub channel has ended.
DropStream(ch) ==
    LET c == ch[1] IN
    /\ ch \in mine
    /\ IF ch = Param(c) THEN pc[c] \in CallerEnded ELSE hpc[c] \in HandlerEnded
    /\ mine' = mine \ {ch}
    /\ wire' = WireWith(Maker(ch), Destroy(ch))
    /\ UNCHANGED <<callerVars, handlerVars, shutdownVars, pending, link>>

\* The network fails, or keepalive gives up.
LinkFails ==
    /\ link
    /\ link' = FALSE
    /\ UNCHANGED <<callerVars, handlerVars, shutdownVars, pending, mine, wire>>

-----------------------------------------------------------------------------
(* PeerPrivate::handleRequest *)

\* headerCallback->auth says no, or the peer broke meanwhile: return without a
\* response; the request's channel is claimed and dropped.
Reject(c) ==
    /\ hpc[c] = "spawned"
    /\ hpc' = [hpc EXCEPT ![c] = IF Broken(Callee(c)) THEN "gone" ELSE "refused"]
    /\ pending' = Without(Callee(c), Param(c))
    /\ UNCHANGED <<callerVars, reply, shutdownVars, mine, wire, link>>

\* The handler's response, packed, is handed to the channel.
Respond(c, kind) ==
    /\ reply' = [reply EXCEPT ![c] = kind]
    /\ hpc' = [hpc EXCEPT ![c] = "sending"]
    /\ wire' = WireWith(Callee(c), Response(c))

\* The request is authorised: its stream is claimed and the method runs.
Accept(c) ==
    /\ hpc[c] = "spawned" /\ ~Broken(Callee(c))
    /\ c \in ParamStream => Param(c) \in pending[Callee(c)]
    /\ hpc' = [hpc EXCEPT ![c] = "running"]
    /\ pending' = Without(Callee(c), Param(c))
    /\ UNCHANGED <<callerVars, reply, shutdownVars, mine, wire, link>>

\* The stream the request names is gone: "bad channel", and the method never runs.
BadChannel(c) ==
    /\ hpc[c] = "spawned" /\ ~Broken(Callee(c))
    /\ c \in ParamStream /\ Param(c) \notin pending[Callee(c)]
    /\ Respond(c, "exception")
    /\ UNCHANGED <<callerVars, shutdownVars, pending, mine, link>>

\* The method may end: it is not waiting in a call of its own.
MethodEnds(c) == hpc[c] = "running" /\ Inner(c) = {}

\* lookupAndCall returns a plain value or raises.
Answer(c) ==
    /\ MethodEnds(c) /\ ~Broken(Callee(c))
    /\ \E kind \in {"value", "exception"} : Respond(c, kind)
    /\ UNCHANGED <<callerVars, shutdownVars, pending, mine, link>>

\* lookupAndCall returns a UseStream: a sub channel is made for it.
OpenResult(c) ==
    /\ MethodEnds(c) /\ c \in ResultStream /\ ~Broken(Callee(c))
    /\ hpc' = [hpc EXCEPT ![c] = "channel"]
    /\ mine' = mine \cup {Result(c)}
    /\ wire' = WireWith(Callee(c), Make(Result(c)))
    /\ UNCHANGED <<callerVars, reply, shutdownVars, pending, link>>

\* The sub channel is made and the response carries it; makeChannel may fail on a
\* connection that is down.
AnswerStream(c) ==
    /\ hpc[c] = "channel" /\ ~Broken(Callee(c))
    /\ \/ Respond(c, "stream")
       \/ ~link /\ Respond(c, "exception")
    /\ UNCHANGED <<callerVars, shutdownVars, pending, mine, link>>

\* The result cannot be serialized: packResponse fails or throws, no response is sent.
CannotAnswer(c) ==
    /\ MethodEnds(c) \/ hpc[c] = "channel"
    /\ ~Broken(Callee(c))
    /\ hpc' = [hpc EXCEPT ![c] = "refused"]
    /\ UNCHANGED <<callerVars, reply, shutdownVars, channelVars>>

\* The peer broke while the method ran or the sub channel was made.
HandlerBroken(c) ==
    /\ MethodEnds(c) \/ hpc[c] = "channel"
    /\ Broken(Callee(c))
    /\ hpc' = [hpc EXCEPT ![c] = "gone"]
    /\ UNCHANGED <<callerVars, reply, shutdownVars, channelVars>>

\* sendPacket returns; handleRequest does not look at what it says.
ResponseSent(c) ==
    /\ hpc[c] = "sending"
    /\ hpc' = [hpc EXCEPT ![c] = "sent"]
    /\ UNCHANGED <<callerVars, reply, shutdownVars, channelVars>>

-----------------------------------------------------------------------------

CallStep(c) ==
    \/ Enter(c) \/ OpenStream(c) \/ SendRequest(c) \/ CannotPack(c) \/ GiveUp(c)
    \/ RequestSent(c) \/ SendFailed(c) \/ GetResponse(c) \/ Interrupt(c)

HandlerStep(c) ==
    \/ Reject(c) \/ Accept(c) \/ BadChannel(c) \/ Answer(c) \/ OpenResult(c)
    \/ AnswerStream(c) \/ CannotAnswer(c) \/ HandlerBroken(c) \/ ResponseSent(c)
    \/ KillHandler(c)

PeerStep(s) ==
    \/ Dispatch(s) \/ Deliver(s) \/ EndOfPackets(s)
    \/ ChannelMade(s) \/ ChannelDestroyed(s)
    \/ UserShutdown(s) \/ Abort(s) \/ Remove(s)

Next ==
    \/ \E c \in Calls : CallStep(c) \/ HandlerStep(c)
    \/ \E s \in Sides : PeerStep(s)
    \/ \E ch \in Channels : DropStream(ch)
    \/ LinkFails

\* What the scheduler and the socket keep doing: coroutines that can run do run,
\* packets arrive, blocked sends return, methods return.  Nothing forces the
\* application, the network failures, or a refusal.
Progress(c) ==
    \/ OpenStream(c) \/ SendRequest(c) \/ GiveUp(c) \/ RequestSent(c) \/ SendFailed(c)
    \/ GetResponse(c)
Handling(c) ==
    \/ Reject(c) \/ Accept(c) \/ BadChannel(c) \/ Answer(c) \/ AnswerStream(c)
    \/ HandlerBroken(c) \/ ResponseSent(c)
Running(s) ==
    \/ Dispatch(s) \/ Deliver(s) \/ EndOfPackets(s)
    \/ ChannelMade(s) \/ ChannelDestroyed(s) \/ Abort(s) \/ Remove(s)

Spec == Init /\ [][Next]_vars

Fairness ==
    /\ \A c \in Calls : WF_vars(Progress(c)) /\ WF_vars(Handling(c)) /\ WF_vars(KillHandler(c))
    /\ \A s \in Sides : WF_vars(Running(s))

FairSpec == Spec /\ Fairness

-----------------------------------------------------------------------------
(* Properties *)

\* A caller that is blocked and has no answer yet can still be reached: the peer is
\* not broken and the caller's waiter is registered, so that the response, or
\* shutdown(), will find it.  (Registration before sendPacket, the broken check right
\* before it, and shutdown() waking every waiter: peer.cpp:318-336, 185-193.)
CallersReachable ==
    \A c \in Calls :
        pc[c] \in {"sending", "waiting"} /\ event[c] = NoReply
            => ~Broken(Caller[c]) /\ c \in waiters[Caller[c]]

\* No waiter outlives its call or its peer, with one exception the code has: a call
\* whose coroutine was killed leaves its waiter (peer.cpp:323-359).
WaitersAreCalls ==
    \A s \in Sides : \A c \in waiters[s] :
        /\ Caller[c] = s /\ ~Broken(s)
        /\ pc[c] \in {"sending", "waiting", "killed"}

\* What peer.h:30 says of isActive(), which is !waiters.isEmpty().
ActiveMeansCalling ==
    \A s \in Sides :
        waiters[s] # {} => \E c \in Calls : Caller[c] = s /\ pc[c] \in CallerActive

InWire(s, p) == \E i \in 1..Len(wire[s]) : wire[s][i] = p

\* The packet or coroutine that will claim a sub channel from pending.
Claimable(s, ch) ==
    LET c == ch[1] IN
    IF ch = Param(c)
    THEN \/ pc[c] = "channel" \/ InWire(s, Request(c)) \/ hpc[c] = "spawned"
         \/ hpc[c] = "none" /\ pc[c] \in CallerEnded      \* never requested
    ELSE \/ hpc[c] = "channel" \/ InWire(s, Response(c))
         \/ event[c] = c /\ pc[c] \in {"sending", "waiting"}
         \/ hpc[c] \in {"refused", "gone"}                  \* never announced

\* The exception the code makes: the response found a waiter, whose call was killed in
\* sendPacket or before tryWait returned.  Nobody takes its sub channel, which stays in
\* the queue until its maker destroys it (peer.cpp:328, 347-352, 449-457).
Forsaken(ch) ==
    LET c == ch[1] IN ch = Result(c) /\ event[c] = c /\ pc[c] = "killed"

\* A sub channel in a live peer's pending queue is waiting for somebody who will take
\* it, or was never put in a request or a response (then its maker destroys it), or was
\* forsaken by a killed call: the claim-and-drop of peer.cpp:406-409, 450-455, 477-492
\* and 562-565 reaches every other one.
StreamsAreClaimable ==
    \A s \in Sides : ~Broken(s) /\ link =>
        \A ch \in pending[s] :
            Claimable(s, ch) \/ Forsaken(ch) \/ InWire(s, Destroy(ch))

ClientOf(at) ==
    IF at = "idle" THEN "idle"
    ELSE IF at \in CallerActive THEN "pending"
    ELSE IF at \in {"value", "stream"} THEN "returned"
    ELSE IF at = "exception" THEN "raised" ELSE "failed"

ServerOf(answer, at) ==
    IF answer # "none" THEN answer
    ELSE IF at \in {"running", "channel"} THEN "running"
    ELSE IF at \in {"refused", "gone"} THEN "lost" ELSE "none"

ClientView == [c \in Calls |-> ClientOf(pc[c])]
ServerView == [c \in Calls |-> ServerOf(reply[c], hpc[c])]

\* The peers implement what RpcCall promises of a call: one invocation at most, and the
\* caller gets the reply of that invocation and of no other, or fails.
Abstract == INSTANCE RpcCall WITH client <- ClientView, server <- ServerView
ImplementsRpcCall == Abstract!RpcSpec

\* Once a peer is broken, every call blocked on it ends: nobody waits for a response
\* that cannot come (peer.cpp:189-193, 334-336, 361-369).
BrokenReleasesCallers ==
    \A c \in Calls :
        Broken(Caller[c]) /\ pc[c] \in CallerActive ~> pc[c] \in CallerEnded

\* A call ends, unless a call was refused: then handleRequest sends nothing and its
\* caller, with the methods it is nested in, waits for the disconnection
\* (peer.cpp:499-505, 633-637).  Calls nested in methods, in both directions over the
\* one connection, do not block each other: each request has its own coroutine (440).
EveryCallSettles ==
    \A c \in Calls :
        pc[c] \in CallerActive ~>
            pc[c] \in CallerEnded \/ \E d \in Calls : hpc[d] = "refused"

\* A side that shuts down takes the other side down with it, and both finish: the
\* killed handlers are joined, the channel aborted, the peer removed from its Rpc,
\* unless the coroutine in shutdown() is itself killed (peer.cpp:180-213).
ShutdownSpreads ==
    \A s \in Sides :
        Broken(s) ~> \A t \in Sides : phase[t] \in {"removed", "abandoned"}
=============================================================================
