---------------------------- MODULE PyPeerProofs ----------------------------
(***************************************************************************)
(* Proofs about PyPeer, for any set of calls and any nesting of them.  The *)
(* wires, the types and the waiters come first, then the invariant that    *)
(* makes the two Python peers an implementation of RpcCall.                *)
(***************************************************************************)
EXTENDS PyPeer, SequenceTheorems, TLAPS

InWire(s, p) == \E i \in 1..Len(wire[s]) : wire[s][i] = p

LEMMA PacketTypes ==
    \A c \in Calls : Request(c) \in Packets /\ Response(c) \in Packets
    BY DEF Packets, Request, Response

LEMMA PacketsDiffer ==
    /\ \A c, d \in Calls : Response(c) # Request(d)
    /\ \A c, d \in Calls : Response(c) = Response(d) => c = d
    /\ \A c, d \in Calls : Request(c) = Request(d) => c = d
<1>1. \A c \in Calls : Response(c).type = "response" /\ Request(c).type = "request"
    BY DEF Response, Request
<1>2. \A c \in Calls : Request(c).call = c /\ Response(c).call = c
    BY DEF Response, Request
<1> QED BY <1>1, <1>2

LEMMA SideTypes ==
    /\ \A s \in Sides : Other(s) \in Sides /\ Other(s) # s
    /\ \A c \in Calls : Caller[c] \in Sides /\ Callee(c) \in Sides /\ Callee(c) # Caller[c]
    BY CallsAssumption DEF Sides, Other, Callee

LEMMA WireType == TypeOK => wire \in [Sides -> Seq(Packets)]
    BY DEF TypeOK

\* Sending and reading keep the wires well formed.
LEMMA SendType ==
    ASSUME TypeOK, NEW s \in Sides, NEW p \in Packets
    PROVE  WireWith(s, p) \in [Sides -> Seq(Packets)]
    BY SideTypes, WireType DEF WireWith

LEMMA ReadType ==
    ASSUME TypeOK, NEW s \in Sides, wire[s] # <<>>
    PROVE  /\ WireRead(s) \in [Sides -> Seq(Packets)]
           /\ Head(wire[s]).call \in Calls
           /\ InWire(s, Head(wire[s]))
           /\ Head(wire[s]).type = "request" => Head(wire[s]) = Request(Head(wire[s]).call)
           /\ Head(wire[s]).type = "response" => Head(wire[s]) = Response(Head(wire[s]).call)
<1>1. wire \in [Sides -> Seq(Packets)] /\ wire[s] \in Seq(Packets)
    BY WireType
<1>2. Head(wire[s]) \in Packets /\ Tail(wire[s]) \in Seq(Packets)
    BY <1>1, HeadTailProperties
<1>3. WireRead(s) \in [Sides -> Seq(Packets)]
    BY <1>1, <1>2 DEF WireRead
<1>4. \A p \in Packets : /\ p.call \in Calls
                         /\ p.type = "request" => p = Request(p.call)
                         /\ p.type = "response" => p = Response(p.call)
    BY DEF Packets, Request, Response
<1>5. 1 \in 1..Len(wire[s]) /\ Head(wire[s]) = wire[s][1]
    BY <1>1
<1> QED BY <1>2, <1>3, <1>4, <1>5 DEF InWire

\* Where a packet that travels after a send, or after a read, was before.
LEMMA SendPlaces ==
    ASSUME TypeOK, NEW s \in Sides, NEW p \in Packets, wire' = WireWith(s, p),
           NEW t \in Sides, NEW i \in 1..Len(wire'[t])
    PROVE  \/ i \in 1..Len(wire[t]) /\ wire[t][i] = wire'[t][i]
           \/ t = Other(s) /\ i = Len(wire[t]) + 1 /\ wire'[t][i] = p
<1>1. wire[t] \in Seq(Packets) /\ wire \in [Sides -> Seq(Packets)]
    BY WireType
<1>2. wire'[t] = wire[t] \/ (t = Other(s) /\ wire'[t] = Append(wire[t], p))
    BY <1>1 DEF WireWith
<1> QED BY <1>1, <1>2

LEMMA ReadPlaces ==
    ASSUME TypeOK, NEW s \in Sides, wire[s] # <<>>, wire' = WireRead(s),
           NEW t \in Sides, NEW i \in 1..Len(wire'[t])
    PROVE  LET j == IF t = s THEN i + 1 ELSE i IN
           j \in 1..Len(wire[t]) /\ wire[t][j] = wire'[t][i]
<1>1. wire[s] \in Seq(Packets) /\ wire[t] \in Seq(Packets) /\ wire \in [Sides -> Seq(Packets)]
    BY WireType
<1>2. wire'[t] = IF t = s THEN Tail(wire[s]) ELSE wire[t]
    BY <1>1 DEF WireRead
<1> QED BY <1>1, <1>2

LEMMA SendContents ==
    ASSUME TypeOK, NEW s \in Sides, NEW p \in Packets, wire' = WireWith(s, p),
           NEW t \in Sides, NEW q, InWire(t, q)'
    PROVE  InWire(t, q) \/ q = p
    BY SendPlaces DEF InWire

LEMMA ReadContents ==
    ASSUME TypeOK, NEW s \in Sides, wire[s] # <<>>, wire' = WireRead(s),
           NEW t \in Sides, NEW q, InWire(t, q)'
    PROVE  InWire(t, q)
    BY ReadPlaces DEF InWire

-----------------------------------------------------------------------------
(* Type correctness *)

\* A response on a wire, about to be sent or in a waiter, was computed; a waiter only
\* gets the response of its own call.
RepliesExist ==
    /\ \A s \in Sides : \A c \in Calls : InWire(s, Response(c)) => reply[c] # "none"
    /\ \A c \in Calls : hpc[c] = "sending" => reply[c] # "none"
    /\ \A c \in Calls : event[c] \in Calls => event[c] = c /\ reply[c] # "none"

LEMMA ShutdownType ==
    ASSUME TypeOK, NEW s \in Sides, NEW who \in Calls \cup {NoCall}, BeginShutdown(s, who)
    PROVE  /\ phase' \in [Sides -> {"live", "killing", "closing", "removed", "abandoned"}]
           /\ closer' \in [Sides -> Calls \cup {NoCall}]
           /\ doomed' \in [Sides -> SUBSET Calls]
    BY DEF TypeOK, BeginShutdown

LEMMA WakeType ==
    ASSUME TypeOK, NEW s \in Sides, WakeWaiters(s)
    PROVE  /\ event' \in [Calls -> Calls \cup {NoReply, Disconnected}]
           /\ waiters' \in [Sides -> SUBSET Calls]
    BY DEF TypeOK, WakeWaiters

LEMMA CallStepType ==
    ASSUME TypeOK, RepliesExist, NEW c \in Calls, CallStep(c)
    PROVE  TypeOK'
<1> USE DEF CallerActive, CallerEnded
<1>0. Caller[c] \in Sides /\ Request(c) \in Packets
    BY PacketTypes, SideTypes
<1>1. CASE Enter(c)
    BY <1>1 DEF TypeOK, Enter, handlerVars, closeVars
<1>2. CASE HeaderMade(c)
    BY <1>2 DEF TypeOK, HeaderMade, handlerVars, closeVars
<1>3. CASE CannotSend(c)
    BY <1>3 DEF TypeOK, CannotSend, handlerVars, closeVars
<1>4. CASE RequestWritten(c)
    <2>1. wire' \in [Sides -> Seq(Packets)]
        BY <1>0, <1>4, SendType DEF RequestWritten
    <2>2. pc' \in [Calls -> {"idle"} \cup CallerActive \cup CallerEnded]
        BY <1>4 DEF TypeOK, RequestWritten
    <2> QED BY <1>4, <2>1, <2>2 DEF TypeOK, RequestWritten, handlerVars, closeVars
<1>5. CASE Register(c)
    <2>0. /\ \E to \in {"waiting", "closing"} : pc' = [pc EXCEPT ![c] = to]
          /\ \/ waiters' = waiters
             \/ waiters' = [waiters EXCEPT ![Caller[c]] = @ \cup {c}]
        BY <1>5, Zenon DEF Register
    <2>1. pc' \in [Calls -> {"idle"} \cup CallerActive \cup CallerEnded]
        BY <2>0 DEF TypeOK
    <2>2. waiters' \in [Sides -> SUBSET Calls]
        <3>1. waiters \in [Sides -> SUBSET Calls] /\ Caller[c] \in Sides
            BY <1>0 DEF TypeOK
        <3>2. waiters[Caller[c]] \cup {c} \in SUBSET Calls
            BY <3>1
        <3> QED BY <2>0, <3>1, <3>2
    <2>3. UNCHANGED <<event, handlerVars, receiver, closeVars, open, wire>>
        BY <1>5 DEF Register
    <2> QED BY <2>1, <2>2, <2>3 DEF TypeOK, handlerVars, closeVars
<1>6. CASE GetResponse(c)
    <2>1. event[c] \in Calls \cup {Disconnected}
        BY <1>6 DEF TypeOK, GetResponse
    <2>2. event[c] \in Calls => reply[event[c]] \in {"value", "exception"}
        BY <2>1 DEF TypeOK, RepliesExist
    <2>3. pc' = [pc EXCEPT ![c] = "closing"]
          \/ (event[c] # Disconnected /\ pc' = [pc EXCEPT ![c] = reply[event[c]]])
        BY <1>6 DEF GetResponse
    <2>4. pc' \in [Calls -> {"idle"} \cup CallerActive \cup CallerEnded]
        BY <2>1, <2>2, <2>3 DEF TypeOK
    <2>5. waiters' \in [Sides -> SUBSET Calls]
        BY <1>0, <1>6 DEF TypeOK, GetResponse
    <2> QED BY <1>6, <2>4, <2>5 DEF TypeOK, GetResponse, handlerVars, closeVars
<1>7. CASE Close(c)
    <2>1. CASE BeginShutdown(Caller[c], c) /\ UNCHANGED pc
        <3>1. /\ phase' \in [Sides -> {"live", "killing", "closing", "removed", "abandoned"}]
              /\ closer' \in [Sides -> Calls \cup {NoCall}]
              /\ doomed' \in [Sides -> SUBSET Calls]
            BY <1>0, <2>1, ShutdownType
        <3> QED BY <1>7, <2>1, <3>1 DEF TypeOK, Close, handlerVars
    <2>2. CASE pc' = [pc EXCEPT ![c] = "disconnected"] /\ UNCHANGED closeVars
        BY <1>7, <2>2 DEF TypeOK, Close, handlerVars, closeVars
    <2> QED BY <1>7, <2>1, <2>2 DEF Close
<1>8. CASE CloseReturns(c)
    BY <1>8 DEF TypeOK, CloseReturns, handlerVars, closeVars
<1>9. CASE Interrupt(c)
    <2>1. pc' \in [Calls -> {"idle"} \cup CallerActive \cup CallerEnded]
        BY <1>9 DEF TypeOK, Interrupt
    <2>2. phase' \in [Sides -> {"live", "killing", "closing", "removed", "abandoned"}]
        BY <1>0, <1>9 DEF TypeOK, Interrupt
    <2> QED BY <1>9, <2>1, <2>2 DEF TypeOK, Interrupt, handlerVars
<1>10. CASE Die(c)
    <2>1. hpc' \in [Calls -> {"none"} \cup HandlerActive \cup HandlerEnded]
        BY <1>10, CallsAssumption DEF TypeOK, Die, HandlerEnded
    <2>2. pc' \in [Calls -> {"idle"} \cup CallerActive \cup CallerEnded]
        BY <1>10 DEF TypeOK, Die
    <2>3. waiters' \in [Sides -> SUBSET Calls]
        BY <1>0, <1>10 DEF TypeOK, Die
    <2> QED BY <1>10, <2>1, <2>2, <2>3 DEF TypeOK, Die, closeVars
<1> QED BY <1>1, <1>2, <1>3, <1>4, <1>5, <1>6, <1>7, <1>8, <1>9, <1>10 DEF CallStep

LEMMA HandlerStepType ==
    ASSUME TypeOK, NEW c \in Calls, HandlerStep(c)
    PROVE  TypeOK'
<1> USE DEF HandlerActive, HandlerEnded
<1>0. Callee(c) \in Sides /\ Response(c) \in Packets
    BY PacketTypes, SideTypes
<1>1. ASSUME NEW to \in {"running", "deferred", "stranded", "refused", "gone"},
             hpc' = [hpc EXCEPT ![c] = to],
             UNCHANGED <<callVars, reply, receiver, closeVars, open, wire>>
      PROVE  TypeOK'
    BY <1>1 DEF TypeOK, callVars, closeVars
<1>2. ASSUME NEW kind \in {"value", "exception"}, hpc' = [hpc EXCEPT ![c] = "sending"],
             reply' = [reply EXCEPT ![c] = kind],
             UNCHANGED <<callVars, receiver, closeVars, open, wire>>
      PROVE  TypeOK'
    BY <1>2 DEF TypeOK, callVars, closeVars
<1>3. CASE Reject(c) \/ Accept(c) \/ HandlerBroken(c)
    BY <1>1, <1>3 DEF Reject, Accept, HandlerBroken
<1>4. CASE CannotAnswer(c) \/ ResponseFails(c)
    BY <1>1, <1>4 DEF CannotAnswer, ResponseFails
<1>5. CASE Defer(c) \/ DeferredFails(c)
    BY <1>1, <1>5 DEF Defer, DeferredFails
<1>6. CASE Answer(c) \/ AnswerException(c) \/ DeferredFires(c)
    BY <1>2, <1>6 DEF Answer, AnswerException, DeferredFires
<1>7. CASE ResponseWritten(c)
    <2>1. wire' \in [Sides -> Seq(Packets)]
        BY <1>0, <1>7, SendType DEF ResponseWritten
    <2>2. hpc' \in [Calls -> {"none"} \cup HandlerActive \cup HandlerEnded]
        BY <1>7 DEF TypeOK, ResponseWritten
    <2> QED BY <1>7, <2>1, <2>2 DEF TypeOK, ResponseWritten, callVars, closeVars
<1>8. CASE KillHandler(c)
    <2>1. pc' \in [Calls -> {"idle"} \cup CallerActive \cup CallerEnded]
        BY <1>8 DEF TypeOK, KillHandler, CallerActive, CallerEnded
    <2>2. /\ hpc' \in [Calls -> {"none"} \cup HandlerActive \cup HandlerEnded]
          /\ phase' \in [Sides -> {"live", "killing", "closing", "removed", "abandoned"}]
        BY <1>0, <1>8 DEF TypeOK, KillHandler
    <2> QED BY <1>8, <2>1, <2>2 DEF TypeOK, KillHandler
<1>9. CASE MethodCloses(c)
    <2>1. /\ phase' \in [Sides -> {"live", "killing", "closing", "removed", "abandoned"}]
          /\ closer' \in [Sides -> Calls \cup {NoCall}]
          /\ doomed' \in [Sides -> SUBSET Calls]
        BY <1>0, <1>9, ShutdownType DEF MethodCloses
    <2>2. hpc' \in [Calls -> {"none"} \cup HandlerActive \cup HandlerEnded]
        BY <1>9 DEF TypeOK, MethodCloses
    <2> QED BY <1>9, <2>1, <2>2 DEF TypeOK, MethodCloses, callVars
<1> QED BY <1>3, <1>4, <1>5, <1>6, <1>7, <1>8, <1>9 DEF HandlerStep

LEMMA PeerStepType ==
    ASSUME TypeOK, NEW s \in Sides, PeerStep(s)
    PROVE  TypeOK'
<1>1. CASE Dispatch(s)
    <2>1. Head(wire[s]).call \in Calls /\ wire' \in [Sides -> Seq(Packets)]
        BY <1>1, ReadType DEF Dispatch, Arrives
    <2>2. hpc' \in [Calls -> {"none"} \cup HandlerActive \cup HandlerEnded]
        BY <1>1, <2>1 DEF TypeOK, Dispatch, HandlerActive
    <2> QED BY <1>1, <2>1, <2>2 DEF TypeOK, Dispatch, callVars, closeVars
<1>2. CASE Deliver(s)
    <2>1. Head(wire[s]).call \in Calls /\ wire' \in [Sides -> Seq(Packets)]
        BY <1>2, ReadType DEF Deliver, Arrives
    <2>2. event' \in [Calls -> Calls \cup {NoReply, Disconnected}]
        BY <1>2, <2>1 DEF TypeOK, Deliver
    <2> QED BY <1>2, <2>1, <2>2 DEF TypeOK, Deliver, handlerVars, closeVars
<1>3. CASE DeliverBlocked(s)
    BY <1>3 DEF TypeOK, DeliverBlocked, callVars, handlerVars, closeVars
<1>4. CASE ReceiveFails(s)
    BY <1>4 DEF TypeOK, ReceiveFails, callVars, handlerVars, closeVars
<1>5. CASE Clean(s)
    <2>1. CASE phase[s] = "live"
        <3>1. event' \in [Calls -> Calls \cup {NoReply, Disconnected}]
              /\ waiters' \in [Sides -> SUBSET Calls]
            BY <1>5, <2>1, WakeType DEF Clean
        <3> QED BY <1>5, <2>1, <3>1 DEF TypeOK, Clean, handlerVars
    <2>2. CASE phase[s] # "live"
        BY <1>5, <2>2 DEF TypeOK, Clean, handlerVars
    <2> QED BY <2>1, <2>2
<1>6. CASE UserShutdown(s)
    <2>1. /\ phase' \in [Sides -> {"live", "killing", "closing", "removed", "abandoned"}]
          /\ closer' \in [Sides -> Calls \cup {NoCall}]
          /\ doomed' \in [Sides -> SUBSET Calls]
        BY <1>6, ShutdownType DEF UserShutdown
    <2> QED BY <1>6, <2>1 DEF TypeOK, UserShutdown, callVars, handlerVars
<1>7. CASE KillReceiver(s)
    BY <1>7 DEF TypeOK, KillReceiver, callVars, handlerVars, closeVars
<1>8. CASE FinishShutdown(s)
    <2>1. event' \in [Calls -> Calls \cup {NoReply, Disconnected}]
          /\ waiters' \in [Sides -> SUBSET Calls]
        BY <1>8, WakeType DEF FinishShutdown
    <2> QED BY <1>8, <2>1 DEF TypeOK, FinishShutdown, handlerVars
<1>9. CASE Remove(s)
    BY <1>9 DEF TypeOK, Remove, callVars, handlerVars
<1>10. CASE ChannelFails(s)
    BY <1>10 DEF TypeOK, ChannelFails, callVars, handlerVars, closeVars
<1> QED BY <1>1, <1>2, <1>3, <1>4, <1>5, <1>6, <1>7, <1>8, <1>9, <1>10 DEF PeerStep

-----------------------------------------------------------------------------
(* The responses that travel were computed *)

\* What a step of the system does to the wires.
LEMMA WireSteps ==
    ASSUME TypeOK, [Next]_vars
    PROVE  \/ wire' = wire
           \/ \E s \in Sides : wire[s] # <<>> /\ wire' = WireRead(s)
           \/ \E c \in Calls : RequestWritten(c) /\ wire' = WireWith(Caller[c], Request(c))
           \/ \E c \in Calls : ResponseWritten(c) /\ wire' = WireWith(Callee(c), Response(c))
<1> DEFINE Goal ==
      \/ wire' = wire
      \/ \E s \in Sides : wire[s] # <<>> /\ wire' = WireRead(s)
      \/ \E c \in Calls : RequestWritten(c) /\ wire' = WireWith(Caller[c], Request(c))
      \/ \E c \in Calls : ResponseWritten(c) /\ wire' = WireWith(Callee(c), Response(c))
<1>1. ASSUME NEW c \in Calls, CallStep(c) PROVE Goal
    <2>1. CASE RequestWritten(c)
        BY <2>1 DEF RequestWritten
    <2> QED BY <1>1, <2>1 DEF CallStep, Enter, HeaderMade, CannotSend, Register, GetResponse,
            Close, CloseReturns, Interrupt, Die
<1>2. ASSUME NEW c \in Calls, HandlerStep(c) PROVE Goal
    <2>1. CASE ResponseWritten(c)
        BY <2>1 DEF ResponseWritten
    <2> QED BY <1>2, <2>1 DEF HandlerStep, Reject, Accept, Answer, AnswerException,
            HandlerBroken, Defer, DeferredFires, DeferredFails, CannotAnswer, ResponseFails,
            MethodCloses, KillHandler
<1>3. ASSUME NEW s \in Sides, PeerStep(s) PROVE Goal
    BY <1>3 DEF PeerStep, Dispatch, Deliver, DeliverBlocked, ReceiveFails, Clean, UserShutdown,
            KillReceiver, FinishShutdown, Remove, ChannelFails, Arrives
<1>4. CASE UNCHANGED vars
    BY <1>4 DEF vars
<1> QED BY <1>1, <1>2, <1>3, <1>4 DEF Next

\* A response that travels after a step travelled before, or was just sent.
LEMMA NewResponse ==
    ASSUME TypeOK, [Next]_vars, NEW s \in Sides, NEW c \in Calls, InWire(s, Response(c))'
    PROVE  InWire(s, Response(c)) \/ ResponseWritten(c)
<1> USE SideTypes, PacketTypes, PacketsDiffer
<1>1. CASE wire' = wire
    BY <1>1 DEF InWire
<1>2. ASSUME NEW t \in Sides, wire[t] # <<>>, wire' = WireRead(t)
      PROVE  InWire(s, Response(c))
    BY <1>2, ReadContents
<1>3. ASSUME NEW d \in Calls, wire' = WireWith(Caller[d], Request(d))
      PROVE  InWire(s, Response(c))
    BY <1>3, SendContents
<1>4. ASSUME NEW d \in Calls, ResponseWritten(d), wire' = WireWith(Callee(d), Response(d))
      PROVE  InWire(s, Response(c)) \/ ResponseWritten(c)
    BY <1>4, SendContents
<1> QED BY <1>1, <1>2, <1>3, <1>4, WireSteps

\* Replies are never forgotten, and who starts to send has one.
LEMMA RepliesStay ==
    ASSUME TypeOK, [Next]_vars, NEW c \in Calls
    PROVE  /\ reply[c] # "none" => reply'[c] # "none"
           /\ hpc'[c] = "sending" => hpc[c] = "sending" \/ reply'[c] # "none"
<1> DEFINE Goal == /\ reply[c] # "none" => reply'[c] # "none"
                   /\ hpc'[c] = "sending" => hpc[c] = "sending" \/ reply'[c] # "none"
<1>1. ASSUME NEW d \in Calls, CallStep(d) PROVE Goal
    <2>1. CASE Die(d)
        BY <2>1 DEF Die, TypeOK
    <2>2. CASE ~Die(d)
        BY <1>1, <2>2 DEF CallStep, Enter, HeaderMade, CannotSend, RequestWritten, Register,
            GetResponse, Close, CloseReturns, Interrupt, handlerVars
    <2> QED BY <2>1, <2>2
<1>2. ASSUME NEW d \in Calls, HandlerStep(d) PROVE Goal
    <2>1. CASE Answer(d) \/ AnswerException(d) \/ DeferredFires(d)
        BY <2>1 DEF Answer, AnswerException, DeferredFires, TypeOK
    <2>2. CASE Reject(d) \/ Accept(d) \/ HandlerBroken(d) \/ CannotAnswer(d) \/ ResponseFails(d)
        BY <2>2 DEF Reject, Accept, HandlerBroken, CannotAnswer, ResponseFails, TypeOK
    <2>3. CASE Defer(d) \/ DeferredFails(d) \/ ResponseWritten(d) \/ KillHandler(d)
        BY <2>3 DEF Defer, DeferredFails, ResponseWritten, KillHandler, TypeOK
    <2>4. CASE MethodCloses(d)
        BY <2>4 DEF MethodCloses, TypeOK
    <2> QED BY <1>2, <2>1, <2>2, <2>3, <2>4 DEF HandlerStep
<1>3. ASSUME NEW s \in Sides, PeerStep(s) PROVE Goal
    <2>1. CASE Dispatch(s)
        BY <2>1 DEF Dispatch, TypeOK
    <2>2. CASE ~Dispatch(s)
        BY <1>3, <2>2 DEF PeerStep, Deliver, DeliverBlocked, ReceiveFails, Clean, UserShutdown,
            KillReceiver, FinishShutdown, Remove, ChannelFails, handlerVars
    <2> QED BY <2>1, <2>2
<1>4. CASE UNCHANGED vars
    BY <1>4 DEF vars, handlerVars
<1> QED BY <1>1, <1>2, <1>3, <1>4 DEF Next

\* A waiter is only ever signalled by its own response, or by the end of the peer.
LEMMA EventsStep ==
    ASSUME TypeOK, [Next]_vars, NEW c \in Calls
    PROVE  \/ event'[c] \in {event[c], Disconnected}
           \/ event'[c] = c /\ \E s \in Sides : InWire(s, Response(c))
<1> DEFINE Goal == \/ event'[c] \in {event[c], Disconnected}
                   \/ event'[c] = c /\ \E s \in Sides : InWire(s, Response(c))
<1>1. ASSUME NEW d \in Calls, CallStep(d) PROVE Goal
    BY <1>1 DEF CallStep, Enter, HeaderMade, CannotSend, RequestWritten, Register,
            GetResponse, Close, CloseReturns, Interrupt, Die
<1>2. ASSUME NEW d \in Calls, HandlerStep(d) PROVE Goal
    BY <1>2 DEF HandlerStep, Reject, Accept, Answer, AnswerException, HandlerBroken, Defer,
            DeferredFires, DeferredFails, CannotAnswer, ResponseWritten, ResponseFails,
            MethodCloses, KillHandler, callVars
<1>3. ASSUME NEW s \in Sides, PeerStep(s) PROVE Goal
    <2>1. CASE Deliver(s)
        <3>1. LET d == Head(wire[s]).call IN
              /\ d \in Calls /\ InWire(s, Response(d))
              /\ event' = event \/ event' = [event EXCEPT ![d] = d]
            BY <2>1, ReadType DEF Deliver, Arrives
        <3> QED BY <3>1 DEF TypeOK
    <2>2. CASE Clean(s) \/ FinishShutdown(s)
        <3>1. event' = event \/ WakeWaiters(s)
            BY <2>2 DEF Clean, FinishShutdown
        <3> QED BY <3>1 DEF WakeWaiters
    <2>3. CASE ~Deliver(s) /\ ~Clean(s) /\ ~FinishShutdown(s)
        BY <1>3, <2>3 DEF PeerStep, Dispatch, DeliverBlocked, ReceiveFails, UserShutdown,
            KillReceiver, Remove, ChannelFails, callVars
    <2> QED BY <2>1, <2>2, <2>3
<1>4. CASE UNCHANGED vars
    BY <1>4 DEF vars, callVars
<1> QED BY <1>1, <1>2, <1>3, <1>4 DEF Next

LEMMA RepliesStep ==
    ASSUME TypeOK, RepliesExist, [Next]_vars
    PROVE  RepliesExist'
<1>1. ASSUME NEW s \in Sides, NEW c \in Calls, InWire(s, Response(c))'
      PROVE  reply'[c] # "none"
    <2>1. InWire(s, Response(c)) \/ hpc[c] = "sending"
        BY <1>1, NewResponse DEF ResponseWritten
    <2> QED BY <2>1, RepliesStay DEF RepliesExist
<1>2. ASSUME NEW c \in Calls, hpc'[c] = "sending"
      PROVE  reply'[c] # "none"
    BY <1>2, RepliesStay DEF RepliesExist
<1>3. ASSUME NEW c \in Calls, event'[c] \in Calls
      PROVE  event'[c] = c /\ reply'[c] # "none"
    <2>1. event'[c] # Disconnected
        BY <1>3, CallsAssumption
    <2> QED BY <1>3, <2>1, EventsStep, RepliesStay DEF RepliesExist
<1> QED BY <1>1, <1>2, <1>3 DEF RepliesExist

LEMMA TypeStep ==
    ASSUME TypeOK, RepliesExist, [Next]_vars
    PROVE  TypeOK'
<1>1. CASE UNCHANGED vars
    BY <1>1 DEF TypeOK, vars, callVars, handlerVars, closeVars
<1> QED BY <1>1, CallStepType, HandlerStepType, PeerStepType DEF Next

LEMMA TypesHold == Spec => [](TypeOK /\ RepliesExist)
<1>1. Init => TypeOK /\ RepliesExist
    BY CallsAssumption DEF Init, TypeOK, RepliesExist, InWire
<1>2. TypeOK /\ RepliesExist /\ [Next]_vars => (TypeOK /\ RepliesExist)'
    BY TypeStep, RepliesStep
<1> QED BY <1>1, <1>2, PTL DEF Spec

\* Every variable keeps its type; in particular the reply that _call returns was computed
\* by a handler (peer.py:251-275).
THEOREM TypeCorrect == Spec => []TypeOK
    BY TypesHold, PTL

-----------------------------------------------------------------------------
(* Waiting callers *)

LEMMA WaitingStep ==
    ASSUME TypeOK, RepliesExist, WaitingIsReachable, [Next]_vars
    PROVE  WaitingIsReachable'
<1> SUFFICES ASSUME NEW c \in Calls, pc'[c] = "waiting", event'[c] = NoReply
             PROVE  /\ c \in waiters'[Caller[c]]
                    /\ phase'[Caller[c]] \in {"live", "killing", "abandoned"}
    BY DEF WaitingIsReachable
<1> DEFINE Goal == /\ c \in waiters'[Caller[c]]
                   /\ phase'[Caller[c]] \in {"live", "killing", "abandoned"}
<1>0. /\ Caller[c] \in Sides
      /\ pc[c] = "waiting" /\ event[c] = NoReply =>
           /\ c \in waiters[Caller[c]]
           /\ phase[Caller[c]] \in {"live", "killing", "abandoned"}
    BY SideTypes DEF WaitingIsReachable
<1>1. ASSUME NEW d \in Calls, CallStep(d) PROVE Goal
    <2>0. Caller[d] \in Sides
        BY SideTypes
    <2>1. CASE Register(d)
        <3>1. event[c] = NoReply
            BY <2>1 DEF Register
        <3>2. CASE IsOk(Caller[d])
            <4>1. /\ pc' = [pc EXCEPT ![d] = "waiting"] /\ phase' = phase
                  /\ waiters' = [waiters EXCEPT ![Caller[d]] = @ \cup {d}]
                  /\ phase[Caller[d]] = "live"
                BY <2>1, <3>2, Zenon DEF Register, closeVars, IsOk
            <4>2. CASE c = d
                BY <2>0, <4>1, <4>2 DEF TypeOK
            <4>3. CASE c # d
                BY <1>0, <2>0, <3>1, <4>1, <4>3 DEF TypeOK
            <4> QED BY <4>2, <4>3
        <3>3. CASE ~IsOk(Caller[d])
            <4>1. pc' = [pc EXCEPT ![d] = "closing"] /\ phase' = phase /\ waiters' = waiters
                BY <2>1, <3>3, Zenon DEF Register, closeVars
            <4> QED BY <1>0, <3>1, <4>1 DEF TypeOK
        <3> QED BY <3>2, <3>3
    <2>2. CASE GetResponse(d)
        <3>1. /\ \/ pc' = [pc EXCEPT ![d] = "closing"]
                 \/ event[d] # Disconnected /\ pc' = [pc EXCEPT ![d] = reply[event[d]]]
              /\ waiters' = [waiters EXCEPT ![Caller[d]] = @ \ {d}]
              /\ event[d] # NoReply
              /\ event' = event /\ phase' = phase
            BY <2>2 DEF GetResponse, closeVars
        <3>2. event[d] # Disconnected => reply[event[d]] \in {"value", "exception"}
            BY <3>1 DEF TypeOK, RepliesExist
        <3>3. c # d /\ pc'[c] = pc[c]
            BY <3>1, <3>2 DEF TypeOK
        <3> QED BY <1>0, <2>0, <3>1, <3>3 DEF TypeOK
    <2>3. CASE Die(d)
        <3>1. /\ pc' = [pc EXCEPT ![d] = "killed"] /\ event' = event /\ phase' = phase
              /\ waiters' = [waiters EXCEPT ![Caller[d]] = @ \ {d}]
            BY <2>3 DEF Die, closeVars
        <3> QED BY <1>0, <2>0, <3>1 DEF TypeOK
    <2>4. CASE Close(d) \/ Interrupt(d)
        <3>1. /\ pc'[c] = pc[c] /\ event' = event /\ waiters' = waiters
              /\ phase'[Caller[c]] \in {phase[Caller[c]], "killing", "abandoned"}
            BY <1>0, <2>0, <2>4 DEF Close, Interrupt, BeginShutdown, closeVars, TypeOK
        <3> QED BY <1>0, <3>1
    <2>5. CASE Enter(d) \/ HeaderMade(d) \/ CannotSend(d) \/ RequestWritten(d) \/ CloseReturns(d)
        <3>1. /\ \E to \in {"header", "disconnected", "sending", "closing", "internal", "sent"} :
                    pc' = [pc EXCEPT ![d] = to]
              /\ event' = event /\ waiters' = waiters /\ phase' = phase
            BY <2>5, Zenon DEF Enter, HeaderMade, CannotSend, RequestWritten, CloseReturns,
                closeVars
        <3>2. pc[c] = "waiting"
            BY <3>1 DEF TypeOK
        <3> QED BY <1>0, <3>1, <3>2
    <2> QED BY <1>1, <2>1, <2>2, <2>3, <2>4, <2>5 DEF CallStep
<1>2. ASSUME NEW d \in Calls, HandlerStep(d) PROVE Goal
    <2>1. CASE KillHandler(d)
        <3>1. /\ pc'[c] \in {pc[c], "dying", "killed"} /\ event' = event /\ waiters' = waiters
              /\ phase'[Caller[c]] \in {phase[Caller[c]], "abandoned"}
            BY <1>0, <2>1 DEF KillHandler, TypeOK
        <3> QED BY <1>0, <3>1
    <2>2. CASE MethodCloses(d)
        <3>1. /\ UNCHANGED callVars
              /\ phase' = [phase EXCEPT ![Callee(d)] = "killing"]
            BY <2>2 DEF MethodCloses, BeginShutdown
        <3>2. phase[Callee(d)] = "live"
            BY <2>2 DEF MethodCloses
        <3> QED BY <1>0, <3>1, <3>2 DEF TypeOK, callVars
    <2>3. CASE ~KillHandler(d) /\ ~MethodCloses(d)
        <3>1. UNCHANGED <<callVars, phase>>
            BY <1>2, <2>3 DEF HandlerStep, Reject, Accept, Answer, AnswerException,
                HandlerBroken, Defer, DeferredFires, DeferredFails, CannotAnswer,
                ResponseWritten, ResponseFails, closeVars
        <3> QED BY <1>0, <3>1 DEF callVars
    <2> QED BY <2>1, <2>2, <2>3
<1>3. ASSUME NEW s \in Sides, PeerStep(s) PROVE Goal
    <2>1. CASE FinishShutdown(s) \/ (Clean(s) /\ phase[s] = "live")
        <3>1. /\ pc' = pc /\ WakeWaiters(s) /\ phase' = [phase EXCEPT ![s] = "closing"]
            BY <2>1 DEF FinishShutdown, Clean
        <3>2. event[c] = NoReply /\ c \notin waiters[s]
            BY <3>1, CallsAssumption DEF WakeWaiters
        <3>3. Caller[c] # s
            BY <1>0, <3>1, <3>2
        <3> QED BY <1>0, <3>1, <3>2, <3>3 DEF WakeWaiters, TypeOK
    <2>2. CASE Clean(s) /\ phase[s] # "live"
        <3>1. UNCHANGED <<callVars, phase>>
            BY <2>2 DEF Clean, callVars
        <3> QED BY <1>0, <3>1 DEF callVars
    <2>3. CASE Deliver(s)
        <3>1. pc' = pc /\ waiters' = waiters /\ phase' = phase
            BY <2>3 DEF Deliver, closeVars
        <3>2. LET d == Head(wire[s]).call IN
              d \in Calls /\ (event' = event \/ event' = [event EXCEPT ![d] = d])
            BY <2>3, ReadType DEF Deliver, Arrives
        <3>3. event[c] = NoReply
            BY <3>2, CallsAssumption DEF TypeOK
        <3> QED BY <1>0, <3>1, <3>3
    <2>4. CASE UserShutdown(s)
        <3>1. UNCHANGED callVars /\ phase' = [phase EXCEPT ![s] = "killing"]
            BY <2>4 DEF UserShutdown, BeginShutdown
        <3> QED BY <1>0, <3>1 DEF callVars, TypeOK
    <2>5. CASE Remove(s)
        <3>1. UNCHANGED callVars /\ phase[s] = "closing" /\ phase' = [phase EXCEPT ![s] = "removed"]
            BY <2>5 DEF Remove
        <3> QED BY <1>0, <3>1 DEF callVars, TypeOK
    <2>6. CASE Dispatch(s) \/ DeliverBlocked(s) \/ ReceiveFails(s) \/ KillReceiver(s)
               \/ ChannelFails(s)
        <3>1. UNCHANGED <<callVars, phase>>
            BY <2>6 DEF Dispatch, DeliverBlocked, ReceiveFails, KillReceiver, ChannelFails,
                closeVars
        <3> QED BY <1>0, <3>1 DEF callVars
    <2> QED BY <1>3, <2>1, <2>2, <2>3, <2>4, <2>5, <2>6 DEF PeerStep
<1>4. CASE UNCHANGED vars
    BY <1>0, <1>4 DEF vars, callVars, closeVars
<1> QED BY <1>1, <1>2, <1>3, <1>4 DEF Next

\* Whoever waits can still be signalled: the peer whose end wakes the waiters has not woken
\* them yet, and his waiter is among them (peer.py:142-152, 239-249, 302-308).
THEOREM WaitingStaysReachable == Spec => []WaitingIsReachable
<1>1. Init => WaitingIsReachable
    BY DEF Init, WaitingIsReachable
<1>2. TypeOK /\ RepliesExist /\ WaitingIsReachable /\ [Next]_vars => WaitingIsReachable'
    BY WaitingStep
<1> QED BY <1>1, <1>2, TypesHold, PTL DEF Spec

-----------------------------------------------------------------------------
(* Handlers and requests *)

\* The request of the call was handed to the channel, or never will be.
Requested(c) == pc[c] \notin {"idle", "header", "sending"}

\* A handler exists only for a request that was sent, has a reply once it sends one, and
\* waits in at most one call, while its method runs.
HandlersFollow ==
    \A c \in Calls :
        /\ hpc[c] # "none" => Requested(c)
        /\ reply[c] # "none" => hpc[c] \in {"sending", "sent", "gone"}
        /\ hpc[c] \in {"sending", "sent"} => reply[c] # "none"
        /\ hpc[c] # "running" => Inner(c) = {}
        /\ \A d, e \in Inner(c) : d = e

\* A request travels at most once, and never after it was dispatched.
RequestsOnce ==
    /\ \A s \in Sides : \A c \in Calls :
         InWire(s, Request(c)) => hpc[c] = "none" /\ Requested(c)
    /\ \A s, t \in Sides : \A c \in Calls :
         \A i \in 1..Len(wire[s]) : \A j \in 1..Len(wire[t]) :
            wire[s][i] = Request(c) /\ wire[t][j] = Request(c) => s = t /\ i = j

\* What a step does to a caller: only Enter makes a call active, and no request is made again.
LEMMA CallerMoves ==
    ASSUME TypeOK, RepliesExist, [Next]_vars, NEW c \in Calls
    PROVE  /\ Requested(c) => Requested(c)'
           /\ pc'[c] \in CallerActive => pc[c] \in CallerActive \/ Enter(c)
<1> DEFINE Goal == /\ Requested(c) => Requested(c)'
                   /\ pc'[c] \in CallerActive => pc[c] \in CallerActive \/ Enter(c)
<1>1. ASSUME NEW d \in Calls, CallStep(d) PROVE Goal
    <2>1. CASE c # d
        <3>1. pc'[c] = pc[c]
            BY <1>1, <2>1 DEF CallStep, Enter, HeaderMade, CannotSend, RequestWritten, Register,
                GetResponse, Close, CloseReturns, Interrupt, Die, TypeOK
        <3> QED BY <3>1 DEF Requested
    <2>2. CASE c = d
        <3>1. CASE GetResponse(c)
            <4>1. /\ pc[c] = "waiting" /\ event[c] # NoReply
                  /\ \/ pc' = [pc EXCEPT ![c] = "closing"]
                     \/ event[c] # Disconnected /\ pc' = [pc EXCEPT ![c] = reply[event[c]]]
                BY <3>1 DEF GetResponse
            <4>2. event[c] # Disconnected => reply[event[c]] \in {"value", "exception"}
                BY <4>1 DEF TypeOK, RepliesExist
            <4>3. pc'[c] \in {"closing", "value", "exception"}
                BY <4>1, <4>2 DEF TypeOK
            <4> QED BY <4>1, <4>3 DEF Requested, CallerActive
        <3>2. CASE Enter(c)
            BY <3>2 DEF Enter, Requested
        <3>3. CASE Close(c)
            <4>1. pc[c] = "closing" /\ pc'[c] \in {"closing", "disconnected"}
                BY <3>3, Zenon DEF Close, TypeOK
            <4> QED BY <4>1 DEF Requested, CallerActive
        <3>4. CASE Register(c)
            <4>1. pc[c] = "sent" /\ \E to \in {"waiting", "closing"} : pc' = [pc EXCEPT ![c] = to]
                BY <3>4, Zenon DEF Register
            <4> QED BY <4>1 DEF TypeOK, Requested, CallerActive
        <3>5. CASE HeaderMade(c)
            <4>1. pc[c] = "header" /\ \E to \in {"sending", "closing"} : pc' = [pc EXCEPT ![c] = to]
                BY <3>5, Zenon DEF HeaderMade
            <4> QED BY <4>1 DEF TypeOK, Requested, CallerActive
        <3>6. CASE CannotSend(c) \/ RequestWritten(c) \/ CloseReturns(c) \/ Interrupt(c) \/ Die(c)
            BY <3>6 DEF CannotSend, RequestWritten, CloseReturns, Interrupt, Die, TypeOK,
                Requested, CallerActive
        <3> QED BY <1>1, <2>2, <3>1, <3>2, <3>3, <3>4, <3>5, <3>6 DEF CallStep
    <2> QED BY <2>1, <2>2
<1>2. ASSUME NEW d \in Calls, HandlerStep(d) PROVE Goal
    <2>1. CASE KillHandler(d)
        <3>1. \/ pc'[c] = pc[c]
              \/ pc[c] \in CallerActive /\ pc'[c] \in {"dying", "killed"}
            BY <2>1 DEF KillHandler, Inner
        <3> QED BY <3>1 DEF Requested
    <2>2. CASE ~KillHandler(d)
        <3>1. pc' = pc
            BY <1>2, <2>2 DEF HandlerStep, Reject, Accept, Answer, AnswerException,
                HandlerBroken, Defer, DeferredFires, DeferredFails, CannotAnswer,
                ResponseWritten, ResponseFails, MethodCloses, callVars
        <3> QED BY <3>1 DEF Requested
    <2> QED BY <2>1, <2>2
<1>3. ASSUME NEW s \in Sides, PeerStep(s) PROVE Goal
    <2>1. pc' = pc
        BY <1>3 DEF PeerStep, Dispatch, Deliver, DeliverBlocked, ReceiveFails, Clean,
            UserShutdown, KillReceiver, FinishShutdown, Remove, ChannelFails, callVars
    <2> QED BY <2>1 DEF Requested
<1>4. CASE UNCHANGED vars
    BY <1>4 DEF vars, callVars, Requested
<1> QED BY <1>1, <1>2, <1>3, <1>4 DEF Next

\* The calls that a method waits in: a step may add one, when there is none and the method
\* runs, and nothing else.
LEMMA InnerMoves ==
    ASSUME TypeOK, RepliesExist, HandlersFollow, [Next]_vars, NEW c \in Calls
    PROVE  \/ Inner(c)' \subseteq Inner(c)
           \/ \E d \in Calls : /\ Enter(d) /\ Inside[d] = c /\ hpc[c] = "running"
                               /\ Inner(c) = {} /\ Inner(c)' \subseteq {d}
<1>1. CASE \E d \in Calls : Enter(d) /\ Inside[d] = c
    <2>1. PICK d \in Calls : Enter(d) /\ Inside[d] = c
        BY <1>1
    <2>2. hpc[c] = "running" /\ Inner(c) = {}
        BY <2>1, CallsAssumption DEF Enter, MayCall
    <2>3. \A e \in Calls : e # d => pc'[e] = pc[e]
        BY <2>1 DEF Enter, TypeOK
    <2>4. Inner(c)' \subseteq {d}
        BY <2>2, <2>3 DEF Inner
    <2> QED BY <2>1, <2>2, <2>4
<1>2. CASE ~\E d \in Calls : Enter(d) /\ Inside[d] = c
    BY <1>2, CallerMoves DEF Inner
<1> QED BY <1>1, <1>2

\* The steps of handlers that leave every caller where it is.
QuietStep(c) ==
    \/ Reject(c) \/ Accept(c) \/ Answer(c) \/ AnswerException(c) \/ HandlerBroken(c)
    \/ Defer(c) \/ DeferredFires(c) \/ DeferredFails(c)
    \/ CannotAnswer(c) \/ ResponseWritten(c) \/ ResponseFails(c) \/ MethodCloses(c)

LEMMA QuietMoves ==
    ASSUME TypeOK, HandlersFollow, NEW c \in Calls, QuietStep(c)
    PROVE  /\ pc' = pc /\ Inner(c)' = Inner(c)
           /\ \/ \E to \in {"running", "refused", "gone"} :
                   hpc[c] = "spawned" /\ hpc' = [hpc EXCEPT ![c] = to] /\ reply' = reply
              \/ \E to \in {"refused", "gone", "closing", "deferred", "stranded"} :
                   /\ hpc[c] \in {"running", "deferred"} /\ Inner(c) = {}
                   /\ hpc' = [hpc EXCEPT ![c] = to] /\ reply' = reply
              \/ \E kind \in {"value", "exception"} :
                   /\ hpc[c] \in {"running", "deferred"} /\ Inner(c) = {}
                   /\ hpc' = [hpc EXCEPT ![c] = "sending"] /\ reply' = [reply EXCEPT ![c] = kind]
              \/ \E to \in {"sent", "gone"} :
                   hpc[c] = "sending" /\ hpc' = [hpc EXCEPT ![c] = to] /\ reply' = reply
<1>1. pc' = pc
    BY DEF QuietStep, Reject, Accept, Answer, AnswerException, HandlerBroken, Defer,
        DeferredFires, DeferredFails, CannotAnswer, ResponseWritten, ResponseFails,
        MethodCloses, callVars
<1>2. Inner(c)' = Inner(c)
    BY <1>1 DEF Inner
<1>3. hpc[c] # "running" => Inner(c) = {}
    BY DEF HandlersFollow
<1>4. CASE Reject(c) \/ Accept(c)
    BY <1>1, <1>2, <1>4, Zenon DEF Reject, Accept
<1>5. CASE HandlerBroken(c) \/ CannotAnswer(c)
    BY <1>1, <1>2, <1>5, Zenon DEF HandlerBroken, CannotAnswer, MethodEnds
<1>6. CASE Defer(c)
    <2>1. PICK fired \in BOOLEAN :
            hpc' = [hpc EXCEPT ![c] = IF fired THEN "stranded" ELSE "deferred"]
        BY <1>6 DEF Defer
    <2>2. \E to \in {"deferred", "stranded"} : hpc' = [hpc EXCEPT ![c] = to]
        BY <2>1
    <2>3. hpc[c] = "running" /\ Inner(c) = {} /\ reply' = reply
        BY <1>6 DEF Defer, MethodEnds
    <2> QED BY <1>1, <1>2, <2>2, <2>3
<1>7. CASE DeferredFails(c)
    BY <1>1, <1>2, <1>3, <1>7 DEF DeferredFails
<1>8. CASE Answer(c) \/ AnswerException(c)
    BY <1>1, <1>2, <1>8 DEF Answer, AnswerException, MethodEnds
<1>9. CASE DeferredFires(c)
    BY <1>1, <1>2, <1>3, <1>9 DEF DeferredFires
<1>10. CASE ResponseWritten(c) \/ ResponseFails(c)
    BY <1>1, <1>2, <1>10 DEF ResponseWritten, ResponseFails
<1>11. CASE MethodCloses(c)
    BY <1>1, <1>2, <1>11 DEF MethodCloses
<1> QED BY <1>4, <1>5, <1>6, <1>7, <1>8, <1>9, <1>10, <1>11 DEF QuietStep

LEMMA QuietOthers ==
    ASSUME TypeOK, HandlersFollow, NEW c \in Calls, QuietStep(c)
    PROVE  /\ hpc[c] # "none"
           /\ \A d \in Calls : d # c => hpc'[d] = hpc[d] /\ reply'[d] = reply[d]
<1>1. hpc[c] # "none"
    BY QuietMoves
<1>2. \E to : hpc' = [hpc EXCEPT ![c] = to]
    BY QuietMoves
<1>3. reply' = reply \/ \E kind : reply' = [reply EXCEPT ![c] = kind]
    BY QuietMoves
<1> QED BY <1>1, <1>2, <1>3 DEF TypeOK

\* A killed caller ends its method with it.
LEMMA DieMoves ==
    ASSUME TypeOK, HandlersFollow, NEW d \in Calls, Die(d), Inside[d] # NoCall
    PROVE  LET p == Inside[d] IN
           /\ p \in Calls /\ hpc[p] = "running" /\ reply[p] = "none" /\ reply' = reply
           /\ hpc' = [hpc EXCEPT ![p] = "gone"]
           /\ Inner(p) = {d} /\ Inner(p)' = {}
           /\ pc' = [pc EXCEPT ![d] = "killed"]
<1> DEFINE p == Inside[d]
<1>1. p \in Calls /\ d \in Inner(p)
    BY CallsAssumption DEF Die, Inner, CallerActive
<1>2. hpc[p] = "running" /\ reply[p] = "none" /\ Inner(p) = {d}
    BY <1>1 DEF HandlersFollow
<1>3. /\ hpc' = [hpc EXCEPT ![p] = "gone"] /\ reply' = reply
      /\ pc' = [pc EXCEPT ![d] = "killed"]
    BY DEF Die
<1>4. Inner(p)' = {}
    BY <1>2, <1>3 DEF Inner, CallerActive, TypeOK
<1> QED BY <1>1, <1>2, <1>3, <1>4

\* What KillHandler does to its handler: the call that it waits in goes for the lock, or
\* both end.
LEMMA KillMoves ==
    ASSUME TypeOK, HandlersFollow, NEW c \in Calls, KillHandler(c)
    PROVE  /\ hpc[c] \in HandlerActive /\ reply' = reply
           /\ \/ /\ hpc' = hpc
                 /\ pc' = [d \in Calls |-> IF d \in Inner(c) THEN "dying" ELSE pc[d]]
              \/ /\ hpc' = [hpc EXCEPT ![c] = "gone"] /\ Inner(c)' = {}
                 /\ pc' = [d \in Calls |-> IF d \in Inner(c) THEN "killed" ELSE pc[d]]
<1>1. hpc[c] \in HandlerActive /\ reply' = reply
    BY DEF KillHandler
<1>2. CASE \E d \in Inner(c) : pc[d] = "waiting"
    BY <1>1, <1>2 DEF KillHandler
<1>3. CASE ~\E d \in Inner(c) : pc[d] = "waiting"
    <2>1. /\ pc' = [d \in Calls |-> IF d \in Inner(c) THEN "killed" ELSE pc[d]]
          /\ hpc' = [hpc EXCEPT ![c] = "gone"]
        BY <1>3 DEF KillHandler
    <2>2. Inner(c)' = {}
        BY <2>1 DEF Inner, CallerActive
    <2> QED BY <1>1, <2>1, <2>2
<1> QED BY <1>2, <1>3

LEMMA HandlersFollowStep ==
    ASSUME TypeOK, RepliesExist, HandlersFollow, RequestsOnce, [Next]_vars
    PROVE  HandlersFollow'
<1> SUFFICES ASSUME NEW c \in Calls
             PROVE  /\ hpc'[c] # "none" => Requested(c)'
                    /\ reply'[c] # "none" => hpc'[c] \in {"sending", "sent", "gone"}
                    /\ hpc'[c] \in {"sending", "sent"} => reply'[c] # "none"
                    /\ hpc'[c] # "running" => Inner(c)' = {}
                    /\ \A d, e \in Inner(c)' : d = e
    BY DEF HandlersFollow
<1> DEFINE Goal == /\ hpc'[c] # "none" => Requested(c)'
                   /\ reply'[c] # "none" => hpc'[c] \in {"sending", "sent", "gone"}
                   /\ hpc'[c] \in {"sending", "sent"} => reply'[c] # "none"
                   /\ hpc'[c] # "running" => Inner(c)' = {}
           Here == /\ hpc[c] # "none" => Requested(c)
                   /\ reply[c] # "none" => hpc[c] \in {"sending", "sent", "gone"}
                   /\ hpc[c] \in {"sending", "sent"} => reply[c] # "none"
                   /\ hpc[c] # "running" => Inner(c) = {}
<1>0. Here /\ (Requested(c) => Requested(c)')
    BY CallerMoves DEF HandlersFollow
<1>1. \A d, e \in Inner(c)' : d = e
    <2>1. CASE Inner(c)' \subseteq Inner(c)
        BY <2>1 DEF HandlersFollow
    <2> QED BY <2>1, InnerMoves
<1>2. ASSUME hpc'[c] = hpc[c], reply'[c] = reply[c] PROVE Goal
    BY <1>0, <1>2, InnerMoves
<1>3. ASSUME NEW d \in Calls, CallStep(d) PROVE Goal
    <2>1. CASE Die(d) /\ Inside[d] = c
        <3>1. /\ hpc[c] = "running" /\ hpc' = [hpc EXCEPT ![c] = "gone"] /\ reply' = reply
              /\ Inner(c)' = {}
            BY <2>1, DieMoves, CallsAssumption
        <3> QED BY <1>0, <3>1 DEF TypeOK
    <2>2. CASE Die(d) /\ Inside[d] # c
        BY <1>2, <2>2 DEF Die, TypeOK
    <2>3. CASE ~Die(d)
        BY <1>2, <1>3, <2>3 DEF CallStep, Enter, HeaderMade, CannotSend, RequestWritten, Register,
            GetResponse, Close, CloseReturns, Interrupt, handlerVars
    <2> QED BY <2>1, <2>2, <2>3
<1>4. ASSUME NEW d \in Calls, HandlerStep(d) PROVE Goal
    <2>1. CASE QuietStep(d) /\ c = d
        <3>1. /\ hpc[c] # "none" /\ Inner(c)' = Inner(c)
              /\ \/ /\ hpc[c] = "spawned" /\ hpc'[c] = "running" /\ reply'[c] = reply[c]
                 \/ /\ hpc[c] \in {"spawned", "running", "deferred"}
                    /\ hpc'[c] \in {"refused", "gone", "closing", "deferred", "stranded"}
                    /\ Inner(c) = {} /\ reply'[c] = reply[c]
                 \/ /\ hpc[c] \in {"running", "deferred"} /\ Inner(c) = {}
                    /\ hpc'[c] = "sending" /\ reply'[c] # "none"
                 \/ /\ hpc[c] = "sending" /\ hpc'[c] \in {"sent", "gone"}
                    /\ reply'[c] = reply[c]
            <4>1. DOMAIN hpc = Calls /\ DOMAIN reply = Calls
                BY DEF TypeOK
            <4> QED BY <1>0, <2>1, <4>1, QuietMoves
        <3> QED BY <1>0, <3>1
    <2>2. CASE QuietStep(d) /\ c # d
        <3>1. hpc'[c] = hpc[c] /\ reply'[c] = reply[c]
            BY <2>2, QuietOthers
        <3> QED BY <1>2, <3>1
    <2>3. CASE KillHandler(d) /\ c = d
        <3>1. \/ hpc'[c] = hpc[c] /\ reply'[c] = reply[c]
              \/ /\ hpc[c] # "none" /\ hpc'[c] = "gone" /\ reply'[c] = reply[c]
                 /\ Inner(c)' = {}
            BY <2>3, KillMoves DEF TypeOK, HandlerActive
        <3> QED BY <1>0, <1>2, <3>1
    <2>4. CASE KillHandler(d) /\ c # d
        <3>1. hpc'[c] = hpc[c] /\ reply'[c] = reply[c]
            BY <2>4, KillMoves DEF TypeOK
        <3> QED BY <1>2, <3>1
    <2> QED BY <1>4, <2>1, <2>2, <2>3, <2>4 DEF HandlerStep, QuietStep
<1>5. ASSUME NEW s \in Sides, PeerStep(s) PROVE Goal
    <2>1. CASE Dispatch(s)
        <3>1. LET d == Head(wire[s]).call IN
              /\ d \in Calls /\ hpc[d] = "none" /\ Requested(d)
              /\ hpc' = [hpc EXCEPT ![d] = "spawned"] /\ reply' = reply /\ pc' = pc
            BY <2>1, ReadType DEF Dispatch, Arrives, RequestsOnce, callVars
        <3>2. CASE Head(wire[s]).call = c
            BY <1>0, <3>1, <3>2 DEF TypeOK, Inner
        <3>3. CASE Head(wire[s]).call # c
            BY <1>2, <3>1, <3>3 DEF TypeOK
        <3> QED BY <3>2, <3>3
    <2>2. CASE ~Dispatch(s)
        BY <1>2, <1>5, <2>2 DEF PeerStep, Deliver, DeliverBlocked, ReceiveFails, Clean,
            UserShutdown, KillReceiver, FinishShutdown, Remove, ChannelFails, handlerVars
    <2> QED BY <2>1, <2>2
<1>6. ASSUME UNCHANGED vars PROVE Goal
    BY <1>2, <1>6 DEF vars, handlerVars
<1>7. Goal
    BY <1>3, <1>4, <1>5, <1>6 DEF Next
<1> QED BY <1>1, <1>7

\* A request is written once: it did not travel, and its call had no handler.
LEMMA RequestsOnceStep ==
    ASSUME TypeOK, RepliesExist, HandlersFollow, RequestsOnce, [Next]_vars
    PROVE  RequestsOnce'
<1> USE SideTypes, PacketTypes, PacketsDiffer
<1>1. ASSUME NEW c \in Calls, RequestWritten(c)
      PROVE  hpc[c] = "none" /\ Requested(c)' /\ \A t \in Sides : ~InWire(t, Request(c))
    BY <1>1 DEF RequestWritten, HandlersFollow, RequestsOnce, Requested, TypeOK
<1>2. ASSUME NEW s \in Sides, NEW t \in Sides, NEW c \in Calls,
             NEW i \in 1..Len(wire'[s]), NEW j \in 1..Len(wire'[t]),
             wire'[s][i] = Request(c), wire'[t][j] = Request(c)
      PROVE  s = t /\ i = j
    <2>1. CASE wire' = wire
        BY <1>2, <2>1 DEF RequestsOnce
    <2>2. ASSUME NEW r \in Sides, wire[r] # <<>>, wire' = WireRead(r)
          PROVE  s = t /\ i = j
        <3> DEFINE at(x, k) == IF x = r THEN k + 1 ELSE k
        <3>1. /\ at(s, i) \in 1..Len(wire[s]) /\ wire[s][at(s, i)] = Request(c)
              /\ at(t, j) \in 1..Len(wire[t]) /\ wire[t][at(t, j)] = Request(c)
            BY <1>2, <2>2, ReadPlaces
        <3>2. s = t /\ at(s, i) = at(t, j)
            BY <3>1 DEF RequestsOnce
        <3> QED BY <3>2
    <2>3. ASSUME NEW r \in Sides, NEW p \in Packets, wire' = WireWith(r, p),
                 p = Request(c) => \A u \in Sides : ~InWire(u, p)
          PROVE  s = t /\ i = j
        <3>1. \/ i \in 1..Len(wire[s]) /\ wire[s][i] = Request(c)
              \/ s = Other(r) /\ i = Len(wire[s]) + 1 /\ Request(c) = p
            BY <1>2, <2>3, SendPlaces
        <3>2. \/ j \in 1..Len(wire[t]) /\ wire[t][j] = Request(c)
              \/ t = Other(r) /\ j = Len(wire[t]) + 1 /\ Request(c) = p
            BY <1>2, <2>3, SendPlaces
        <3>3. CASE Request(c) = p
            BY <2>3, <3>1, <3>2, <3>3 DEF InWire
        <3>4. CASE Request(c) # p
            BY <3>1, <3>2, <3>4 DEF RequestsOnce
        <3> QED BY <3>3, <3>4
    <2> QED BY <1>1, <2>1, <2>2, <2>3, WireSteps
<1>3. ASSUME NEW s \in Sides, NEW c \in Calls, InWire(s, Request(c))'
      PROVE  hpc'[c] = "none" /\ Requested(c)'
    <2>1. InWire(s, Request(c)) \/ RequestWritten(c)
        <3>1. CASE wire' = wire
            BY <1>3, <3>1 DEF InWire
        <3>2. ASSUME NEW t \in Sides, wire[t] # <<>>, wire' = WireRead(t)
              PROVE  InWire(s, Request(c))
            BY <1>3, <3>2, ReadContents
        <3>3. ASSUME NEW d \in Calls, RequestWritten(d), wire' = WireWith(Caller[d], Request(d))
              PROVE  InWire(s, Request(c)) \/ RequestWritten(c)
            BY <1>3, <3>3, SendContents
        <3>4. ASSUME NEW d \in Calls, wire' = WireWith(Callee(d), Response(d))
              PROVE  InWire(s, Request(c))
            BY <1>3, <3>4, SendContents
        <3> QED BY <3>1, <3>2, <3>3, <3>4, WireSteps
    <2>2. hpc[c] = "none" /\ Requested(c)'
        BY <1>1, <2>1, CallerMoves DEF RequestsOnce
    <2>3. ASSUME NEW d \in Calls, CallStep(d) PROVE hpc'[c] = "none"
        <3>1. CASE Die(d) /\ Inside[d] # NoCall
            BY <2>2, <3>1, DieMoves DEF TypeOK
        <3>2. CASE ~(Die(d) /\ Inside[d] # NoCall)
            BY <2>2, <2>3, <3>2 DEF CallStep, Enter, HeaderMade, CannotSend, RequestWritten,
                Register, GetResponse, Close, CloseReturns, Interrupt, Die, handlerVars
        <3> QED BY <3>1, <3>2
    <2>4. ASSUME NEW d \in Calls, HandlerStep(d) PROVE hpc'[c] = "none"
        <3>1. CASE QuietStep(d)
            <4>1. c # d
                BY <2>2, <3>1, QuietOthers
            <4> QED BY <2>2, <3>1, <4>1, QuietOthers
        <3>2. CASE KillHandler(d)
            <4>1. hpc[d] # "none" /\ (hpc' = hpc \/ hpc' = [hpc EXCEPT ![d] = "gone"])
                BY <3>2, KillMoves DEF HandlerActive
            <4> QED BY <2>2, <4>1 DEF TypeOK
        <3> QED BY <2>4, <3>1, <3>2 DEF HandlerStep, QuietStep
    <2>5. ASSUME NEW t \in Sides, PeerStep(t) PROVE hpc'[c] = "none"
        <3>1. CASE Dispatch(t)
            <4>1. /\ wire[t] # <<>> /\ wire' = WireRead(t) /\ Head(wire[t]).call \in Calls
                  /\ hpc' = [hpc EXCEPT ![Head(wire[t]).call] = "spawned"]
                  /\ Head(wire[t]) = Request(Head(wire[t]).call)
                BY <3>1, ReadType, Zenon DEF Dispatch, Arrives
            <4>2. CASE Head(wire[t]).call = c
                <5>1. wire[t] \in Seq(Packets) /\ Head(wire[t]) = Request(c)
                    BY <4>1, <4>2, WireType
                <5>2. 1 \in 1..Len(wire[t]) /\ wire[t][1] = Request(c)
                    BY <4>1, <5>1
                <5>3. PICK i \in 1..Len(wire'[s]) : wire'[s][i] = Request(c)
                    BY <1>3 DEF InWire
                <5>4. PICK j \in 1..Len(wire[s]) :
                        wire[s][j] = Request(c) /\ (s = t => j = i + 1)
                    BY <4>1, <5>3, ReadPlaces
                <5>5. s = t /\ j = 1
                    BY <5>2, <5>4 DEF RequestsOnce
                <5> QED BY <5>3, <5>4, <5>5
            <4>3. CASE Head(wire[t]).call # c
                BY <2>2, <4>1, <4>3 DEF TypeOK
            <4> QED BY <4>2, <4>3
        <3>2. CASE ~Dispatch(t)
            BY <2>2, <2>5, <3>2 DEF PeerStep, Deliver, DeliverBlocked, ReceiveFails, Clean,
                UserShutdown, KillReceiver, FinishShutdown, Remove, ChannelFails, handlerVars
        <3> QED BY <3>1, <3>2
    <2>6. CASE UNCHANGED vars
        BY <2>2, <2>6 DEF vars, handlerVars
    <2> QED BY <2>2, <2>3, <2>4, <2>5, <2>6 DEF Next
<1> QED BY <1>2, <1>3 DEF RequestsOnce

\* The inductive invariant behind the refinement.
CallInv == TypeOK /\ RepliesExist /\ HandlersFollow /\ RequestsOnce

LEMMA CallInvHolds == Spec => []CallInv
<1>1. Init => CallInv
    <2>1. Init => TypeOK /\ RepliesExist
        BY CallsAssumption DEF Init, TypeOK, RepliesExist, InWire
    <2>2. Init => HandlersFollow /\ RequestsOnce
        BY DEF Init, InWire, HandlersFollow, RequestsOnce, Inner, CallerActive
    <2> QED BY <2>1, <2>2 DEF CallInv
<1>2. CallInv /\ [Next]_vars => CallInv'
    BY TypeStep, RepliesStep, HandlersFollowStep, RequestsOnceStep DEF CallInv
<1> QED BY <1>1, <1>2, PTL DEF Spec

-----------------------------------------------------------------------------
(* The Python peers implement RpcCall *)

\* A step that changes no view is a stutter of RpcCall.
LEMMA NoViewStep ==
    ASSUME \A d \in Calls : /\ ClientOf(pc'[d]) = ClientOf(pc[d])
                            /\ ServerOf(reply'[d], hpc'[d]) = ServerOf(reply[d], hpc[d])
    PROVE  UNCHANGED <<ClientView, ServerView>>
    BY DEF ClientView, ServerView

\* A step that moves the client of one call, and no server.
LEMMA ClientViewStep ==
    ASSUME NEW c \in Calls, NEW to, pc' = [pc EXCEPT ![c] = to], TypeOK,
           UNCHANGED <<hpc, reply>>
    PROVE  /\ ClientView' = [ClientView EXCEPT ![c] = ClientOf(to)]
           /\ UNCHANGED ServerView
    BY DEF ClientView, ServerView, TypeOK

\* A step that moves the handler of one call, and no client.
LEMMA ServerViewStep ==
    ASSUME NEW c \in Calls, NEW to, NEW answer, TypeOK, UNCHANGED pc,
           hpc' = [hpc EXCEPT ![c] = to], reply' = [reply EXCEPT ![c] = answer]
    PROVE  /\ ServerView' = [ServerView EXCEPT ![c] = ServerOf(answer, to)]
           /\ UNCHANGED ClientView
    BY DEF ClientView, ServerView, TypeOK

\* A caller that fails.
LEMMA Failing ==
    ASSUME TypeOK, NEW c \in Calls, NEW to \in {"disconnected", "internal", "killed"},
           pc' = [pc EXCEPT ![c] = to], pc[c] \in {"idle"} \cup CallerActive,
           UNCHANGED <<hpc, reply>>
    PROVE  Abstract!RpcNext
<1>1. /\ ClientView' = [ClientView EXCEPT ![c] = "failed"]
      /\ UNCHANGED ServerView
    BY ClientViewStep DEF ClientOf, CallerActive
<1>2. ClientView[c] \in {"idle", "pending"}
    BY DEF ClientView, ClientOf
<1>3. Abstract!Fail(c)
    BY <1>1, <1>2 DEF Abstract!Fail
<1> QED BY <1>3 DEF Abstract!RpcNext

\* A blocked caller that stays blocked.
LEMMA Blocked ==
    ASSUME TypeOK, NEW c \in Calls, NEW to \in CallerActive, pc[c] \in CallerActive,
           pc' = [pc EXCEPT ![c] = to], UNCHANGED <<hpc, reply>>
    PROVE  UNCHANGED <<ClientView, ServerView>>
    BY NoViewStep DEF TypeOK, ClientOf, CallerActive

\* A call with a handler was invoked.
LEMMA Invoked ==
    ASSUME CallInv, NEW c \in Calls, hpc[c] # "none"
    PROVE  ClientView[c] # "idle"
<1>1. pc[c] # "idle"
    BY DEF CallInv, HandlersFollow, Requested
<1> QED BY <1>1 DEF ClientView, ClientOf

\* An invocation that is lost, with the calls that it was in.
LEMMA Losing ==
    ASSUME CallInv, NEW p \in Calls, hpc[p] # "none", reply[p] = "none",
           hpc[p] \notin {"refused", "gone"},
           NEW to \in {"refused", "gone"}, hpc' = [hpc EXCEPT ![p] = to], UNCHANGED reply,
           NEW lost \in SUBSET Calls, \A d \in lost : pc[d] \in CallerActive,
           pc' = [d \in Calls |-> IF d \in lost THEN "killed" ELSE pc[d]]
    PROVE  Abstract!RpcNext
<1>1. ServerView' = [ServerView EXCEPT ![p] = "lost"]
    BY DEF CallInv, ServerView, ServerOf, TypeOK
<1>2. ServerView[p] \in {"none", "running"} /\ ClientView[p] # "idle"
    BY Invoked DEF ServerView, ServerOf
<1>3. lost \in SUBSET {d \in Calls : ClientView[d] = "pending"}
    BY DEF ClientView, ClientOf, CallerActive
<1>4. ClientView' = [d \in Calls |-> IF d \in lost THEN "failed" ELSE ClientView[d]]
    BY DEF ClientView, ClientOf, CallerActive
<1>5. Abstract!Lose(p)
    BY <1>1, <1>2, <1>3, <1>4 DEF Abstract!Lose
<1> QED BY <1>5 DEF Abstract!RpcNext

LEMMA CallRefines ==
    ASSUME CallInv, NEW c \in Calls, CallStep(c)
    PROVE  Abstract!RpcNext \/ UNCHANGED <<ClientView, ServerView>>
<1> USE DEF CallInv
<1>1. CASE Enter(c)
    <2>1. /\ pc[c] = "idle" /\ UNCHANGED <<hpc, reply>>
          /\ \/ pc' = [pc EXCEPT ![c] = "header"]
             \/ pc' = [pc EXCEPT ![c] = "disconnected"]
        BY <1>1, Zenon DEF Enter, handlerVars
    <2>2. CASE pc' = [pc EXCEPT ![c] = "header"]
        <3>1. ClientView' = [ClientView EXCEPT ![c] = "pending"] /\ UNCHANGED ServerView
            BY <2>1, <2>2, ClientViewStep DEF ClientOf, CallerActive
        <3>2. ClientView[c] = "idle"
            BY <2>1 DEF ClientView, ClientOf
        <3> QED BY <3>1, <3>2 DEF Abstract!RpcNext, Abstract!Invoke
    <2>3. CASE pc' = [pc EXCEPT ![c] = "disconnected"]
        BY <2>1, <2>3, Failing
    <2> QED BY <2>1, <2>2, <2>3
<1>2. CASE HeaderMade(c) \/ RequestWritten(c) \/ Register(c)
    <2>1. /\ pc[c] \in CallerActive /\ UNCHANGED <<hpc, reply>>
          /\ \E to \in {"sending", "sent", "waiting", "closing"} : pc' = [pc EXCEPT ![c] = to]
        BY <1>2, Zenon DEF HeaderMade, RequestWritten, Register, CallerActive, handlerVars
    <2> QED BY <2>1, Blocked DEF CallerActive
<1>3. CASE CannotSend(c) \/ CloseReturns(c)
    <2>1. /\ pc[c] \in CallerActive /\ UNCHANGED <<hpc, reply>>
          /\ \E to \in {"disconnected", "internal"} : pc' = [pc EXCEPT ![c] = to]
        BY <1>3 DEF CannotSend, CloseReturns, CallerActive, handlerVars
    <2> QED BY <2>1, Failing
<1>4. CASE GetResponse(c)
    <2>1. /\ pc[c] = "waiting" /\ UNCHANGED <<hpc, reply>>
          /\ \/ pc' = [pc EXCEPT ![c] = "closing"]
             \/ /\ event[c] \notin {NoReply, Disconnected}
                /\ pc' = [pc EXCEPT ![c] = reply[event[c]]]
        BY <1>4 DEF GetResponse, handlerVars
    <2>2. CASE pc' = [pc EXCEPT ![c] = "closing"]
        BY <2>1, <2>2, Blocked DEF CallerActive
    <2>3. CASE event[c] \notin {NoReply, Disconnected} /\ pc' = [pc EXCEPT ![c] = reply[event[c]]]
        <3>1. event[c] = c /\ reply[c] \in {"value", "exception"}
            BY <2>3 DEF RepliesExist, TypeOK
        <3>2. ClientView[c] = "pending" /\ ServerView[c] = reply[c]
            BY <2>1, <3>1 DEF ClientView, ServerView, ClientOf, ServerOf, CallerActive
        <3>3. /\ ClientView' = [ClientView EXCEPT ![c] = ClientOf(reply[c])]
              /\ UNCHANGED ServerView
            BY <2>1, <2>3, <3>1, ClientViewStep
        <3>4. \/ reply[c] = "value" /\ ClientOf(reply[c]) = "returned"
              \/ reply[c] = "exception" /\ ClientOf(reply[c]) = "raised"
            BY <3>1 DEF ClientOf, CallerActive
        <3>5. Abstract!Complete(c)
            BY <3>2, <3>3, <3>4 DEF Abstract!Complete
        <3> QED BY <3>5 DEF Abstract!RpcNext
    <2> QED BY <2>1, <2>2, <2>3
<1>5. CASE Close(c)
    <2>1. /\ pc[c] = "closing" /\ UNCHANGED <<hpc, reply>>
          /\ pc' = pc \/ pc' = [pc EXCEPT ![c] = "disconnected"]
        BY <1>5, Zenon DEF Close, handlerVars
    <2>2. CASE pc' = pc
        BY <2>1, <2>2, NoViewStep
    <2>3. CASE pc' = [pc EXCEPT ![c] = "disconnected"]
        BY <2>1, <2>3, Failing DEF CallerActive
    <2> QED BY <2>1, <2>2, <2>3
<1>6. CASE Interrupt(c)
    <2>1. /\ pc[c] \in CallerActive /\ UNCHANGED <<hpc, reply>>
          /\ pc' = [pc EXCEPT ![c] = "dying"] \/ pc' = [pc EXCEPT ![c] = "killed"]
        BY <1>6 DEF Interrupt, handlerVars
    <2>2. CASE pc' = [pc EXCEPT ![c] = "dying"]
        BY <2>1, <2>2, Blocked DEF CallerActive
    <2>3. CASE pc' = [pc EXCEPT ![c] = "killed"]
        BY <2>1, <2>3, Failing
    <2> QED BY <2>1, <2>2, <2>3
<1>7. CASE Die(c) /\ Inside[c] = NoCall
    <2>1. /\ pc[c] \in CallerActive /\ UNCHANGED <<hpc, reply>>
          /\ pc' = [pc EXCEPT ![c] = "killed"]
        BY <1>7 DEF Die, CallerActive
    <2> QED BY <2>1, Failing
<1>8. CASE Die(c) /\ Inside[c] # NoCall
    <2> DEFINE p == Inside[c]
               lost == {c}
    <2>1. /\ p \in Calls /\ hpc[p] = "running" /\ reply[p] = "none" /\ reply' = reply
          /\ hpc' = [hpc EXCEPT ![p] = "gone"]
          /\ pc' = [pc EXCEPT ![c] = "killed"] /\ pc[c] \in CallerActive
        BY <1>8, DieMoves DEF Die, CallerActive
    <2>2. /\ lost \in SUBSET Calls /\ \A d \in lost : pc[d] \in CallerActive
          /\ pc' = [d \in Calls |-> IF d \in lost THEN "killed" ELSE pc[d]]
        BY <2>1 DEF TypeOK
    <2> HIDE DEF p, lost
    <2> QED BY <2>1, <2>2, Losing
<1> QED BY <1>1, <1>2, <1>3, <1>4, <1>5, <1>6, <1>7, <1>8 DEF CallStep

LEMMA HandlerRefines ==
    ASSUME CallInv, NEW c \in Calls, HandlerStep(c)
    PROVE  Abstract!RpcNext \/ UNCHANGED <<ClientView, ServerView>>
<1> USE DEF CallInv
<1>0. /\ reply[c] # "none" => hpc[c] \in {"sending", "sent", "gone"} /\ Inner(c) = {}
      /\ hpc[c] = "sending" => reply[c] # "none"
    BY DEF HandlersFollow
<1>1. CASE QuietStep(c)
    <2>0. pc' = pc
        BY <1>1, QuietMoves
    <2>1. ASSUME NEW to \in {"refused", "gone"}, hpc[c] \in {"spawned", "running", "deferred"},
                 hpc' = [hpc EXCEPT ![c] = to], reply' = reply
          PROVE  Abstract!RpcNext
        <3> DEFINE lost == {}
        <3>1. /\ lost \in SUBSET Calls /\ \A d \in lost : pc[d] \in CallerActive
              /\ pc' = [d \in Calls |-> IF d \in lost THEN "killed" ELSE pc[d]]
            BY <2>0 DEF TypeOK
        <3> HIDE DEF lost
        <3> QED BY <1>0, <2>1, <3>1, Losing
    <2>2. ASSUME hpc[c] = "spawned", hpc' = [hpc EXCEPT ![c] = "running"], reply' = reply
          PROVE  Abstract!RpcNext
        <3>1. reply[c] = "none" /\ reply' = [reply EXCEPT ![c] = "none"]
            BY <1>0, <2>2 DEF TypeOK
        <3>2. ServerView' = [ServerView EXCEPT ![c] = "running"] /\ UNCHANGED ClientView
            BY <2>0, <2>2, <3>1, ServerViewStep DEF ServerOf
        <3>3. ServerView[c] = "none" /\ ClientView[c] # "idle"
            BY <2>2, <3>1, Invoked DEF ServerView, ServerOf
        <3> QED BY <3>2, <3>3 DEF Abstract!RpcNext, Abstract!Run
    <2>3. ASSUME NEW to \in {"closing", "deferred", "stranded"}, hpc[c] \in {"running", "deferred"},
                 hpc' = [hpc EXCEPT ![c] = to], reply' = reply
          PROVE  UNCHANGED <<ClientView, ServerView>>
        BY <2>0, <2>3, NoViewStep DEF ServerOf, TypeOK
    <2>4. ASSUME NEW kind \in {"value", "exception"}, hpc[c] \in {"running", "deferred"},
                 hpc' = [hpc EXCEPT ![c] = "sending"], reply' = [reply EXCEPT ![c] = kind]
          PROVE  Abstract!RpcNext
        <3>1. ServerView' = [ServerView EXCEPT ![c] = kind] /\ UNCHANGED ClientView
            BY <2>0, <2>4, ServerViewStep DEF ServerOf
        <3>2. ServerView[c] = "running"
            BY <1>0, <2>4 DEF ServerView, ServerOf
        <3>3. Abstract!Produce(c)
            BY <3>1, <3>2 DEF Abstract!Produce, Abstract!Replies
        <3> QED BY <3>3 DEF Abstract!RpcNext
    <2>5. ASSUME NEW to \in {"sent", "gone"}, hpc[c] = "sending",
                 hpc' = [hpc EXCEPT ![c] = to], reply' = reply
          PROVE  UNCHANGED <<ClientView, ServerView>>
        BY <1>0, <2>0, <2>5, NoViewStep DEF ServerOf, TypeOK
    <2>6. \/ \E to \in {"running", "refused", "gone"} :
               hpc[c] = "spawned" /\ hpc' = [hpc EXCEPT ![c] = to] /\ reply' = reply
          \/ \E to \in {"refused", "gone", "closing", "deferred", "stranded"} :
               /\ hpc[c] \in {"running", "deferred"}
               /\ hpc' = [hpc EXCEPT ![c] = to] /\ reply' = reply
          \/ \E kind \in {"value", "exception"} :
               /\ hpc[c] \in {"running", "deferred"}
               /\ hpc' = [hpc EXCEPT ![c] = "sending"] /\ reply' = [reply EXCEPT ![c] = kind]
          \/ \E to \in {"sent", "gone"} :
               hpc[c] = "sending" /\ hpc' = [hpc EXCEPT ![c] = to] /\ reply' = reply
        BY <1>1, QuietMoves
    <2> QED BY <2>1, <2>2, <2>3, <2>4, <2>5, <2>6
<1>2. CASE KillHandler(c)
    <2>1. /\ hpc[c] \in HandlerActive /\ UNCHANGED reply
          /\ \/ /\ hpc' = hpc
                /\ pc' = [d \in Calls |-> IF d \in Inner(c) THEN "dying" ELSE pc[d]]
             \/ /\ hpc' = [hpc EXCEPT ![c] = "gone"]
                /\ pc' = [d \in Calls |-> IF d \in Inner(c) THEN "killed" ELSE pc[d]]
        BY <1>2, KillMoves
    <2>2. Inner(c) \in SUBSET Calls /\ \A d \in Inner(c) : pc[d] \in CallerActive
        BY DEF Inner
    <2>3. CASE /\ hpc' = hpc
               /\ pc' = [d \in Calls |-> IF d \in Inner(c) THEN "dying" ELSE pc[d]]
        BY <2>1, <2>2, <2>3, NoViewStep DEF ClientOf, CallerActive
    <2>4. CASE /\ hpc' = [hpc EXCEPT ![c] = "gone"]
               /\ pc' = [d \in Calls |-> IF d \in Inner(c) THEN "killed" ELSE pc[d]]
        <3>1. CASE reply[c] # "none"
            <4>1. \A d \in Calls : pc'[d] = pc[d]
                BY <1>0, <2>4, <3>1
            <4> QED BY <2>1, <2>4, <3>1, <4>1, NoViewStep DEF ServerOf, TypeOK
        <3>2. CASE reply[c] = "none"
            BY <2>1, <2>2, <2>4, <3>2, Losing DEF HandlerActive
        <3> QED BY <3>1, <3>2
    <2> QED BY <2>1, <2>3, <2>4
<1> QED BY <1>1, <1>2 DEF HandlerStep, QuietStep

LEMMA PeerRefines ==
    ASSUME CallInv, NEW s \in Sides, PeerStep(s)
    PROVE  UNCHANGED <<ClientView, ServerView>>
<1> USE DEF CallInv
<1>1. CASE Dispatch(s)
    <2>1. LET d == Head(wire[s]).call IN
          d \in Calls /\ hpc[d] = "none" /\ hpc' = [hpc EXCEPT ![d] = "spawned"]
        BY <1>1, ReadType DEF Dispatch, Arrives, RequestsOnce
    <2>2. UNCHANGED <<pc, reply>>
        BY <1>1 DEF Dispatch, callVars
    <2> QED BY <2>1, <2>2, NoViewStep DEF ServerOf, TypeOK
<1>2. CASE ~Dispatch(s)
    <2>1. UNCHANGED <<pc, hpc, reply>>
        BY <1>2 DEF PeerStep, Deliver, DeliverBlocked, ReceiveFails, Clean, UserShutdown,
            KillReceiver, FinishShutdown, Remove, ChannelFails, callVars, handlerVars
    <2> QED BY <2>1, NoViewStep
<1> QED BY <1>1, <1>2

\* Two Python peers give each call what RpcCall promises: the method runs at most once, and
\* the caller gets the reply of that one invocation, or fails (peer.py:186-275, 342-431).
THEOREM PyPeersImplementRpcCall == Spec => ImplementsRpcCall
<1>1. Init => Abstract!RpcInit
    BY DEF Init, Abstract!RpcInit, ClientView, ServerView, ClientOf, ServerOf
<1>2. ASSUME CallInv, [Next]_vars
      PROVE  Abstract!RpcNext \/ UNCHANGED <<ClientView, ServerView>>
    <2>1. CASE UNCHANGED vars
        <3>1. UNCHANGED <<pc, hpc, reply>>
            BY <2>1 DEF vars, callVars, handlerVars
        <3> QED BY <3>1, NoViewStep
    <2> QED BY <1>2, <2>1, CallRefines, HandlerRefines, PeerRefines DEF Next
<1>3. CallInv /\ [Next]_vars => [Abstract!RpcNext]_(Abstract!callVars)
    BY <1>2 DEF Abstract!callVars
<1> QED BY <1>1, <1>3, CallInvHolds, PTL DEF Spec, ImplementsRpcCall, Abstract!RpcSpec
=============================================================================
