----------------------------- MODULE PeerProofs -----------------------------
(***************************************************************************)
(* Proofs about Peer, for any set of calls, any nesting of them and any    *)
(* choice of streams.                                                      *)
(***************************************************************************)
EXTENDS Peer, SequenceTheorems, TLAPS

\* Packets that the actions build are packets.
LEMMA PacketTypes ==
    /\ \A c \in Calls : Request(c) \in Packets /\ Response(c) \in Packets
    /\ \A ch \in Channels : Make(ch) \in Packets /\ Destroy(ch) \in Packets
    /\ \A c \in Calls : Param(c) \in Channels /\ Result(c) \in Channels
    /\ \A ch \in Channels : ch[1] \in Calls
    BY DEF Packets, Request, Response, Make, Destroy, Param, Result, Channels

LEMMA SideTypes ==
    /\ \A s \in Sides : Other(s) \in Sides /\ Other(s) # s
    /\ \A c \in Calls : Caller[c] \in Sides /\ Callee(c) \in Sides /\ Callee(c) # Caller[c]
    BY CallsAssumption DEF Sides, Other, Callee

\* Sending keeps the wires well formed.
LEMMA SendType ==
    ASSUME TypeOK, NEW s \in Sides, NEW p \in Packets
    PROVE  WireWith(s, p) \in [Sides -> Seq(Packets)]
    BY SideTypes DEF TypeOK, WireWith

\* What a packet at the head of a wire is, and what remains behind it.
LEMMA ReadType ==
    ASSUME TypeOK, NEW s \in Sides, wire[s] # <<>>
    PROVE  /\ WireRead(s) \in [Sides -> Seq(Packets)]
           /\ Head(wire[s]) \in Packets
           /\ Head(wire[s]).type \in {"request", "response"} => Head(wire[s]).call \in Calls
           /\ Head(wire[s]).type \in {"make", "destroy"} => Head(wire[s]).channel \in Channels
<1>1. wire[s] \in Seq(Packets)
    BY DEF TypeOK
<1>2. Head(wire[s]) \in Packets /\ Tail(wire[s]) \in Seq(Packets)
    BY <1>1, HeadTailProperties
<1>3. WireRead(s) \in [Sides -> Seq(Packets)]
    BY <1>2 DEF TypeOK, WireRead
<1>4. \A p \in Packets :
        /\ p.type \in {"request", "response"} => p.call \in Calls
        /\ p.type \in {"make", "destroy"} => p.channel \in Channels
    BY DEF Packets
<1> QED BY <1>2, <1>3, <1>4

\* What travels after a packet is sent, and after one is read.
LEMMA SendContents ==
    ASSUME TypeOK, NEW s \in Sides, NEW p \in Packets, wire' = WireWith(s, p),
           NEW t \in Sides, NEW q, InWire(t, q)'
    PROVE  InWire(t, q) \/ q = p
<1>1. CASE wire' = wire
    BY <1>1 DEF InWire
<1>2. CASE wire' = [wire EXCEPT ![Other(s)] = Append(@, p)]
    <2>1. wire[t] \in Seq(Packets)
        BY DEF TypeOK
    <2>2. wire'[t] = wire[t] \/ wire'[t] = Append(wire[t], p)
        BY <1>2 DEF TypeOK
    <2>3. PICK i \in 1..Len(wire'[t]) : wire'[t][i] = q
        BY DEF InWire
    <2>4. CASE wire'[t] = wire[t]
        BY <2>3, <2>4 DEF InWire
    <2>5. CASE wire'[t] = Append(wire[t], p)
        <3>1. i \in 1..Len(wire[t]) => wire[t][i] = q
            BY <2>1, <2>3, <2>5
        <3>2. i \notin 1..Len(wire[t]) => q = p
            BY <2>1, <2>3, <2>5
        <3> QED BY <3>1, <3>2 DEF InWire
    <2> QED BY <2>2, <2>4, <2>5
<1> QED BY <1>1, <1>2 DEF WireWith

LEMMA ReadContents ==
    ASSUME TypeOK, NEW s \in Sides, wire[s] # <<>>, wire' = WireRead(s),
           NEW t \in Sides, NEW q, InWire(t, q)'
    PROVE  InWire(t, q)
<1>1. wire[s] \in Seq(Packets)
    BY DEF TypeOK
<1>2. wire'[t] = IF t = s THEN Tail(wire[s]) ELSE wire[t]
    BY DEF TypeOK, WireRead
<1>3. PICK i \in 1..Len(wire'[t]) : wire'[t][i] = q
    BY DEF InWire
<1>4. CASE t = s
    <2>1. i + 1 \in 1..Len(wire[s]) /\ wire[s][i + 1] = q
        BY <1>1, <1>2, <1>3, <1>4
    <2> QED BY <1>4, <2>1 DEF InWire
<1>5. CASE t # s
    BY <1>2, <1>3, <1>5 DEF InWire
<1> QED BY <1>4, <1>5

LEMMA HeadContents ==
    ASSUME TypeOK, NEW s \in Sides, wire[s] # <<>>
    PROVE  /\ InWire(s, Head(wire[s]))
           /\ Head(wire[s]).type = "request" => Head(wire[s]) = Request(Head(wire[s]).call)
           /\ Head(wire[s]).type = "response" => Head(wire[s]) = Response(Head(wire[s]).call)
<1>1. wire[s] \in Seq(Packets)
    BY DEF TypeOK
<1>2. 1 \in 1..Len(wire[s]) /\ Head(wire[s]) = wire[s][1]
    BY <1>1
<1>3. \A p \in Packets :
        /\ p.type = "request" => p = Request(p.call)
        /\ p.type = "response" => p = Response(p.call)
    BY DEF Packets, Request, Response
<1> QED BY <1>2, <1>3, ReadType DEF InWire

\* Packets of different kinds, and of different calls, differ.
LEMMA PacketsDiffer ==
    /\ \A c, d \in Calls : Response(c) # Request(d)
    /\ \A c, d \in Calls : Response(c) = Response(d) => c = d
    /\ \A c, d \in Calls : Request(c) = Request(d) => c = d
    /\ \A c \in Calls : \A ch \in Channels :
         /\ Response(c) # Make(ch) /\ Response(c) # Destroy(ch)
         /\ Request(c) # Make(ch) /\ Request(c) # Destroy(ch)
<1>1. \A c, d \in Calls : Response(c).type # Request(d).type
    BY DEF Response, Request
<1>2. \A c \in Calls : Request(c).call = c /\ Response(c).call = c
    BY DEF Response, Request
<1>3. \A c \in Calls : \A ch \in Channels :
        /\ Request(c).type = "request" /\ Response(c).type = "response"
        /\ Make(ch).type = "make" /\ Destroy(ch).type = "destroy"
    BY DEF Response, Request, Make, Destroy
<1> QED BY <1>1, <1>2, <1>3

-----------------------------------------------------------------------------
(* Type correctness *)

LEMMA ShutdownType ==
    ASSUME TypeOK, NEW s \in Sides, NEW who \in Calls \cup {NoCall}, BeginShutdown(s, who)
    PROVE  /\ phase' \in [Sides -> Phases]
           /\ closer' \in [Sides -> Calls \cup {NoCall}]
           /\ event' \in [Calls -> Calls \cup {NoReply, EmptyReply}]
           /\ waiters' \in [Sides -> SUBSET Calls]
    BY DEF TypeOK, BeginShutdown, Phases

\* A response on a wire, or in a waiter, was computed; a waiter only gets the response
\* of its own call.
RepliesExist ==
    /\ \A s \in Sides : \A c \in Calls : InWire(s, Response(c)) => reply[c] # "none"
    /\ \A c \in Calls :
         event[c] \notin {NoReply, EmptyReply} => event[c] = c /\ reply[c] # "none"

LEMMA CallStepType ==
    ASSUME TypeOK, RepliesExist, NEW c \in Calls, CallStep(c)
    PROVE  TypeOK'
<1> USE DEF CallerActive, CallerEnded
<1>0. c \in Calls /\ Caller[c] \in Sides /\ Param(c) \in Channels /\ Result(c) \in Channels
    BY PacketTypes, SideTypes
<1>1. CASE Enter(c)
    BY <1>0, <1>1 DEF TypeOK, Enter, handlerVars, shutdownVars, channelVars
<1>2. CASE OpenStream(c)
    <2>1. wire' \in [Sides -> Seq(Packets)]
        BY <1>0, <1>2, PacketTypes, SendType DEF OpenStream
    <2> QED BY <1>0, <1>2, <2>1 DEF TypeOK, OpenStream, handlerVars, shutdownVars
<1>3. CASE SendRequest(c)
    <2>1. wire' \in [Sides -> Seq(Packets)]
        BY <1>0, <1>3, PacketTypes, SendType DEF SendRequest
    <2> QED BY <1>0, <1>3, <2>1 DEF TypeOK, SendRequest, handlerVars, shutdownVars
<1>4. CASE CannotPack(c)
    BY <1>0, <1>4 DEF TypeOK, CannotPack, handlerVars, shutdownVars, channelVars
<1>5. CASE GiveUp(c)
    BY <1>0, <1>5 DEF TypeOK, GiveUp, handlerVars, shutdownVars, channelVars
<1>6. CASE RequestSent(c)
    BY <1>0, <1>6 DEF TypeOK, RequestSent, handlerVars, shutdownVars, channelVars
<1>7. CASE SendFailed(c)
    <2>1. /\ phase' \in [Sides -> Phases]
          /\ closer' \in [Sides -> Calls \cup {NoCall}]
          /\ event' \in [Calls -> Calls \cup {NoReply, EmptyReply}]
          /\ waiters' \in [Sides -> SUBSET Calls]
        BY <1>0, <1>7, ShutdownType DEF SendFailed, TypeOK, shutdownVars
    <2> QED BY <1>0, <1>7, <2>1 DEF TypeOK, SendFailed, handlerVars, channelVars
<1>8. CASE GetResponse(c)
    <2>1. Outcome(c) \in CallerEnded
        BY <1>0, <1>8 DEF GetResponse, Outcome, TypeOK, Replies, RepliesExist
    <2>2. pending' \in [Sides -> SUBSET Channels]
        BY <1>0, <1>8 DEF GetResponse, TypeOK, Without
    <2>3. waiters' \in [Sides -> SUBSET Calls]
        BY <1>0, <1>8 DEF GetResponse, TypeOK
    <2> QED BY <1>0, <1>8, <2>1, <2>2, <2>3 DEF TypeOK, GetResponse, handlerVars, shutdownVars
<1>9. CASE Interrupt(c)
    BY <1>0, <1>9 DEF TypeOK, Interrupt, Phases, handlerVars, channelVars
<1> QED BY <1>1, <1>2, <1>3, <1>4, <1>5, <1>6, <1>7, <1>8, <1>9 DEF CallStep

LEMMA HandlerStepType ==
    ASSUME TypeOK, NEW c \in Calls, HandlerStep(c)
    PROVE  TypeOK'
<1> USE DEF HandlerActive, HandlerEnded
<1>0. /\ c \in Calls /\ Callee(c) \in Sides
      /\ Param(c) \in Channels /\ Result(c) \in Channels
      /\ Request(c) \in Packets /\ Response(c) \in Packets /\ Make(Result(c)) \in Packets
    BY PacketTypes, SideTypes
<1>00. ASSUME NEW kind \in Replies, Respond(c, kind)
       PROVE  /\ reply' \in [Calls -> {"none"} \cup Replies]
              /\ hpc' \in [Calls -> {"none"} \cup HandlerActive \cup HandlerEnded]
              /\ wire' \in [Sides -> Seq(Packets)]
    <2>1. wire' \in [Sides -> Seq(Packets)]
        BY <1>0, <1>00, SendType DEF Respond
    <2> QED BY <1>0, <1>00, <2>1 DEF TypeOK, Respond
<1>01. Without(Callee(c), Param(c)) \in [Sides -> SUBSET Channels]
    BY <1>0 DEF TypeOK, Without
<1>1. CASE Reject(c)
    BY <1>0, <1>01, <1>1 DEF TypeOK, Reject, callerVars, shutdownVars
<1>2. CASE Accept(c)
    BY <1>0, <1>01, <1>2 DEF TypeOK, Accept, callerVars, shutdownVars
<1>3. CASE BadChannel(c)
    BY <1>0, <1>00, <1>3 DEF TypeOK, BadChannel, callerVars, shutdownVars, Replies
<1>4. CASE Answer(c)
    BY <1>0, <1>00, <1>4 DEF TypeOK, Answer, callerVars, shutdownVars, Replies
<1>5. CASE OpenResult(c)
    <2>1. wire' \in [Sides -> Seq(Packets)]
        BY <1>0, <1>5, SendType DEF OpenResult
    <2> QED BY <1>0, <1>5, <2>1 DEF TypeOK, OpenResult, callerVars, shutdownVars
<1>6. CASE AnswerStream(c)
    BY <1>0, <1>00, <1>6 DEF TypeOK, AnswerStream, callerVars, shutdownVars, Replies
<1>7. CASE CannotAnswer(c)
    BY <1>0, <1>7 DEF TypeOK, CannotAnswer, callerVars, shutdownVars, channelVars
<1>8. CASE HandlerBroken(c)
    BY <1>0, <1>8 DEF TypeOK, HandlerBroken, callerVars, shutdownVars, channelVars
<1>9. CASE ResponseSent(c)
    BY <1>0, <1>9 DEF TypeOK, ResponseSent, callerVars, shutdownVars, channelVars
<1>10. CASE KillHandler(c)
    BY <1>0, <1>01, <1>10 DEF TypeOK, KillHandler, shutdownVars, CallerEnded
<1> QED BY <1>1, <1>2, <1>3, <1>4, <1>5, <1>6, <1>7, <1>8, <1>9, <1>10 DEF HandlerStep

LEMMA PeerStepType ==
    ASSUME TypeOK, NEW s \in Sides, PeerStep(s)
    PROVE  TypeOK'
<1>1. CASE Dispatch(s)
    <2>1. Head(wire[s]).call \in Calls /\ wire' \in [Sides -> Seq(Packets)]
        BY <1>1, ReadType DEF Dispatch, Arrives
    <2> QED BY <1>1, <2>1 DEF TypeOK, Dispatch, HandlerActive, callerVars, shutdownVars
<1>2. CASE Deliver(s)
    <2>1. Head(wire[s]).call \in Calls /\ wire' \in [Sides -> Seq(Packets)]
        BY <1>2, ReadType DEF Deliver, Arrives
    <2>2. pending' = pending \/ pending' = Without(s, Result(Head(wire[s]).call))
        BY <1>2 DEF Deliver
    <2>20. pending' \in [Sides -> SUBSET Channels]
        BY <2>1, <2>2 DEF TypeOK, Without
    <2>3. event' \in [Calls -> Calls \cup {NoReply, EmptyReply}]
        BY <1>2, <2>1 DEF TypeOK, Deliver
    <2> QED BY <1>2, <2>1, <2>20, <2>3 DEF TypeOK, Deliver, handlerVars, shutdownVars
<1>3. CASE EndOfPackets(s)
    BY <1>3, ShutdownType DEF TypeOK, EndOfPackets, handlerVars, channelVars
<1>4. CASE ChannelMade(s)
    <2>1. Head(wire[s]).channel \in Channels /\ wire' \in [Sides -> Seq(Packets)]
        BY <1>4, ReadType DEF ChannelMade, Arrives
    <2> QED BY <1>4, <2>1 DEF TypeOK, ChannelMade, callerVars, handlerVars, shutdownVars
<1>5. CASE ChannelDestroyed(s)
    <2>1. Head(wire[s]).channel \in Channels /\ wire' \in [Sides -> Seq(Packets)]
        BY <1>5, ReadType DEF ChannelDestroyed, Arrives
    <2>2. pending' \in [Sides -> SUBSET Channels]
        BY <1>5, <2>1 DEF TypeOK, ChannelDestroyed, Without
    <2> QED BY <1>5, <2>1, <2>2 DEF TypeOK, ChannelDestroyed, callerVars, handlerVars, shutdownVars
<1>6. CASE UserShutdown(s)
    BY <1>6, ShutdownType DEF TypeOK, UserShutdown, handlerVars, channelVars
<1>7. CASE Abort(s)
    <2>1. wire' \in [Sides -> Seq(Packets)]
        BY <1>7 DEF TypeOK, Abort
    <2>2. pc' \in [Calls -> {"idle"} \cup CallerActive \cup CallerEnded]
        BY <1>7 DEF TypeOK, Abort, CallerEnded
    <2> QED BY <1>7, <2>1, <2>2 DEF TypeOK, Abort, Phases, handlerVars
<1>8. CASE Remove(s)
    BY <1>8 DEF TypeOK, Remove, Phases, callerVars, handlerVars, channelVars
<1> QED BY <1>1, <1>2, <1>3, <1>4, <1>5, <1>6, <1>7, <1>8 DEF PeerStep

LEMMA DropStreamType ==
    ASSUME TypeOK, NEW ch \in Channels, DropStream(ch)
    PROVE  TypeOK'
<1>1. Maker(ch) \in Sides
    BY PacketTypes, SideTypes DEF Maker
<1>2. wire' \in [Sides -> Seq(Packets)]
    BY <1>1, PacketTypes, SendType DEF DropStream
<1> QED BY <1>2 DEF TypeOK, DropStream, callerVars, handlerVars, shutdownVars

-----------------------------------------------------------------------------
(* The responses that travel were computed *)

\* RepliesExist survives a step that only puts computed responses on the wires and in
\* the waiters.
LEMMA RepliesKept ==
    ASSUME RepliesExist,
           \A s \in Sides : \A c \in Calls :
               InWire(s, Response(c))' => InWire(s, Response(c)) \/ reply'[c] # "none",
           \A c \in Calls : reply[c] # "none" => reply'[c] # "none",
           \A c \in Calls : \/ event'[c] \in {event[c], EmptyReply}
                            \/ event'[c] = c /\ reply'[c] # "none"
    PROVE  RepliesExist'
    BY DEF RepliesExist

\* A step that reads or empties a wire puts no response there.
LEMMA NoNewResponse ==
    ASSUME TypeOK,
           \/ wire' = wire
           \/ \E s \in Sides : wire[s] # <<>> /\ wire' = WireRead(s)
           \/ \E s \in Sides : wire' = [wire EXCEPT ![s] = <<>>]
           \/ \E s \in Sides : \E c \in Calls : wire' = WireWith(s, Request(c))
           \/ \E s \in Sides : \E ch \in Channels :
                  wire' = WireWith(s, Make(ch)) \/ wire' = WireWith(s, Destroy(ch)),
           NEW t \in Sides, NEW d \in Calls, InWire(t, Response(d))'
    PROVE  InWire(t, Response(d))
<1>1. CASE wire' = wire
    BY <1>1 DEF InWire
<1>2. CASE \E s \in Sides : wire[s] # <<>> /\ wire' = WireRead(s)
    BY <1>2, ReadContents
<1>3. CASE \E s \in Sides : wire' = [wire EXCEPT ![s] = <<>>]
    <2>1. PICK s \in Sides : wire' = [wire EXCEPT ![s] = <<>>]
        BY <1>3
    <2>2. wire'[t] = IF t = s THEN <<>> ELSE wire[t]
        BY <2>1 DEF TypeOK
    <2> QED BY <2>2 DEF InWire
<1>4. CASE \E s \in Sides : \E c \in Calls : wire' = WireWith(s, Request(c))
    BY <1>4, SendContents, PacketTypes, PacketsDiffer
<1>5. CASE \E s \in Sides : \E ch \in Channels : wire' = WireWith(s, Make(ch))
    BY <1>5, SendContents, PacketTypes, PacketsDiffer
<1>6. CASE \E s \in Sides : \E ch \in Channels : wire' = WireWith(s, Destroy(ch))
    BY <1>6, SendContents, PacketTypes, PacketsDiffer
<1> QED BY <1>1, <1>2, <1>3, <1>4, <1>5, <1>6

LEMMA RepliesStep ==
    ASSUME TypeOK, RepliesExist, [Next]_vars
    PROVE  RepliesExist'
<1> USE PacketTypes, SideTypes
<1>1. ASSUME NEW c \in Calls, CallStep(c)
      PROVE  RepliesExist'
    <2>1. /\ reply' = reply
          /\ \/ wire' = wire
             \/ wire' = WireWith(Caller[c], Request(c))
             \/ wire' = WireWith(Caller[c], Make(Param(c)))
        BY <1>1 DEF CallStep, Enter, OpenStream, SendRequest, CannotPack, GiveUp, RequestSent,
                    SendFailed, GetResponse, Interrupt, handlerVars, channelVars
    <2>2. \A d \in Calls : event'[d] \in {event[d], EmptyReply}
        BY <1>1 DEF CallStep, Enter, OpenStream, SendRequest, CannotPack, GiveUp, RequestSent,
                    SendFailed, GetResponse, Interrupt, BeginShutdown, TypeOK
    <2>3. \A t \in Sides : \A d \in Calls : InWire(t, Response(d))' => InWire(t, Response(d))
        BY <2>1, NoNewResponse
    <2> QED BY <2>1, <2>2, <2>3, RepliesKept
<1>2. ASSUME NEW c \in Calls, HandlerStep(c)
      PROVE  RepliesExist'
    <2>1. event' = event
        BY <1>2 DEF HandlerStep, Reject, Accept, BadChannel, Answer, OpenResult, AnswerStream,
                    CannotAnswer, HandlerBroken, ResponseSent, KillHandler, callerVars
    <2>2. CASE reply' = reply /\ (wire' = wire \/ wire' = WireWith(Callee(c), Make(Result(c))))
        <3>1. \A t \in Sides : \A d \in Calls : InWire(t, Response(d))' => InWire(t, Response(d))
            BY <2>2, NoNewResponse
        <3> QED BY <2>1, <2>2, <3>1, RepliesKept
    <2>3. CASE \E kind \in Replies : Respond(c, kind)
        <3>1. \A d \in Calls : reply[d] # "none" \/ d = c => reply'[d] # "none"
            BY <2>3 DEF Respond, Replies, TypeOK
        <3>2. \A t \in Sides : \A d \in Calls :
                InWire(t, Response(d))' => InWire(t, Response(d)) \/ d = c
            BY <2>3, SendContents, PacketsDiffer DEF Respond
        <3> QED BY <2>1, <3>1, <3>2, RepliesKept
    <2> QED BY <1>2, <2>2, <2>3
            DEF HandlerStep, Reject, Accept, BadChannel, Answer, OpenResult, AnswerStream,
                CannotAnswer, HandlerBroken, ResponseSent, KillHandler, channelVars, Replies
<1>3. ASSUME NEW s \in Sides, PeerStep(s)
      PROVE  RepliesExist'
    <2>1. reply' = reply
        BY <1>3 DEF PeerStep, Dispatch, Deliver, EndOfPackets, ChannelMade, ChannelDestroyed,
                    UserShutdown, Abort, Remove, handlerVars
    <2>2. \/ wire' = wire
          \/ wire[s] # <<>> /\ wire' = WireRead(s)
          \/ wire' = [wire EXCEPT ![s] = <<>>]
        BY <1>3 DEF PeerStep, Dispatch, Deliver, EndOfPackets, ChannelMade, ChannelDestroyed,
                    UserShutdown, Abort, Remove, channelVars, Arrives
    <2>3. \A t \in Sides : \A d \in Calls : InWire(t, Response(d))' => InWire(t, Response(d))
        BY <2>2, NoNewResponse
    <2>4. CASE Deliver(s)
        <3>1. LET c == Head(wire[s]).call IN
              c \in Calls /\ reply[c] # "none"
            BY <2>4, HeadContents, ReadType DEF Deliver, Arrives, RepliesExist
        <3>2. \A d \in Calls : event'[d] = event[d] \/ (event'[d] = d /\ d = Head(wire[s]).call)
            BY <2>4 DEF Deliver, TypeOK
        <3> QED BY <2>1, <2>3, <3>1, <3>2, RepliesKept
    <2>5. CASE ~Deliver(s)
        <3>1. \A d \in Calls : event'[d] \in {event[d], EmptyReply}
            BY <1>3, <2>5 DEF PeerStep, Dispatch, EndOfPackets, ChannelMade, ChannelDestroyed,
                    UserShutdown, Abort, Remove, BeginShutdown, callerVars, TypeOK
        <3> QED BY <2>1, <2>3, <3>1, RepliesKept
    <2> QED BY <2>4, <2>5
<1>4. ASSUME NEW ch \in Channels, DropStream(ch)
      PROVE  RepliesExist'
    <2>1. /\ reply' = reply /\ event' = event
          /\ Maker(ch) \in Sides /\ wire' = WireWith(Maker(ch), Destroy(ch))
        BY <1>4 DEF DropStream, handlerVars, callerVars, Maker
    <2>2. \A t \in Sides : \A d \in Calls : InWire(t, Response(d))' => InWire(t, Response(d))
        BY <2>1, NoNewResponse
    <2> QED BY <2>1, <2>2, RepliesKept
<1>5. CASE LinkFails \/ UNCHANGED vars
    BY <1>5 DEF LinkFails, vars, callerVars, handlerVars, channelVars, RepliesExist, InWire
<1> QED BY <1>1, <1>2, <1>3, <1>4, <1>5 DEF Next

-----------------------------------------------------------------------------
(* The invariants *)

LEMMA TypeStep ==
    ASSUME TypeOK, RepliesExist, [Next]_vars
    PROVE  TypeOK'
<1>1. CASE LinkFails
    BY <1>1 DEF TypeOK, LinkFails, callerVars, handlerVars, shutdownVars
<1>2. CASE UNCHANGED vars
    BY <1>2 DEF TypeOK, vars, callerVars, handlerVars, shutdownVars, channelVars
<1> QED BY <1>1, <1>2, CallStepType, HandlerStepType, PeerStepType, DropStreamType DEF Next

\* Every variable keeps its type.  TypeOK alone is not inductive: that a call ends with
\* a reply and not with "none" needs the responses on the wires to have been computed.
THEOREM TypeCorrect == Spec => []TypeOK
<1>1. Init => TypeOK /\ RepliesExist
    BY DEF Init, TypeOK, Phases, CallerActive, HandlerActive, RepliesExist, InWire
<1>2. TypeOK /\ RepliesExist /\ [Next]_vars => (TypeOK /\ RepliesExist)'
    BY TypeStep, RepliesStep
<1> QED BY <1>1, <1>2, PTL DEF Spec

-----------------------------------------------------------------------------
(* Shutdown *)

\* A broken peer stays broken.
LEMMA BrokenForever ==
    ASSUME TypeOK, [Next]_vars, NEW s \in Sides, Broken(s)
    PROVE  Broken(s)'
<1> USE SideTypes DEF Broken, TypeOK, shutdownVars
<1>1. ASSUME NEW c \in Calls, CallStep(c)
      PROVE  Broken(s)'
    BY <1>1 DEF CallStep, Enter, OpenStream, SendRequest, CannotPack, GiveUp, RequestSent,
                SendFailed, GetResponse, Interrupt, BeginShutdown
<1>2. ASSUME NEW c \in Calls, HandlerStep(c)
      PROVE  Broken(s)'
    BY <1>2 DEF HandlerStep, Reject, Accept, BadChannel, Answer, OpenResult, AnswerStream,
                CannotAnswer, HandlerBroken, ResponseSent, KillHandler
<1>3. ASSUME NEW t \in Sides, PeerStep(t)
      PROVE  Broken(s)'
    BY <1>3 DEF PeerStep, Dispatch, Deliver, EndOfPackets, ChannelMade, ChannelDestroyed,
                UserShutdown, Abort, Remove, BeginShutdown
<1>4. CASE UNCHANGED vars \/ LinkFails \/ \E ch \in Channels : DropStream(ch)
    BY <1>4 DEF vars, LinkFails, DropStream
<1> QED BY <1>1, <1>2, <1>3, <1>4 DEF Next

\* A caller in shutdown() broke its peer, and as long as killall() lasts the coroutine
\* that shuts down is still there.
Closers ==
    /\ \A c \in Calls : pc[c] = "closing" => Broken(Caller[c])
    /\ \A s \in Sides : closer[s] # NoCall =>
         /\ Caller[closer[s]] = s
         /\ phase[s] = "killing" => pc[closer[s]] = "closing"

LEMMA ClosersKept ==
    ASSUME TypeOK, Closers, [Next]_vars, closer' = closer,
           \A s \in Sides : phase'[s] = "killing" => phase[s] = "killing",
           \A c \in Calls : pc'[c] = "closing" => pc[c] = "closing",
           \A s \in Sides : phase'[s] = "killing" /\ closer[s] # NoCall =>
               pc'[closer[s]] = pc[closer[s]]
    PROVE  Closers'
    BY BrokenForever, SideTypes DEF Closers

LEMMA ClosersStep ==
    ASSUME TypeOK, Closers, [Next]_vars
    PROVE  Closers'
<1> USE SideTypes, CallsAssumption
<1>1. ASSUME NEW c \in Calls, CallStep(c)
      PROVE  Closers'
    <2>1. CASE SendFailed(c)
        <3>1. CASE Broken(Caller[c])
            <4>1. /\ pc' = [pc EXCEPT ![c] = "disconnected"] /\ pc[c] = "sending"
                  /\ phase' = phase /\ closer' = closer
                BY <2>1, <3>1 DEF SendFailed, shutdownVars
            <4> QED BY <4>1, ClosersKept DEF TypeOK, Closers
        <3>2. CASE ~Broken(Caller[c])
            <4>1. /\ pc' = [pc EXCEPT ![c] = "closing"] /\ pc[c] = "sending"
                  /\ phase' = [phase EXCEPT ![Caller[c]] = "killing"]
                  /\ closer' = [closer EXCEPT ![Caller[c]] = c]
                BY <2>1, <3>2 DEF SendFailed, BeginShutdown
            <4> QED BY <4>1, BrokenForever DEF TypeOK, Closers, Broken
        <3> QED BY <3>1, <3>2
    <2>2. CASE Interrupt(c)
        <3>1. /\ pc' = [pc EXCEPT ![c] = "killed"] /\ closer' = closer
              /\ pc[c] = "closing" => phase' = [phase EXCEPT ![Caller[c]] = "abandoned"]
              /\ pc[c] # "closing" => phase' = phase
            BY <2>2 DEF Interrupt
        <3>2. \A s \in Sides : phase'[s] = "killing" => phase[s] = "killing"
            BY <3>1 DEF TypeOK
        <3>3. \A d \in Calls : d # c => pc'[d] = pc[d]
            BY <3>1 DEF TypeOK
        <3>4. pc'[c] = "killed"
            BY <3>1 DEF TypeOK
        <3>5. ASSUME NEW s \in Sides, phase'[s] = "killing", closer[s] # NoCall
              PROVE  closer[s] # c /\ closer[s] \in Calls
            BY <3>1, <3>2, <3>5 DEF TypeOK, Closers
        <3> QED BY <3>1, <3>2, <3>3, <3>4, <3>5, ClosersKept
    <2>3. CASE ~SendFailed(c) /\ ~Interrupt(c)
        <3>1. CASE GetResponse(c)
            <4>1. Outcome(c) # "closing"
                BY <3>1 DEF GetResponse, Outcome, TypeOK, Replies
            <4>2. /\ pc' = [pc EXCEPT ![c] = Outcome(c)] /\ pc[c] = "waiting"
                  /\ phase' = phase /\ closer' = closer
                BY <3>1 DEF GetResponse, shutdownVars
            <4> QED BY <4>1, <4>2, ClosersKept DEF TypeOK, Closers
        <3> SUFFICES ASSUME ~GetResponse(c) PROVE Closers'
            BY <3>1
        <3>3. pc'[c] # "closing" /\ \A d \in Calls : d # c => pc'[d] = pc[d]
            BY <1>1, <2>3 DEF CallStep, Enter, OpenStream, SendRequest, CannotPack, GiveUp,
                RequestSent, TypeOK
        <3>2. pc[c] # "closing" /\ phase' = phase /\ closer' = closer
            BY <1>1, <2>3 DEF CallStep, Enter, OpenStream, SendRequest, CannotPack, GiveUp,
                RequestSent, ReadyToSend, shutdownVars
        <3> QED BY <3>2, <3>3, ClosersKept DEF TypeOK, Closers
    <2> QED BY <1>1, <2>1, <2>2, <2>3
<1>2. ASSUME NEW c \in Calls, HandlerStep(c)
      PROVE  Closers'
    <2>1. phase' = phase /\ closer' = closer
        BY <1>2 DEF HandlerStep, Reject, Accept, BadChannel, Answer, OpenResult, AnswerStream,
                CannotAnswer, HandlerBroken, ResponseSent, KillHandler, shutdownVars
    <2>2. CASE pc' = pc
        BY <2>1, <2>2, ClosersKept
    <2>3. CASE KillHandler(c)
        <3>1. \A d \in Calls : pc'[d] = IF d \in Inner(c) THEN "killed" ELSE pc[d]
            BY <2>3 DEF KillHandler
        <3>2. \A d \in Inner(c) : Caller[d] = Callee(c)
            BY DEF Inner, Callee
        <3>3. closer[Callee(c)] # NoCall => closer[Callee(c)] \notin Inner(c)
            BY <2>3 DEF KillHandler, Inner
        <3>4. ASSUME NEW s \in Sides, closer[s] # NoCall
              PROVE  closer[s] \in Calls /\ pc'[closer[s]] = pc[closer[s]]
            BY <3>1, <3>2, <3>3, <3>4 DEF Closers, TypeOK
        <3> QED BY <2>1, <3>1, <3>4, ClosersKept
    <2> QED BY <1>2, <2>2, <2>3 DEF HandlerStep, Reject, Accept, BadChannel, Answer, OpenResult,
                AnswerStream, CannotAnswer, HandlerBroken, ResponseSent, callerVars
<1>3. ASSUME NEW s \in Sides, PeerStep(s)
      PROVE  Closers'
    <2>1. CASE EndOfPackets(s) \/ UserShutdown(s)
        <3>1. /\ pc' = pc /\ closer' = [closer EXCEPT ![s] = NoCall]
              /\ phase' = [phase EXCEPT ![s] = "killing"]
            BY <2>1 DEF EndOfPackets, UserShutdown, BeginShutdown
        <3> QED BY <3>1, BrokenForever DEF Closers, TypeOK
    <2>2. CASE Abort(s)
        <3>1. /\ \A c \in Calls : pc'[c] = IF c = closer[s] THEN "disconnected" ELSE pc[c]
              /\ closer' = closer /\ phase' = [phase EXCEPT ![s] = "aborted"]
            BY <2>2 DEF Abort
        <3>2. ASSUME NEW t \in Sides, phase'[t] = "killing", closer[t] # NoCall
              PROVE  pc'[closer[t]] = pc[closer[t]]
            BY <3>1, <3>2 DEF Closers, TypeOK
        <3>3. \A t \in Sides : phase'[t] = "killing" => phase[t] = "killing"
            BY <3>1 DEF TypeOK
        <3> QED BY <3>1, <3>2, <3>3, ClosersKept
    <2>3. CASE Remove(s)
        <3>1. pc' = pc /\ closer' = closer /\ phase' = [phase EXCEPT ![s] = "removed"]
            BY <2>3 DEF Remove, callerVars
        <3>2. \A t \in Sides : phase'[t] = "killing" => phase[t] = "killing"
            BY <3>1 DEF TypeOK
        <3> QED BY <3>1, <3>2, ClosersKept
    <2>4. CASE pc' = pc /\ phase' = phase /\ closer' = closer
        BY <2>4, ClosersKept
    <2> QED BY <1>3, <2>1, <2>2, <2>3, <2>4 DEF PeerStep, Dispatch, Deliver, ChannelMade,
                ChannelDestroyed, callerVars, shutdownVars
<1>4. CASE UNCHANGED vars \/ LinkFails \/ \E ch \in Channels : DropStream(ch)
    <2>1. pc' = pc /\ phase' = phase /\ closer' = closer
        BY <1>4 DEF vars, LinkFails, DropStream, callerVars, shutdownVars
    <2> QED BY <2>1, ClosersKept
<1> QED BY <1>1, <1>2, <1>3, <1>4 DEF Next

-----------------------------------------------------------------------------
(* Callers and waiters *)

\* shutdown() keeps every caller of the side reachable: those without a response are in
\* waiters, and get the empty one.
LEMMA ShutdownReaches ==
    ASSUME TypeOK, CallersReachable, NEW s \in Sides, NEW who, BeginShutdown(s, who),
           \A c \in Calls : pc'[c] = pc[c] \/ pc'[c] \notin {"sending", "waiting"}
    PROVE  CallersReachable'
<1> SUFFICES ASSUME NEW c \in Calls,
                    pc'[c] \in {"sending", "waiting"}, event'[c] = NoReply
             PROVE  ~Broken(Caller[c])' /\ c \in waiters'[Caller[c]]
    BY DEF CallersReachable
<1>1. pc[c] \in {"sending", "waiting"}
    OBVIOUS
<1>2. c \notin waiters[s] /\ event[c] = NoReply
    BY CallsAssumption DEF BeginShutdown
<1>3. Caller[c] # s
    BY <1>1, <1>2 DEF CallersReachable
<1> QED BY <1>1, <1>2, <1>3, SideTypes DEF CallersReachable, BeginShutdown, Broken, TypeOK

LEMMA CallersReachableStep ==
    ASSUME TypeOK, Closers, CallersReachable, [Next]_vars
    PROVE  CallersReachable'
<1> USE SideTypes DEF CallersReachable
<1>1. ASSUME NEW c \in Calls, CallStep(c)
      PROVE  CallersReachable'
    <2>1. CASE SendFailed(c)
        <3>1. \A d \in Calls : pc'[d] = pc[d] \/ pc'[d] \notin {"sending", "waiting"}
            BY <2>1 DEF SendFailed, TypeOK
        <3>2. CASE Broken(Caller[c])
            BY <2>1, <3>1, <3>2 DEF SendFailed, shutdownVars, Broken
        <3> QED BY <2>1, <3>1, <3>2, ShutdownReaches DEF SendFailed
    <2>2. CASE Enter(c)
        BY <2>2 DEF Enter, TypeOK, shutdownVars, Broken
    <2>3. CASE OpenStream(c)
        BY <2>3 DEF OpenStream, TypeOK, shutdownVars, Broken
    <2>4. CASE SendRequest(c)
        BY <2>4 DEF SendRequest, TypeOK, shutdownVars, Broken
    <2>5. CASE CannotPack(c)
        BY <2>5 DEF CannotPack, TypeOK, shutdownVars, Broken
    <2>6. CASE GiveUp(c)
        BY <2>6 DEF GiveUp, TypeOK, shutdownVars, Broken
    <2>7. CASE RequestSent(c)
        BY <2>7 DEF RequestSent, TypeOK, shutdownVars, Broken
    <2>8. CASE GetResponse(c)
        <3>1. pc'[c] \notin {"sending", "waiting"} \/ event[c] # NoReply
            BY <2>8 DEF GetResponse
        <3>2. \A d \in Calls : d # c => pc'[d] = pc[d]
            BY <2>8 DEF GetResponse, TypeOK
        <3>3. event' = event /\ phase' = phase
            BY <2>8 DEF GetResponse, shutdownVars
        <3>4. \A d \in Calls : d # c /\ d \in waiters[Caller[d]] => d \in waiters'[Caller[d]]
            BY <2>8 DEF GetResponse, TypeOK
        <3> QED BY <3>1, <3>2, <3>3, <3>4 DEF Broken
    <2>9. CASE Interrupt(c)
        <3>1. pc'[c] = "killed" /\ \A d \in Calls : d # c => pc'[d] = pc[d]
            BY <2>9 DEF Interrupt, TypeOK
        <3>2. event' = event
            BY <2>9 DEF Interrupt
        <3>3. \A d \in Calls : d # c /\ d \in waiters[Caller[d]] => d \in waiters'[Caller[d]]
            BY <2>9 DEF Interrupt, TypeOK
        <3>4. CASE phase' = phase
            BY <3>1, <3>2, <3>3, <3>4 DEF Broken
        <3>5. CASE phase' = [phase EXCEPT ![Caller[c]] = "abandoned"] /\ pc[c] = "closing"
            BY <3>1, <3>2, <3>3, <3>5 DEF Broken, TypeOK, Closers
        <3> QED BY <2>9, <3>4, <3>5 DEF Interrupt
    <2> QED BY <1>1, <2>1, <2>2, <2>3, <2>4, <2>5, <2>6, <2>7, <2>8, <2>9 DEF CallStep
<1>2. ASSUME NEW c \in Calls, HandlerStep(c)
      PROVE  CallersReachable'
    <2>1. /\ phase' = phase /\ event' = event /\ waiters' = waiters
          /\ \A d \in Calls : pc'[d] = pc[d] \/ pc'[d] = "killed"
        BY <1>2 DEF HandlerStep, Reject, Accept, BadChannel, Answer, OpenResult, AnswerStream,
                CannotAnswer, HandlerBroken, ResponseSent, KillHandler, shutdownVars, callerVars
    <2> QED BY <2>1 DEF Broken
<1>3. ASSUME NEW s \in Sides, PeerStep(s)
      PROVE  CallersReachable'
    <2>1. CASE EndOfPackets(s) \/ UserShutdown(s)
        BY <2>1, ShutdownReaches DEF EndOfPackets, UserShutdown
    <2>2. CASE Deliver(s)
        <3>1. phase' = phase /\ pc' = pc /\ waiters' = waiters
            BY <2>2 DEF Deliver, shutdownVars
        <3>2. \A d \in Calls : event'[d] = event[d] \/ event'[d] = d
            BY <2>2 DEF Deliver, TypeOK
        <3> QED BY <3>1, <3>2, CallsAssumption DEF Broken
    <2>3. CASE Abort(s)
        <3>1. /\ event' = event /\ waiters' = waiters
              /\ phase[s] = "killing" /\ phase' = [phase EXCEPT ![s] = "aborted"]
              /\ \A d \in Calls : pc'[d] = pc[d] \/ pc'[d] = "disconnected"
            BY <2>3 DEF Abort
        <3>2. \A t \in Sides : Broken(t)' => Broken(t)
            BY <3>1 DEF Broken, TypeOK
        <3> QED BY <3>1, <3>2
    <2>4. CASE Remove(s)
        <3>1. /\ UNCHANGED <<event, waiters, pc>>
              /\ phase[s] = "aborted" /\ phase' = [phase EXCEPT ![s] = "removed"]
            BY <2>4 DEF Remove, callerVars
        <3>2. \A t \in Sides : Broken(t)' => Broken(t)
            BY <3>1 DEF Broken, TypeOK
        <3> QED BY <3>1, <3>2
    <2>5. CASE UNCHANGED <<event, waiters, pc, phase>>
        BY <2>5 DEF Broken
    <2> QED BY <1>3, <2>1, <2>2, <2>3, <2>4, <2>5 DEF PeerStep, Dispatch, ChannelMade,
                ChannelDestroyed, callerVars, shutdownVars
<1>4. CASE UNCHANGED vars \/ LinkFails \/ \E ch \in Channels : DropStream(ch)
    BY <1>4 DEF vars, LinkFails, DropStream, callerVars, shutdownVars, Broken
<1> QED BY <1>1, <1>2, <1>3, <1>4 DEF Next

\* What a step must do to keep WaitersAreCalls: add no waiter but that of a call that is
\* about to wait, end no registered call but by killing it, break only a side that has
\* forgotten its waiters.
LEMMA WaitersKept ==
    ASSUME WaitersAreCalls,
           \A s \in Sides : waiters'[s] \subseteq waiters[s],
           \A s \in Sides : Broken(s)' => Broken(s) \/ waiters'[s] = {},
           \A s \in Sides : \A c \in waiters'[s] :
               pc'[c] = pc[c] \/ pc'[c] \in {"sending", "waiting", "killed"}
    PROVE  WaitersAreCalls'
    BY DEF WaitersAreCalls

LEMMA WaitersAreCallsStep ==
    ASSUME TypeOK, Closers, WaitersAreCalls, [Next]_vars
    PROVE  WaitersAreCalls'
<1> USE SideTypes
<1>1. ASSUME NEW c \in Calls, CallStep(c)
      PROVE  WaitersAreCalls'
    <2>1. CASE SendRequest(c)
        <3>1. /\ pc' = [pc EXCEPT ![c] = "sending"]
              /\ waiters' = [waiters EXCEPT ![Caller[c]] = @ \cup {c}]
              /\ ~Broken(Caller[c]) /\ phase' = phase
            BY <2>1 DEF SendRequest, shutdownVars
        <3> QED BY <3>1 DEF WaitersAreCalls, TypeOK, Broken
    <2>2. CASE GetResponse(c)
        <3>1. /\ \A d \in Calls : d # c => pc'[d] = pc[d]
              /\ waiters' = [waiters EXCEPT ![Caller[c]] = @ \ {c}]
              /\ phase' = phase
            BY <2>2 DEF GetResponse, shutdownVars, TypeOK
        <3>2. \A s \in Sides : c \notin waiters'[s]
            BY <3>1 DEF TypeOK, WaitersAreCalls
        <3>3. \A s \in Sides : waiters'[s] \subseteq waiters[s] /\ waiters[s] \subseteq Calls
            BY <3>1 DEF TypeOK
        <3> QED BY <3>1, <3>2, <3>3, WaitersKept DEF Broken
    <2>3. CASE Interrupt(c)
        <3>1. /\ pc' = [pc EXCEPT ![c] = "killed"]
              /\ \A s \in Sides : waiters'[s] \subseteq waiters[s] /\ waiters[s] \subseteq Calls
            BY <2>3 DEF Interrupt, TypeOK
        <3>2. \A s \in Sides : Broken(s)' => Broken(s)
            BY <2>3 DEF Interrupt, Closers, Broken, TypeOK
        <3> QED BY <3>1, <3>2, WaitersKept DEF TypeOK
    <2>4. CASE SendFailed(c)
        <3>1. CASE Broken(Caller[c])
            <4>1. pc' = [pc EXCEPT ![c] = "disconnected"] /\ UNCHANGED <<waiters, phase>>
                BY <2>4, <3>1 DEF SendFailed, shutdownVars
            <4>2. \A s \in Sides : c \notin waiters[s]
                BY <3>1 DEF WaitersAreCalls
            <4> QED BY <4>1, <4>2, WaitersKept DEF TypeOK, Broken
        <3>2. CASE ~Broken(Caller[c])
            <4>1. /\ pc' = [pc EXCEPT ![c] = "closing"]
                  /\ waiters' = [waiters EXCEPT ![Caller[c]] = {}]
                  /\ phase' = [phase EXCEPT ![Caller[c]] = "killing"]
                BY <2>4, <3>2 DEF SendFailed, BeginShutdown
            <4>2. \A s \in Sides : c \notin waiters'[s]
                BY <4>1 DEF WaitersAreCalls, TypeOK
            <4> QED BY <4>1, <4>2, WaitersKept DEF TypeOK, Broken
        <3> QED BY <3>1, <3>2
    <2>5. CASE ~SendRequest(c) /\ ~GetResponse(c) /\ ~Interrupt(c) /\ ~SendFailed(c)
        <3>1. /\ UNCHANGED <<waiters, phase>>
              /\ \A d \in Calls : d # c => pc'[d] = pc[d]
            BY <1>1, <2>5 DEF CallStep, Enter, OpenStream, CannotPack, GiveUp, RequestSent,
                TypeOK, shutdownVars
        <3>2. \/ pc[c] \in {"idle", "header", "channel"}
              \/ Broken(Caller[c])
              \/ pc'[c] = "waiting"
            BY <1>1, <2>5 DEF CallStep, Enter, OpenStream, CannotPack, GiveUp, RequestSent,
                ReadyToSend, TypeOK
        <3>3. \A s \in Sides : c \in waiters[s] => pc'[c] = "waiting"
            BY <3>2 DEF WaitersAreCalls
        <3>4. \A s \in Sides : waiters[s] \subseteq Calls
            BY DEF TypeOK
        <3> QED BY <3>1, <3>3, <3>4, WaitersKept DEF Broken
    <2> QED BY <2>1, <2>2, <2>3, <2>4, <2>5
<1>2. ASSUME NEW c \in Calls, HandlerStep(c)
      PROVE  WaitersAreCalls'
    <2>1. /\ phase' = phase /\ waiters' = waiters
          /\ \A d \in Calls : pc'[d] = pc[d] \/ pc'[d] = "killed"
        BY <1>2 DEF HandlerStep, Reject, Accept, BadChannel, Answer, OpenResult, AnswerStream,
                CannotAnswer, HandlerBroken, ResponseSent, KillHandler, shutdownVars, callerVars
    <2> QED BY <2>1, WaitersKept DEF Broken, TypeOK
<1>3. ASSUME NEW s \in Sides, PeerStep(s)
      PROVE  WaitersAreCalls'
    <2>1. CASE EndOfPackets(s) \/ UserShutdown(s)
        <3>1. /\ pc' = pc /\ waiters' = [waiters EXCEPT ![s] = {}]
              /\ phase' = [phase EXCEPT ![s] = "killing"]
            BY <2>1 DEF EndOfPackets, UserShutdown, BeginShutdown
        <3> QED BY <3>1, WaitersKept DEF TypeOK, Broken
    <2>2. CASE Abort(s)
        <3>1. /\ waiters' = waiters
              /\ phase[s] = "killing" /\ phase' = [phase EXCEPT ![s] = "aborted"]
              /\ \A d \in Calls : pc'[d] = IF d = closer[s] THEN "disconnected" ELSE pc[d]
            BY <2>2 DEF Abort
        <3>2. \A t \in Sides : Broken(t)' => Broken(t)
            BY <3>1 DEF Broken, TypeOK
        <3>3. \A t \in Sides : closer[s] \notin waiters[t]
            BY <3>1, CallsAssumption DEF Closers, WaitersAreCalls, TypeOK
        <3> QED BY <3>1, <3>2, <3>3, WaitersKept DEF TypeOK
    <2>3. CASE Remove(s)
        <3>1. /\ waiters' = waiters /\ pc' = pc
              /\ phase[s] = "aborted" /\ phase' = [phase EXCEPT ![s] = "removed"]
            BY <2>3 DEF Remove, callerVars
        <3>2. \A t \in Sides : Broken(t)' => Broken(t)
            BY <3>1 DEF Broken, TypeOK
        <3> QED BY <3>1, <3>2, WaitersKept
    <2>4. CASE UNCHANGED <<waiters, pc, phase>>
        BY <2>4, WaitersKept DEF Broken
    <2> QED BY <1>3, <2>1, <2>2, <2>3, <2>4 DEF PeerStep, Dispatch, Deliver, ChannelMade,
                ChannelDestroyed, callerVars, shutdownVars
<1>4. CASE UNCHANGED vars \/ LinkFails \/ \E ch \in Channels : DropStream(ch)
    <2>1. UNCHANGED <<waiters, pc, phase>>
        BY <1>4 DEF vars, LinkFails, DropStream, callerVars, shutdownVars
    <2> QED BY <2>1, WaitersKept DEF Broken
<1> QED BY <1>1, <1>2, <1>3, <1>4 DEF Next

\* The inductive invariant of the caller side.
CallerInv == TypeOK /\ RepliesExist /\ Closers /\ CallersReachable /\ WaitersAreCalls

LEMMA CallerInvHolds == Spec => []CallerInv
<1>1. Init => CallerInv
    BY DEF Init, CallerInv, TypeOK, Phases, CallerActive, HandlerActive, RepliesExist, InWire,
           Closers, CallersReachable, WaitersAreCalls
<1>2. CallerInv /\ [Next]_vars => CallerInv'
    BY TypeStep, RepliesStep, ClosersStep, CallersReachableStep, WaitersAreCallsStep
       DEF CallerInv
<1> QED BY <1>1, <1>2, PTL DEF Spec

\* A blocked caller without a response can always be reached by one, or by shutdown().
THEOREM BlockedCallersReachable == Spec => []CallersReachable
BY CallerInvHolds, PTL DEF CallerInv

\* A waiter belongs to a call of its side, the side is not broken, and the call waits or
\* was killed.
THEOREM WaitersBelongToCalls == Spec => []WaitersAreCalls
BY CallerInvHolds, PTL DEF CallerInv

-----------------------------------------------------------------------------
(* Requests and handlers *)

Requested(c) == pc[c] \notin {"idle", "header", "channel"}

\* A handler exists only for a call that was sent, has a reply once it answers, and its
\* method waits in a call of its own only while it runs.
HandlersFollow ==
    \A c \in Calls :
        /\ hpc[c] # "none" => Requested(c)
        /\ reply[c] # "none" => hpc[c] \in {"sending", "sent", "gone"}
        /\ hpc[c] \in {"sending", "sent"} => reply[c] # "none"
        /\ hpc[c] # "running" => Inner(c) = {}

\* A request travels once, and before its handler exists.
RequestsOnce ==
    /\ \A s \in Sides : \A c \in Calls :
         InWire(s, Request(c)) => hpc[c] = "none" /\ Requested(c)
    /\ \A s, t \in Sides : \A c \in Calls :
         \A i \in 1..Len(wire[s]) : \A j \in 1..Len(wire[t]) :
             wire[s][i] = Request(c) /\ wire[t][j] = Request(c) => s = t /\ i = j

\* A call that was sent stays sent.
LEMMA RequestedForever ==
    ASSUME TypeOK, RepliesExist, [Next]_vars, NEW c \in Calls, Requested(c)
    PROVE  Requested(c)'
<1> USE DEF Requested
<1>1. ASSUME NEW d \in Calls, CallStep(d)
      PROVE  Requested(c)'
    <2>1. CASE GetResponse(d)
        BY <2>1 DEF GetResponse, Outcome, RepliesExist, TypeOK, Replies
    <2>2. CASE ~GetResponse(d)
        BY <1>1, <2>2 DEF CallStep, Enter, OpenStream, SendRequest, CannotPack, GiveUp,
            RequestSent, SendFailed, Interrupt, ReadyToSend, TypeOK
    <2> QED BY <2>1, <2>2
<1>2. ASSUME NEW d \in Calls, HandlerStep(d)
      PROVE  Requested(c)'
    BY <1>2 DEF HandlerStep, Reject, Accept, BadChannel, Answer, OpenResult, AnswerStream,
            CannotAnswer, HandlerBroken, ResponseSent, KillHandler, callerVars
<1>3. ASSUME NEW s \in Sides, PeerStep(s)
      PROVE  Requested(c)'
    BY <1>3 DEF PeerStep, Dispatch, Deliver, EndOfPackets, ChannelMade, ChannelDestroyed,
            UserShutdown, Abort, Remove, callerVars
<1>4. CASE UNCHANGED vars \/ LinkFails \/ \E ch \in Channels : DropStream(ch)
    BY <1>4 DEF vars, LinkFails, DropStream, callerVars
<1> QED BY <1>1, <1>2, <1>3, <1>4 DEF Next

\* A call becomes active only by entering.
LEMMA ActiveByEntering ==
    ASSUME TypeOK, RepliesExist, [Next]_vars, NEW d \in Calls, pc'[d] \in CallerActive
    PROVE  pc[d] \in CallerActive \/ Enter(d)
<1> USE DEF CallerActive
<1>1. ASSUME NEW c \in Calls, CallStep(c), ~Enter(d)
      PROVE  pc[d] \in CallerActive
    <2>1. CASE c # d
        BY <1>1, <2>1 DEF CallStep, Enter, OpenStream, SendRequest, CannotPack, GiveUp,
            RequestSent, SendFailed, GetResponse, Interrupt, TypeOK
    <2>2. CASE c = d /\ ~GetResponse(d)
        BY <1>1, <2>2 DEF CallStep, OpenStream, SendRequest, CannotPack, GiveUp,
            RequestSent, SendFailed, Interrupt, ReadyToSend, TypeOK
    <2>3. CASE c = d /\ GetResponse(d)
        BY <2>3 DEF GetResponse
    <2> QED BY <2>1, <2>2, <2>3
<1>2. ASSUME NEW c \in Calls, HandlerStep(c)
      PROVE  pc[d] \in CallerActive
    BY <1>2 DEF HandlerStep, Reject, Accept, BadChannel, Answer, OpenResult, AnswerStream,
            CannotAnswer, HandlerBroken, ResponseSent, KillHandler, callerVars
<1>3. ASSUME NEW s \in Sides, PeerStep(s)
      PROVE  pc[d] \in CallerActive
    BY <1>3 DEF PeerStep, Dispatch, Deliver, EndOfPackets, ChannelMade, ChannelDestroyed,
            UserShutdown, Abort, Remove, callerVars
<1>4. CASE UNCHANGED vars \/ LinkFails \/ \E ch \in Channels : DropStream(ch)
    BY <1>4 DEF vars, LinkFails, DropStream, callerVars
<1> QED BY <1>1, <1>2, <1>3, <1>4 DEF Next

\* The calls a method waits in become more only while the method runs.
LEMMA InnerGrows ==
    ASSUME TypeOK, RepliesExist, HandlersFollow, [Next]_vars, NEW p \in Calls,
           hpc[p] # "running"
    PROVE  Inner(p)' = {}
<1> SUFFICES ASSUME NEW d \in Calls, Inside[d] = p, pc'[d] \in CallerActive
             PROVE  FALSE
    BY DEF Inner
<1>1. CASE pc[d] \in CallerActive
    BY <1>1 DEF HandlersFollow, Inner
<1>2. CASE Enter(d)
    BY <1>2, CallsAssumption DEF Enter, MayCall
<1> QED BY <1>1, <1>2, ActiveByEntering

LEMMA HandlersFollowStep ==
    ASSUME TypeOK, RepliesExist, HandlersFollow, RequestsOnce, [Next]_vars
    PROVE  HandlersFollow'
<1> SUFFICES ASSUME NEW c \in Calls
             PROVE  /\ hpc'[c] # "none" => Requested(c)'
                    /\ reply'[c] # "none" => hpc'[c] \in {"sending", "sent", "gone"}
                    /\ hpc'[c] \in {"sending", "sent"} => reply'[c] # "none"
                    /\ hpc'[c] # "running" => Inner(c)' = {}
    BY DEF HandlersFollow
<1>0. /\ hpc[c] # "none" => Requested(c)'
      /\ reply[c] # "none" => hpc[c] \in {"sending", "sent", "gone"}
      /\ hpc[c] \in {"sending", "sent"} => reply[c] # "none"
      /\ hpc[c] # "running" => Inner(c)' = {}
    BY RequestedForever, InnerGrows DEF HandlersFollow
<1>1. CASE hpc'[c] = hpc[c] /\ reply'[c] = reply[c]
    BY <1>0, <1>1
<1>2. ASSUME HandlerStep(c)
      PROVE  /\ (hpc[c] # "none" /\ hpc'[c] \notin {"none", "running"}) \/ Accept(c)
             /\ reply'[c] # "none" => hpc'[c] \in {"sending", "sent", "gone"}
             /\ hpc'[c] \in {"sending", "sent"} => reply'[c] # "none"
             /\ hpc[c] = "running" => Inner(c)' = {}
    <2>1. CASE KillHandler(c)
        <3>1. /\ hpc'[c] = "gone" /\ reply' = reply /\ hpc[c] # "none"
              /\ \A d \in Calls : d \in Inner(c) => pc'[d] = "killed"
              /\ \A d \in Calls : d \notin Inner(c) => pc'[d] = pc[d]
            BY <2>1 DEF KillHandler, TypeOK, HandlerActive
        <3>2. Inner(c)' = {}
            BY <3>1 DEF Inner, CallerActive
        <3> QED BY <3>1, <3>2
    <2>2. CASE \E kind \in Replies : Respond(c, kind)
        <3>1. hpc'[c] = "sending" /\ reply'[c] # "none"
            BY <2>2 DEF Respond, TypeOK, Replies
        <3>2. hpc[c] = "running" => Inner(c)' = {}
            BY <1>2, <2>2, <3>1 DEF HandlerStep, Reject, Accept, BadChannel, Answer, OpenResult,
                AnswerStream, CannotAnswer, HandlerBroken, ResponseSent, KillHandler,
                MethodEnds, Inner, callerVars, TypeOK
        <3>3. hpc[c] # "none"
            BY <1>2 DEF HandlerStep, Reject, Accept, BadChannel, Answer, OpenResult,
                AnswerStream, CannotAnswer, HandlerBroken, ResponseSent, KillHandler,
                MethodEnds, HandlerActive
        <3> QED BY <3>1, <3>2, <3>3
    <2>3. CASE Accept(c)
        BY <2>3, <1>0 DEF Accept, TypeOK
    <2>4. CASE Reject(c) \/ ResponseSent(c)
        BY <2>4, <1>0 DEF Reject, ResponseSent, TypeOK
    <2>5. CASE OpenResult(c) \/ CannotAnswer(c) \/ HandlerBroken(c)
        BY <2>5, <1>0 DEF OpenResult, CannotAnswer, HandlerBroken, TypeOK, MethodEnds, Inner,
            callerVars
    <2> QED BY <1>2, <2>1, <2>2, <2>3, <2>4, <2>5
            DEF HandlerStep, BadChannel, Answer, AnswerStream, Replies
<1>3. CASE HandlerStep(c)
    <2>1. CASE Accept(c)
        <3>1. hpc[c] = "spawned" /\ hpc'[c] = "running" /\ reply' = reply
            BY <2>1 DEF Accept, TypeOK
        <3> QED BY <1>0, <3>1
    <2>2. CASE hpc[c] # "none" /\ hpc'[c] \notin {"none", "running"}
        BY <1>0, <1>2, <1>3, <2>2
    <2> QED BY <1>2, <1>3, <2>1, <2>2
<1>4. ASSUME NEW d \in Calls, d # c, HandlerStep(d)
      PROVE  hpc'[c] = hpc[c] /\ reply'[c] = reply[c]
    BY <1>4 DEF HandlerStep, Reject, Accept, BadChannel, Answer, OpenResult, AnswerStream,
            CannotAnswer, HandlerBroken, ResponseSent, KillHandler, Respond, TypeOK
<1>5. ASSUME NEW d \in Calls, CallStep(d)
      PROVE  hpc'[c] = hpc[c] /\ reply'[c] = reply[c]
    BY <1>5 DEF CallStep, Enter, OpenStream, SendRequest, CannotPack, GiveUp, RequestSent,
            SendFailed, GetResponse, Interrupt, handlerVars
<1>6. ASSUME NEW s \in Sides, Dispatch(s)
      PROVE  \/ hpc'[c] = hpc[c] /\ reply'[c] = reply[c]
             \/ hpc[c] = "none" /\ hpc'[c] = "spawned" /\ reply' = reply /\ Requested(c)
    <2>1. LET d == Head(wire[s]).call IN
          hpc' = [hpc EXCEPT ![d] = "spawned"] /\ hpc[d] = "none" /\ Requested(d)
        BY <1>6, HeadContents, ReadType DEF Dispatch, Arrives, RequestsOnce
    <2>2. reply' = reply
        BY <1>6 DEF Dispatch
    <2> QED BY <2>1, <2>2 DEF TypeOK
<1>7. CASE hpc[c] = "none" /\ hpc'[c] = "spawned" /\ reply' = reply /\ Requested(c)
    BY <1>0, <1>7, RequestedForever
<1>8. ASSUME NEW s \in Sides, PeerStep(s), ~Dispatch(s)
      PROVE  hpc'[c] = hpc[c] /\ reply'[c] = reply[c]
    BY <1>8 DEF PeerStep, Deliver, EndOfPackets, ChannelMade, ChannelDestroyed,
            UserShutdown, Abort, Remove, handlerVars
<1>9. CASE UNCHANGED vars \/ LinkFails \/ \E ch \in Channels : DropStream(ch)
    BY <1>9, <1>1 DEF vars, LinkFails, DropStream, handlerVars
<1> QED BY <1>1, <1>3, <1>4, <1>5, <1>6, <1>7, <1>8, <1>9 DEF Next

\* Where a packet that travels after a send, or after a read, was before.
LEMMA SendPlaces ==
    ASSUME TypeOK, NEW s \in Sides, NEW p \in Packets, wire' = WireWith(s, p),
           NEW t \in Sides, NEW i \in 1..Len(wire'[t])
    PROVE  \/ i \in 1..Len(wire[t]) /\ wire[t][i] = wire'[t][i]
           \/ t = Other(s) /\ i = Len(wire[t]) + 1 /\ wire'[t][i] = p
<1>1. wire[t] \in Seq(Packets)
    BY DEF TypeOK
<1>2. wire'[t] = wire[t] \/ (t = Other(s) /\ wire'[t] = Append(wire[t], p))
    BY DEF WireWith, TypeOK
<1> QED BY <1>1, <1>2

LEMMA ReadPlaces ==
    ASSUME TypeOK, NEW s \in Sides, wire[s] # <<>>, wire' = WireRead(s),
           NEW t \in Sides, NEW i \in 1..Len(wire'[t])
    PROVE  LET j == IF t = s THEN i + 1 ELSE i IN
           j \in 1..Len(wire[t]) /\ wire[t][j] = wire'[t][i]
<1>1. wire[s] \in Seq(Packets) /\ wire[t] \in Seq(Packets)
    BY DEF TypeOK
<1>2. wire'[t] = IF t = s THEN Tail(wire[s]) ELSE wire[t]
    BY DEF TypeOK, WireRead
<1> QED BY <1>1, <1>2

RequestsUnique ==
    \A s, t \in Sides : \A c \in Calls :
        \A i \in 1..Len(wire[s]) : \A j \in 1..Len(wire[t]) :
            wire[s][i] = Request(c) /\ wire[t][j] = Request(c) => s = t /\ i = j

\* A request that does not travel yet may be sent; nothing else makes a second one.
LEMMA RequestsUniqueKept ==
    ASSUME TypeOK, RequestsUnique,
           \/ wire' = wire
           \/ \E s \in Sides : wire[s] # <<>> /\ wire' = WireRead(s)
           \/ \E s \in Sides : wire' = [wire EXCEPT ![s] = <<>>]
           \/ \E s \in Sides : \E p \in Packets :
                /\ wire' = WireWith(s, p)
                /\ \A c \in Calls : p = Request(c) => \A t \in Sides : ~InWire(t, p)
    PROVE  RequestsUnique'
<1> SUFFICES ASSUME NEW s \in Sides, NEW t \in Sides, NEW c \in Calls,
                    NEW i \in 1..Len(wire'[s]), NEW j \in 1..Len(wire'[t]),
                    wire'[s][i] = Request(c), wire'[t][j] = Request(c)
             PROVE  s = t /\ i = j
    BY DEF RequestsUnique
<1>1. CASE wire' = wire
    BY <1>1 DEF RequestsUnique
<1>2. ASSUME NEW r \in Sides, wire[r] # <<>>, wire' = WireRead(r)
      PROVE  s = t /\ i = j
    <2> DEFINE at(x, k) == IF x = r THEN k + 1 ELSE k
    <2>1. /\ at(s, i) \in 1..Len(wire[s]) /\ wire[s][at(s, i)] = Request(c)
          /\ at(t, j) \in 1..Len(wire[t]) /\ wire[t][at(t, j)] = Request(c)
        BY <1>2, ReadPlaces
    <2>2. s = t /\ at(s, i) = at(t, j)
        BY <2>1 DEF RequestsUnique
    <2> QED BY <2>2
<1>3. ASSUME NEW r \in Sides, wire' = [wire EXCEPT ![r] = <<>>]
      PROVE  s = t /\ i = j
    <2>1. s # r /\ t # r /\ wire'[s] = wire[s] /\ wire'[t] = wire[t]
        BY <1>3 DEF TypeOK
    <2> QED BY <2>1 DEF RequestsUnique
<1>4. ASSUME NEW r \in Sides, NEW p \in Packets, wire' = WireWith(r, p),
             \A d \in Calls : p = Request(d) => \A u \in Sides : ~InWire(u, p)
      PROVE  s = t /\ i = j
    <2>1. \/ i \in 1..Len(wire[s]) /\ wire[s][i] = Request(c)
          \/ s = Other(r) /\ i = Len(wire[s]) + 1 /\ Request(c) = p
        BY <1>4, SendPlaces
    <2>2. \/ j \in 1..Len(wire[t]) /\ wire[t][j] = Request(c)
          \/ t = Other(r) /\ j = Len(wire[t]) + 1 /\ Request(c) = p
        BY <1>4, SendPlaces
    <2>3. CASE Request(c) = p
        BY <1>4, <2>1, <2>2, <2>3 DEF InWire
    <2>4. CASE Request(c) # p
        BY <2>1, <2>2, <2>4 DEF RequestsUnique
    <2> QED BY <2>3, <2>4
<1> QED BY <1>1, <1>2, <1>3, <1>4

\* What a step of the system does to the wires.
LEMMA WireSteps ==
    ASSUME TypeOK, RepliesExist, [Next]_vars
    PROVE  \/ wire' = wire
           \/ \E s \in Sides : wire[s] # <<>> /\ wire' = WireRead(s)
           \/ \E s \in Sides : wire' = [wire EXCEPT ![s] = <<>>]
           \/ \E s \in Sides : \E p \in Packets :
                /\ wire' = WireWith(s, p)
                /\ \A c \in Calls : p = Request(c) => SendRequest(c)
<1> USE SideTypes, PacketTypes, PacketsDiffer
<1> DEFINE Goal == \/ wire' = wire
                   \/ \E s \in Sides : wire[s] # <<>> /\ wire' = WireRead(s)
                   \/ \E s \in Sides : wire' = [wire EXCEPT ![s] = <<>>]
                   \/ \E s \in Sides : \E p \in Packets :
                        /\ wire' = WireWith(s, p)
                        /\ \A c \in Calls : p = Request(c) => SendRequest(c)
<1>1. ASSUME NEW c \in Calls, CallStep(c) PROVE Goal
    <2>1. CASE OpenStream(c)
        BY <2>1 DEF OpenStream
    <2>2. CASE SendRequest(c)
        <3>1. wire' = WireWith(Caller[c], Request(c))
            BY <2>2 DEF SendRequest
        <3>2. \A d \in Calls : Request(c) = Request(d) => SendRequest(d)
            BY <2>2
        <3> QED BY <3>1, <3>2
    <2>3. CASE ~OpenStream(c) /\ ~SendRequest(c)
        BY <1>1, <2>3 DEF CallStep, Enter, CannotPack, GiveUp, RequestSent, SendFailed,
            GetResponse, Interrupt, channelVars
    <2> QED BY <2>1, <2>2, <2>3
<1>2. ASSUME NEW c \in Calls, HandlerStep(c) PROVE Goal
    <2>1. CASE \E kind \in Replies : Respond(c, kind)
        BY <2>1 DEF Respond
    <2>2. CASE OpenResult(c)
        BY <2>2 DEF OpenResult
    <2>3. CASE Reject(c) \/ Accept(c) \/ CannotAnswer(c) \/ HandlerBroken(c)
               \/ ResponseSent(c) \/ KillHandler(c)
        BY <2>3 DEF Reject, Accept, CannotAnswer, HandlerBroken, ResponseSent, KillHandler,
            channelVars
    <2> QED BY <1>2, <2>1, <2>2, <2>3 DEF HandlerStep, BadChannel, Answer, AnswerStream, Replies
<1>3. ASSUME NEW s \in Sides, PeerStep(s) PROVE Goal
    BY <1>3 DEF PeerStep, Dispatch, Deliver, EndOfPackets, ChannelMade, ChannelDestroyed,
            UserShutdown, Abort, Remove, Arrives, channelVars
<1>4. ASSUME NEW ch \in Channels, DropStream(ch) PROVE Goal
    <2>1. Maker(ch) \in Sides
        BY DEF Maker
    <2> QED BY <1>4, <2>1 DEF DropStream
<1>5. CASE UNCHANGED vars \/ LinkFails
    BY <1>5 DEF vars, LinkFails, channelVars
<1> QED BY <1>1, <1>2, <1>3, <1>4, <1>5 DEF Next

LEMMA RequestsOnceStep ==
    ASSUME TypeOK, RepliesExist, HandlersFollow, RequestsOnce, [Next]_vars
    PROVE  RequestsOnce'
<1> USE SideTypes, PacketTypes, PacketsDiffer
<1>1. RequestsUnique
    BY DEF RequestsOnce, RequestsUnique
<1>2. \A c \in Calls : SendRequest(c) => hpc[c] = "none" /\ ~Requested(c) /\ Requested(c)'
    BY DEF SendRequest, ReadyToSend, HandlersFollow, Requested, TypeOK
<1>3. \A c \in Calls : SendRequest(c) => \A t \in Sides : ~InWire(t, Request(c))
    BY <1>2 DEF RequestsOnce
<1>4. RequestsUnique'
    BY <1>1, <1>3, WireSteps, RequestsUniqueKept
<1>5. ASSUME NEW s \in Sides, NEW c \in Calls, InWire(s, Request(c))'
      PROVE  hpc'[c] = "none" /\ Requested(c)'
    <2>1. InWire(s, Request(c)) \/ SendRequest(c)
        <3>1. CASE wire' = wire
            BY <1>5, <3>1 DEF InWire
        <3>2. ASSUME NEW t \in Sides, wire[t] # <<>>, wire' = WireRead(t)
              PROVE  InWire(s, Request(c))
            BY <1>5, <3>2, ReadContents
        <3>3. ASSUME NEW t \in Sides, wire' = [wire EXCEPT ![t] = <<>>]
              PROVE  InWire(s, Request(c))
            <4>1. wire'[s] = IF s = t THEN <<>> ELSE wire[s]
                BY <3>3 DEF TypeOK
            <4> QED BY <1>5, <4>1 DEF InWire
        <3>4. ASSUME NEW t \in Sides, NEW p \in Packets, wire' = WireWith(t, p),
                     \A d \in Calls : p = Request(d) => SendRequest(d)
              PROVE  InWire(s, Request(c)) \/ SendRequest(c)
            BY <1>5, <3>4, SendContents
        <3> QED BY <3>1, <3>2, <3>3, <3>4, WireSteps
    <2>2. hpc[c] = "none" /\ Requested(c)'
        BY <1>2, <2>1, RequestedForever DEF RequestsOnce
    <2>3. hpc'[c] = "none"
        <3>1. ASSUME NEW d \in Calls, CallStep(d) PROVE hpc'[c] = "none"
            BY <2>2, <3>1 DEF CallStep, Enter, OpenStream, SendRequest, CannotPack, GiveUp,
                RequestSent, SendFailed, GetResponse, Interrupt, handlerVars
        <3>2. ASSUME NEW d \in Calls, HandlerStep(d) PROVE hpc'[c] = "none"
            <4>1. hpc[d] # "none"
                BY <3>2 DEF HandlerStep, Reject, Accept, BadChannel, Answer, OpenResult,
                    AnswerStream, CannotAnswer, HandlerBroken, ResponseSent, KillHandler,
                    MethodEnds, HandlerActive
            <4> QED BY <2>2, <3>2, <4>1 DEF HandlerStep, Reject, Accept, BadChannel, Answer,
                    OpenResult, AnswerStream, CannotAnswer, HandlerBroken, ResponseSent,
                    KillHandler, Respond, TypeOK
        <3>3. ASSUME NEW t \in Sides, Dispatch(t) PROVE hpc'[c] = "none"
            <4>1. wire[t] # <<>> /\ wire' = WireRead(t)
                  /\ hpc' = [hpc EXCEPT ![Head(wire[t]).call] = "spawned"]
                  /\ Head(wire[t]).type = "request"
                BY <3>3 DEF Dispatch, Arrives
            <4>2. CASE Head(wire[t]).call = c
                <5>1. /\ wire[t] \in Seq(Packets)
                      /\ Head(wire[t]) = Request(c)
                    BY <4>1, <4>2, HeadContents DEF TypeOK
                <5>2. 1 \in 1..Len(wire[t]) /\ wire[t][1] = Request(c)
                    BY <4>1, <5>1
                <5>3. PICK i \in 1..Len(wire'[s]) : wire'[s][i] = Request(c)
                    BY <1>5 DEF InWire
                <5>4. PICK j \in 1..Len(wire[s]) :
                        wire[s][j] = Request(c) /\ (s = t => j = i + 1)
                    BY <4>1, <5>3, ReadPlaces
                <5>5. s = t /\ j = 1
                    BY <1>1, <5>2, <5>4 DEF RequestsUnique
                <5> QED BY <5>3, <5>4, <5>5
            <4>3. CASE Head(wire[t]).call # c
                BY <2>2, <4>1, <4>3 DEF TypeOK
            <4> QED BY <4>2, <4>3
        <3>4. ASSUME NEW t \in Sides, PeerStep(t), ~Dispatch(t) PROVE hpc'[c] = "none"
            BY <2>2, <3>4 DEF PeerStep, Deliver, EndOfPackets, ChannelMade, ChannelDestroyed,
                UserShutdown, Abort, Remove, handlerVars
        <3>5. CASE UNCHANGED vars \/ LinkFails \/ \E ch \in Channels : DropStream(ch)
            BY <2>2, <3>5 DEF vars, LinkFails, DropStream, handlerVars
        <3> QED BY <3>1, <3>2, <3>3, <3>4, <3>5 DEF Next
    <2> QED BY <2>2, <2>3
<1> QED BY <1>4, <1>5 DEF RequestsOnce, RequestsUnique

\* The inductive invariant behind the refinement.
CallInv == TypeOK /\ RepliesExist /\ Closers /\ HandlersFollow /\ RequestsOnce

LEMMA CallInvInit == Init => CallInv
    BY DEF Init, CallInv, TypeOK, Phases, CallerActive, HandlerActive, RepliesExist, InWire,
           Closers, HandlersFollow, RequestsOnce, Inner

LEMMA CallInvStep == CallInv /\ [Next]_vars => CallInv'
    BY TypeStep, RepliesStep, ClosersStep, HandlersFollowStep, RequestsOnceStep DEF CallInv

LEMMA CallInvHolds == Spec => []CallInv
    BY CallInvInit, CallInvStep, PTL DEF Spec

-----------------------------------------------------------------------------
(* The peers implement RpcCall *)

\* A step that changes no view is a stutter of RpcCall.
LEMMA NoViewStep ==
    ASSUME \A d \in Calls : /\ ClientOf(pc'[d]) = ClientOf(pc[d])
                            /\ ServerOf(reply'[d], hpc'[d]) = ServerOf(reply[d], hpc[d])
    PROVE  UNCHANGED <<ClientView, ServerView>>
    BY DEF ClientView, ServerView

\* A step that moves the client of one call, and no server.
LEMMA ClientViewStep ==
    ASSUME NEW c \in Calls, NEW to, pc' = [pc EXCEPT ![c] = to], TypeOK,
           UNCHANGED <<hpc, reply>>
    PROVE  /\ ClientView' = [ClientView EXCEPT ![c] = ClientOf(to)]
           /\ UNCHANGED ServerView
    BY DEF ClientView, ServerView, TypeOK

\* A step that moves the handler of one call, and no client.
LEMMA ServerViewStep ==
    ASSUME NEW c \in Calls, NEW to, NEW answer, TypeOK, UNCHANGED pc,
           hpc' = [hpc EXCEPT ![c] = to], reply' = [reply EXCEPT ![c] = answer]
    PROVE  /\ ServerView' = [ServerView EXCEPT ![c] = ServerOf(answer, to)]
           /\ UNCHANGED ClientView
    BY DEF ClientView, ServerView, TypeOK

\* A caller that fails, or that gets a reply.
LEMMA Failing ==
    ASSUME TypeOK, NEW c \in Calls, NEW to \in CallerEnded \ {"value", "stream", "exception"},
           pc' = [pc EXCEPT ![c] = to], pc[c] \in {"idle"} \cup CallerActive,
           UNCHANGED <<hpc, reply>>
    PROVE  Abstract!RpcNext
<1>1. /\ ClientView' = [ClientView EXCEPT ![c] = "failed"]
      /\ UNCHANGED ServerView
    BY ClientViewStep DEF ClientOf, CallerActive, CallerEnded
<1>2. ClientView[c] \in {"idle", "pending"}
    BY DEF ClientView, ClientOf
<1>3. Abstract!Fail(c)
    BY <1>1, <1>2 DEF Abstract!Fail
<1> QED BY <1>3 DEF Abstract!RpcNext

\* A blocked caller that stays blocked.
LEMMA Blocked ==
    ASSUME TypeOK, NEW c \in Calls, NEW to \in CallerActive, pc[c] \in CallerActive,
           pc' = [pc EXCEPT ![c] = to], UNCHANGED <<hpc, reply>>
    PROVE  UNCHANGED <<ClientView, ServerView>>
    BY NoViewStep DEF TypeOK, ClientOf, CallerActive

LEMMA CallRefines ==
    ASSUME CallInv, NEW c \in Calls, CallStep(c)
    PROVE  Abstract!RpcNext \/ UNCHANGED <<ClientView, ServerView>>
<1> USE DEF CallInv
<1>1. CASE Enter(c)
    <2>1. /\ pc[c] = "idle" /\ UNCHANGED <<hpc, reply>>
          /\ \/ pc' = [pc EXCEPT ![c] = "header"]
             \/ pc' = [pc EXCEPT ![c] = "disconnected"]
        BY <1>1 DEF Enter, handlerVars
    <2>2. CASE pc' = [pc EXCEPT ![c] = "header"]
        <3>1. ClientView' = [ClientView EXCEPT ![c] = "pending"] /\ UNCHANGED ServerView
            BY <2>1, <2>2, ClientViewStep DEF ClientOf, CallerActive
        <3>2. ClientView[c] = "idle"
            BY <2>1 DEF ClientView, ClientOf
        <3> QED BY <3>1, <3>2 DEF Abstract!RpcNext, Abstract!Invoke
    <2>3. CASE pc' = [pc EXCEPT ![c] = "disconnected"]
        BY <2>1, <2>3, Failing DEF CallerEnded
    <2> QED BY <2>1, <2>2, <2>3
<1>2. CASE OpenStream(c) \/ SendRequest(c)
    <2>1. /\ pc[c] \in CallerActive /\ UNCHANGED <<hpc, reply>>
          /\ \E to \in CallerActive : pc' = [pc EXCEPT ![c] = to]
        BY <1>2 DEF OpenStream, SendRequest, ReadyToSend, CallerActive, handlerVars
    <2> QED BY <2>1, Blocked
<1>3. CASE CannotPack(c) \/ GiveUp(c) \/ Interrupt(c)
    <2>1. /\ pc[c] \in CallerActive /\ UNCHANGED <<hpc, reply>>
          /\ \E to \in {"unpackable", "disconnected", "killed"} : pc' = [pc EXCEPT ![c] = to]
        BY <1>3 DEF CannotPack, GiveUp, Interrupt, ReadyToSend, CallerActive, handlerVars
    <2> QED BY <2>1, Failing DEF CallerEnded
<1>4. CASE RequestSent(c) \/ SendFailed(c)
    <2>1. /\ pc[c] \in CallerActive /\ UNCHANGED <<hpc, reply>>
          /\ \E to \in {"waiting", "closing", "disconnected"} : pc' = [pc EXCEPT ![c] = to]
        BY <1>4 DEF RequestSent, SendFailed, CallerActive, handlerVars
    <2> QED BY <2>1, Failing, Blocked DEF CallerEnded, CallerActive
<1>5. CASE GetResponse(c)
    <2>1. /\ pc[c] = "waiting" /\ UNCHANGED <<hpc, reply>>
          /\ pc' = [pc EXCEPT ![c] = Outcome(c)] /\ event[c] # NoReply
        BY <1>5 DEF GetResponse, handlerVars
    <2>2. CASE Outcome(c) \in {"disconnected", "lost"}
        BY <2>1, <2>2, Failing DEF CallerEnded, CallerActive
    <2>3. CASE Outcome(c) \notin {"disconnected", "lost"}
        <3>1. event[c] = c /\ reply[c] \in Replies /\ Outcome(c) = reply[c]
            BY <2>1, <2>3 DEF Outcome, RepliesExist, TypeOK
        <3>2. ClientView[c] = "pending" /\ ServerView[c] = reply[c]
            BY <2>1, <3>1 DEF ClientView, ServerView, ClientOf, ServerOf, CallerActive, Replies
        <3>3. /\ ClientView' = [ClientView EXCEPT ![c] = ClientOf(reply[c])]
              /\ UNCHANGED ServerView
            BY <2>1, <3>1, ClientViewStep
        <3>4. \/ reply[c] \in {"value", "stream"} /\ ClientOf(reply[c]) = "returned"
              \/ reply[c] = "exception" /\ ClientOf(reply[c]) = "raised"
            BY <3>1 DEF ClientOf, Replies, CallerActive
        <3>5. Abstract!Complete(c)
            BY <3>2, <3>3, <3>4 DEF Abstract!Complete
        <3> QED BY <3>5 DEF Abstract!RpcNext
    <2> QED BY <2>2, <2>3
<1> QED BY <1>1, <1>2, <1>3, <1>4, <1>5 DEF CallStep

\* A call with a handler was invoked.
LEMMA Invoked ==
    ASSUME CallInv, NEW c \in Calls, hpc[c] # "none"
    PROVE  ClientView[c] # "idle"
<1>1. pc[c] # "idle"
    BY DEF CallInv, HandlersFollow, Requested
<1> QED BY <1>1 DEF ClientView, ClientOf

LEMMA HandlerRefines ==
    ASSUME CallInv, NEW c \in Calls, HandlerStep(c)
    PROVE  Abstract!RpcNext \/ UNCHANGED <<ClientView, ServerView>>
<1> USE DEF CallInv
<1>1. CASE Reject(c) \/ CannotAnswer(c) \/ HandlerBroken(c)
    <2>1. /\ hpc[c] \in {"spawned", "running", "channel"} /\ UNCHANGED <<pc, reply>>
          /\ \E to \in {"gone", "refused"} : hpc' = [hpc EXCEPT ![c] = to]
        BY <1>1 DEF Reject, CannotAnswer, HandlerBroken, MethodEnds, callerVars
    <2>2. reply[c] = "none" /\ reply' = [reply EXCEPT ![c] = "none"]
        BY <2>1 DEF HandlersFollow, TypeOK
    <2>3. /\ ServerView' = [ServerView EXCEPT ![c] = "lost"]
          /\ ClientView' = [d \in Calls |-> IF d \in {} THEN "failed" ELSE ClientView[d]]
        BY <2>1, <2>2, ServerViewStep DEF ServerOf, ClientView
    <2>4. ServerView[c] \in {"none", "running"} /\ ClientView[c] # "idle"
        BY <2>1, <2>2, Invoked DEF ServerView, ServerOf
    <2>5. Abstract!Lose(c)
        <3> DEFINE none == {}
        <3>1. none \in SUBSET {d \in Calls : ClientView[d] = "pending"}
            OBVIOUS
        <3>2. ClientView' = [d \in Calls |-> IF d \in none THEN "failed" ELSE ClientView[d]]
            BY <2>3
        <3> HIDE DEF none
        <3> QED BY <2>3, <2>4, <3>1, <3>2 DEF Abstract!Lose
    <2> QED BY <2>5 DEF Abstract!RpcNext
<1>2. CASE Accept(c)
    <2>1. /\ hpc[c] = "spawned" /\ UNCHANGED <<pc, reply>>
          /\ hpc' = [hpc EXCEPT ![c] = "running"]
        BY <1>2 DEF Accept, callerVars
    <2>2. reply[c] = "none" /\ reply' = [reply EXCEPT ![c] = "none"]
        BY <2>1 DEF HandlersFollow, TypeOK
    <2>3. ServerView' = [ServerView EXCEPT ![c] = "running"] /\ UNCHANGED ClientView
        BY <2>1, <2>2, ServerViewStep DEF ServerOf
    <2>4. ServerView[c] = "none" /\ ClientView[c] # "idle"
        BY <2>1, <2>2, Invoked DEF ServerView, ServerOf
    <2> QED BY <2>3, <2>4 DEF Abstract!RpcNext, Abstract!Run
<1>3. CASE BadChannel(c) \/ Answer(c) \/ AnswerStream(c)
    <2>1. PICK kind \in Replies : Respond(c, kind) /\ (hpc[c] = "spawned" => kind = "exception")
        BY <1>3 DEF BadChannel, Answer, AnswerStream, MethodEnds, Replies
    <2>2. hpc[c] \in {"spawned", "running", "channel"} /\ UNCHANGED pc
        BY <1>3 DEF BadChannel, Answer, AnswerStream, MethodEnds, callerVars
    <2>3. reply[c] = "none"
        BY <2>2 DEF HandlersFollow
    <2>4. ServerView' = [ServerView EXCEPT ![c] = kind] /\ UNCHANGED ClientView
        BY <2>1, <2>2, ServerViewStep DEF Respond, ServerOf, Replies
    <2>5. /\ ServerView[c] = IF hpc[c] = "spawned" THEN "none" ELSE "running"
          /\ ClientView[c] # "idle"
        BY <2>2, <2>3, Invoked DEF ServerView, ServerOf
    <2>6. Abstract!Produce(c)
        BY <2>1, <2>4, <2>5 DEF Abstract!Produce, Abstract!Replies, Replies
    <2> QED BY <2>6 DEF Abstract!RpcNext
<1>4. CASE OpenResult(c) \/ ResponseSent(c)
    <2>1. /\ UNCHANGED <<pc, reply>>
          /\ \/ hpc[c] = "running" /\ hpc' = [hpc EXCEPT ![c] = "channel"]
             \/ hpc[c] = "sending" /\ hpc' = [hpc EXCEPT ![c] = "sent"]
        BY <1>4 DEF OpenResult, ResponseSent, MethodEnds, callerVars
    <2>2. hpc[c] = "sending" => reply[c] # "none"
        BY DEF HandlersFollow
    <2> QED BY <2>1, <2>2, NoViewStep DEF ServerOf, TypeOK
<1>5. CASE KillHandler(c)
    <2>1. /\ hpc[c] \in HandlerActive /\ hpc' = [hpc EXCEPT ![c] = "gone"]
          /\ pc' = [d \in Calls |-> IF d \in Inner(c) THEN "killed" ELSE pc[d]]
          /\ UNCHANGED reply
        BY <1>5 DEF KillHandler
    <2>2. CASE reply[c] # "none"
        <3>1. Inner(c) = {}
            BY <2>2 DEF HandlersFollow
        <3> QED BY <2>1, <2>2, <3>1, NoViewStep DEF ServerOf, TypeOK
    <2>3. CASE reply[c] = "none"
        <3>1. hpc[c] \in {"spawned", "running", "channel"}
            BY <2>1, <2>3 DEF HandlersFollow, HandlerActive
        <3>2. ServerView' = [ServerView EXCEPT ![c] = "lost"]
            BY <2>1, <2>3 DEF ServerView, ServerOf, TypeOK
        <3>3. ServerView[c] \in {"none", "running"} /\ ClientView[c] # "idle"
            BY <2>3, <3>1, Invoked DEF ServerView, ServerOf
        <3>4. Inner(c) \subseteq {d \in Calls : ClientView[d] = "pending"}
            BY DEF Inner, ClientView, ClientOf, CallerActive
        <3>5. ClientView' = [d \in Calls |-> IF d \in Inner(c) THEN "failed" ELSE ClientView[d]]
            BY <2>1 DEF ClientView, ClientOf, CallerActive
        <3>6. Abstract!Lose(c)
            BY <3>2, <3>3, <3>4, <3>5 DEF Abstract!Lose
        <3> QED BY <3>6 DEF Abstract!RpcNext
    <2> QED BY <2>2, <2>3
<1> QED BY <1>1, <1>2, <1>3, <1>4, <1>5 DEF HandlerStep

LEMMA PeerRefines ==
    ASSUME CallInv, NEW s \in Sides, PeerStep(s)
    PROVE  Abstract!RpcNext \/ UNCHANGED <<ClientView, ServerView>>
<1> USE DEF CallInv
<1>1. CASE Dispatch(s)
    <2>1. LET d == Head(wire[s]).call IN
          d \in Calls /\ hpc[d] = "none" /\ hpc' = [hpc EXCEPT ![d] = "spawned"]
        BY <1>1, HeadContents, ReadType DEF Dispatch, Arrives, RequestsOnce
    <2>2. UNCHANGED <<pc, reply>>
        BY <1>1 DEF Dispatch, callerVars
    <2> QED BY <2>1, <2>2, NoViewStep DEF ServerOf, TypeOK
<1>2. CASE Abort(s)
    <2>1. /\ phase[s] = "killing" /\ UNCHANGED <<hpc, reply>>
          /\ pc' = [c \in Calls |-> IF c = closer[s] THEN "disconnected" ELSE pc[c]]
        BY <1>2 DEF Abort, handlerVars
    <2>2. CASE closer[s] = NoCall
        <3>1. pc' = pc
            BY <2>1, <2>2, CallsAssumption DEF TypeOK
        <3> QED BY <2>1, <3>1, NoViewStep
    <2>3. CASE closer[s] # NoCall
        <3>1. closer[s] \in Calls /\ pc[closer[s]] = "closing"
            BY <2>1, <2>3 DEF Closers, TypeOK
        <3>2. pc' = [pc EXCEPT ![closer[s]] = "disconnected"]
            BY <2>1 DEF TypeOK
        <3> QED BY <2>1, <3>1, <3>2, Failing DEF CallerEnded, CallerActive
    <2> QED BY <2>2, <2>3
<1>3. CASE ~Dispatch(s) /\ ~Abort(s)
    <2>1. UNCHANGED <<pc, hpc, reply>>
        BY <1>3 DEF PeerStep, Deliver, EndOfPackets, ChannelMade, ChannelDestroyed,
            UserShutdown, Remove, callerVars, handlerVars
    <2> QED BY <2>1, NoViewStep
<1> QED BY <1>1, <1>2, <1>3

\* Two peers give each call what RpcCall promises: the caller gets the reply of the one
\* invocation of its own call, or fails.
THEOREM PeersImplementRpcCall == Spec => ImplementsRpcCall
<1>1. Init => Abstract!RpcInit
    BY DEF Init, Abstract!RpcInit, ClientView, ServerView, ClientOf, ServerOf
<1>2. ASSUME CallInv, [Next]_vars
      PROVE  Abstract!RpcNext \/ UNCHANGED <<ClientView, ServerView>>
    <2>1. CASE UNCHANGED vars \/ LinkFails \/ \E ch \in Channels : DropStream(ch)
        <3>1. UNCHANGED <<pc, hpc, reply>>
            BY <2>1 DEF vars, LinkFails, DropStream, callerVars, handlerVars
        <3> QED BY <3>1, NoViewStep
    <2> QED BY <1>2, <2>1, CallRefines, HandlerRefines, PeerRefines DEF Next
<1>3. CallInv /\ [Next]_vars => [Abstract!RpcNext]_(Abstract!callVars)
    BY <1>2 DEF Abstract!callVars
<1> QED BY <1>1, <1>3, CallInvHolds, PTL DEF Spec, ImplementsRpcCall, Abstract!RpcSpec

-----------------------------------------------------------------------------
(* Sub channels that wait to be claimed *)

\* Every x in q comes before every y.
Ahead(q, x, y) == \A i, j \in 1..Len(q) : q[i] = x /\ q[j] = y => i < j

\* What travels to a side, or waits there, is for that side.
Addressed ==
    \A s \in Sides :
        /\ \A ch \in Channels : ch \in pending[s] \/ InWire(s, Make(ch)) => s = Other(Maker(ch))
        /\ \A c \in Calls : /\ InWire(s, Request(c)) => s = Callee(c)
                            /\ InWire(s, Response(c)) => s = Caller[c]

\* A sub channel is announced before the packet that names it.
MadeBefore ==
    \A c \in Calls :
        /\ Ahead(wire[Callee(c)], Make(Param(c)), Request(c))
        /\ Ahead(wire[Caller[c]], Make(Result(c)), Response(c))

\* A request that was sent and has no handler is on its way.
RequestsTravel ==
    \A c \in Calls :
        link /\ ~Broken(Callee(c)) /\ hpc[c] = "none" /\ pc[c] \in {"sending", "waiting", "closing"}
            => InWire(Callee(c), Request(c))

\* The channel of a request is announced before the request has a handler.
ParamsUnread ==
    \A c \in Calls :
        InWire(Callee(c), Make(Param(c))) => pc[c] \notin {"idle", "header"} /\ hpc[c] = "none"

\* The channel of a response is made when the method has ended, and then the response is no
\* plain value.
ResultsMade ==
    \A c \in Calls :
        Result(c) \in pending[Caller[c]] \/ InWire(Caller[c], Make(Result(c))) =>
            /\ hpc[c] \notin {"none", "spawned", "running"}
            /\ link => reply[c] \in {"none", "stream"}

\* The response follows its channel, unless it is never sent.
ResultsUnread ==
    \A c \in Calls :
        link /\ ~Broken(Caller[c]) /\ InWire(Caller[c], Make(Result(c))) =>
            hpc[c] \in {"channel", "refused", "gone"} \/ InWire(Caller[c], Response(c))

ReadStep(s) == Dispatch(s) \/ Deliver(s) \/ ChannelMade(s) \/ ChannelDestroyed(s)

\* The step sends packet p to side s.
Sends(s, p) ==
    \/ \E c \in Calls :
         \/ OpenStream(c) /\ s = Callee(c) /\ p = Make(Param(c))
         \/ SendRequest(c) /\ s = Callee(c) /\ p = Request(c)
         \/ OpenResult(c) /\ s = Caller[c] /\ p = Make(Result(c))
         \/ HandlerStep(c) /\ hpc'[c] = "sending" /\ s = Caller[c] /\ p = Response(c)
    \/ \E ch \in Channels : DropStream(ch) /\ s = Other(Maker(ch)) /\ p = Destroy(ch)

LEMMA ChannelFacts ==
    /\ \A c \in Calls : Maker(Param(c)) = Caller[c] /\ Maker(Result(c)) = Callee(c)
    /\ \A c \in Calls : Other(Caller[c]) = Callee(c) /\ Other(Callee(c)) = Caller[c]
    /\ \A c, d \in Calls : /\ Param(c) # Result(d)
                           /\ Param(c) = Param(d) => c = d
                           /\ Result(c) = Result(d) => c = d
    /\ \A ch \in Channels : ch[1] \in Calls /\ (ch = Param(ch[1]) \/ ch = Result(ch[1]))
    /\ \A ch, dh \in Channels : /\ Make(ch) = Make(dh) => ch = dh
                                /\ Destroy(ch) = Destroy(dh) => ch = dh
                                /\ Make(ch) # Destroy(dh)
    /\ \A ch \in Channels : Maker(ch) \in Sides
<1>1. \A c \in Calls : Param(c)[1] = c /\ Param(c)[2] = "param" /\ Result(c)[1] = c /\ Result(c)[2] = "result"
    BY DEF Param, Result
<1>2. \A ch \in Channels : ch[1] \in Calls /\ ch[2] \in {"param", "result"} /\ ch = <<ch[1], ch[2]>>
    BY DEF Channels
<1>3. \A ch \in Channels : /\ Make(ch).channel = ch /\ Destroy(ch).channel = ch
                           /\ Make(ch).type = "make" /\ Destroy(ch).type = "destroy"
    BY DEF Make, Destroy
<1>4. \A c \in Calls : Maker(Param(c)) = Caller[c] /\ Maker(Result(c)) = Callee(c)
    BY <1>1 DEF Maker
<1>5. \A c \in Calls : Other(Caller[c]) = Callee(c) /\ Other(Callee(c)) = Caller[c]
    BY CallsAssumption DEF Other, Callee, Sides
<1>6. \A ch \in Channels : ch = Param(ch[1]) \/ ch = Result(ch[1])
    BY <1>2 DEF Param, Result
<1>7. \A ch \in Channels : Maker(ch) \in Sides
    BY <1>2, SideTypes DEF Maker
<1>8. \A ch, dh \in Channels : Make(ch) # Destroy(dh)
    BY <1>3
<1>9. \A c, d \in Calls : Param(c) # Result(d)
    BY <1>1
<1>10. \A c, d \in Calls : (Param(c) = Param(d) => c = d) /\ (Result(c) = Result(d) => c = d)
    BY <1>1
<1>11. \A ch, dh \in Channels : (Make(ch) = Make(dh) => ch = dh) /\ (Destroy(ch) = Destroy(dh) => ch = dh)
    BY <1>3
<1> QED BY <1>2, <1>4, <1>5, <1>6, <1>7, <1>8, <1>9, <1>10, <1>11

\* What a step does to the packets that travel to a side.
WireStep(t) ==
    \/ wire'[t] = wire[t]
    \/ ReadStep(t) /\ wire[t] # <<>> /\ wire'[t] = Tail(wire[t])
    \/ ~link' /\ wire'[t] = <<>>
    \/ \E p \in Packets : Sends(t, p) /\ (link => wire'[t] = Append(wire[t], p))
                                      /\ wire'[t] \in {wire[t], Append(wire[t], p)}

LEMMA SendMoves ==
    ASSUME TypeOK, NEW s \in Sides, NEW p \in Packets, wire' = WireWith(s, p), NEW t \in Sides
    PROVE  /\ t # Other(s) => wire'[t] = wire[t]
           /\ t = Other(s) => wire'[t] = IF link THEN Append(wire[t], p) ELSE wire[t]
    BY SideTypes DEF WireWith, TypeOK

LEMMA StepWires ==
    ASSUME TypeOK, [Next]_vars, NEW t \in Sides
    PROVE  WireStep(t)
<1> USE PacketTypes, SideTypes
<1>0. ASSUME NEW s \in Sides, NEW p \in Packets, wire' = WireWith(s, p), Sends(Other(s), p)
      PROVE  WireStep(t)
    BY <1>0, SendMoves DEF WireStep
<1>1. ASSUME NEW c \in Calls, CallStep(c) PROVE WireStep(t)
    <2>1. CASE OpenStream(c)
        <3>1. wire' = WireWith(Caller[c], Make(Param(c)))
            BY <2>1 DEF OpenStream
        <3>2. Sends(Other(Caller[c]), Make(Param(c)))
            BY <2>1, ChannelFacts DEF Sends
        <3> QED BY <1>0, <3>1, <3>2
    <2>2. CASE SendRequest(c)
        <3>1. wire' = WireWith(Caller[c], Request(c))
            BY <2>2 DEF SendRequest
        <3>2. Sends(Other(Caller[c]), Request(c))
            BY <2>2, ChannelFacts DEF Sends
        <3> QED BY <1>0, <3>1, <3>2
    <2>3. CASE ~OpenStream(c) /\ ~SendRequest(c)
        BY <1>1, <2>3 DEF CallStep, Enter, CannotPack, GiveUp, RequestSent, SendFailed,
            GetResponse, Interrupt, channelVars, WireStep
    <2> QED BY <2>1, <2>2, <2>3
<1>2. ASSUME NEW c \in Calls, HandlerStep(c) PROVE WireStep(t)
    <2>1. CASE \E kind \in Replies : Respond(c, kind)
        <3>1. wire' = WireWith(Callee(c), Response(c)) /\ hpc'[c] = "sending"
            BY <2>1 DEF Respond, TypeOK
        <3>2. Sends(Other(Callee(c)), Response(c))
            BY <1>2, <3>1, ChannelFacts DEF Sends
        <3> QED BY <1>0, <3>1, <3>2
    <2>2. CASE OpenResult(c)
        <3>1. wire' = WireWith(Callee(c), Make(Result(c)))
            BY <2>2 DEF OpenResult
        <3>2. Sends(Other(Callee(c)), Make(Result(c)))
            BY <2>2, ChannelFacts DEF Sends
        <3> QED BY <1>0, <3>1, <3>2
    <2>3. CASE Reject(c) \/ Accept(c) \/ CannotAnswer(c) \/ HandlerBroken(c)
               \/ ResponseSent(c) \/ KillHandler(c)
        BY <2>3 DEF Reject, Accept, CannotAnswer, HandlerBroken, ResponseSent, KillHandler,
            channelVars, WireStep
    <2> QED BY <1>2, <2>1, <2>2, <2>3 DEF HandlerStep, BadChannel, Answer, AnswerStream, Replies
<1>3. ASSUME NEW s \in Sides, PeerStep(s) PROVE WireStep(t)
    <2>1. CASE ReadStep(s)
        <3>1. wire[s] # <<>> /\ wire' = WireRead(s)
            BY <2>1 DEF ReadStep, Dispatch, Deliver, ChannelMade, ChannelDestroyed, Arrives
        <3>2. wire'[t] = IF t = s THEN Tail(wire[t]) ELSE wire[t]
            BY <3>1 DEF WireRead, TypeOK
        <3> QED BY <2>1, <3>1, <3>2 DEF WireStep
    <2>2. CASE Abort(s)
        <3>1. ~link' /\ wire'[t] = IF t = s THEN <<>> ELSE wire[t]
            BY <2>2 DEF Abort, TypeOK
        <3> QED BY <3>1 DEF WireStep
    <2>3. CASE EndOfPackets(s) \/ UserShutdown(s) \/ Remove(s)
        BY <2>3 DEF EndOfPackets, UserShutdown, Remove, channelVars, WireStep
    <2> QED BY <1>3, <2>1, <2>2, <2>3 DEF PeerStep, ReadStep
<1>4. ASSUME NEW ch \in Channels, DropStream(ch) PROVE WireStep(t)
    <2>1. wire' = WireWith(Maker(ch), Destroy(ch)) /\ Maker(ch) \in Sides
        BY <1>4, ChannelFacts DEF DropStream
    <2>2. Sends(Other(Maker(ch)), Destroy(ch))
        BY <1>4 DEF Sends
    <2> QED BY <1>0, <2>1, <2>2
<1>5. CASE UNCHANGED vars \/ LinkFails
    BY <1>5 DEF vars, LinkFails, channelVars, WireStep
<1> QED BY <1>1, <1>2, <1>3, <1>4, <1>5 DEF Next

\* A packet comes to travel when it is sent, and stays until it is read.
LEMMA Arrived ==
    ASSUME TypeOK, [Next]_vars, NEW s \in Sides, NEW p, InWire(s, p)', ~InWire(s, p)
    PROVE  Sends(s, p)
<1>1. wire[s] \in Seq(Packets)
    BY DEF TypeOK
<1>2. PICK i \in 1..Len(wire'[s]) : wire'[s][i] = p
    BY DEF InWire
<1>3. ~(wire'[s] = wire[s]) /\ ~(wire'[s] = <<>>)
    BY <1>2 DEF InWire
<1>4. ~(wire[s] # <<>> /\ wire'[s] = Tail(wire[s]))
    <2> SUFFICES ASSUME wire[s] # <<>>, wire'[s] = Tail(wire[s]) PROVE FALSE
        OBVIOUS
    <2>1. i + 1 \in 1..Len(wire[s]) /\ wire[s][i + 1] = p
        BY <1>1, <1>2
    <2> QED BY <2>1 DEF InWire
<1>5. PICK q \in Packets : Sends(s, q) /\ wire'[s] = Append(wire[s], q)
    BY <1>3, <1>4, StepWires DEF WireStep
<1>6. i \in 1..Len(wire[s]) => wire[s][i] = p
    BY <1>1, <1>2, <1>5
<1>7. i \notin 1..Len(wire[s]) => p = q
    BY <1>1, <1>2, <1>5
<1> QED BY <1>5, <1>6, <1>7 DEF InWire

LEMMA Remains ==
    ASSUME TypeOK, [Next]_vars, link', NEW s \in Sides, NEW p, InWire(s, p), ~InWire(s, p)'
    PROVE  ReadStep(s) /\ Head(wire[s]) = p
<1>1. wire[s] \in Seq(Packets)
    BY DEF TypeOK
<1>2. PICK i \in 1..Len(wire[s]) : wire[s][i] = p
    BY DEF InWire
<1>3. wire'[s] # wire[s]
    BY <1>2 DEF InWire
<1>4. ASSUME NEW q \in Packets, wire'[s] = Append(wire[s], q) PROVE FALSE
    <2>1. i \in 1..Len(wire'[s]) /\ wire'[s][i] = p
        BY <1>1, <1>2, <1>4
    <2> QED BY <2>1 DEF InWire
<1>5. ReadStep(s) /\ wire[s] # <<>> /\ wire'[s] = Tail(wire[s])
    BY <1>3, <1>4, StepWires DEF WireStep
<1>6. CASE i = 1
    BY <1>1, <1>2, <1>5, <1>6
<1>7. CASE i # 1
    <2>1. i - 1 \in 1..Len(wire'[s]) /\ wire'[s][i - 1] = p
        BY <1>1, <1>2, <1>5, <1>7
    <2> QED BY <2>1 DEF InWire
<1> QED BY <1>6, <1>7

LEMMA SentIsThere ==
    ASSUME TypeOK, NEW s \in Sides, NEW p \in Packets, link, wire' = WireWith(s, p)
    PROVE  InWire(Other(s), p)'
<1>1. wire[Other(s)] \in Seq(Packets) /\ wire'[Other(s)] = Append(wire[Other(s)], p)
    BY SideTypes, SendMoves DEF TypeOK
<1>2. /\ Len(wire[Other(s)]) + 1 \in 1..Len(wire'[Other(s)])
      /\ wire'[Other(s)][Len(wire[Other(s)]) + 1] = p
    BY <1>1
<1> QED BY <1>2 DEF InWire

\* The order of two packets stays, if the first is not sent after the second.
LEMMA AheadStays ==
    ASSUME TypeOK, [Next]_vars, NEW s \in Sides, NEW x, NEW y, x # y, Ahead(wire[s], x, y),
           Sends(s, x) => ~InWire(s, y)
    PROVE  Ahead(wire[s], x, y)'
<1>1. wire[s] \in Seq(Packets)
    BY DEF TypeOK
<1> SUFFICES ASSUME NEW i \in 1..Len(wire'[s]), NEW j \in 1..Len(wire'[s]),
                    wire'[s][i] = x, wire'[s][j] = y
             PROVE  i < j
    BY DEF Ahead
<1>2. CASE wire'[s] = wire[s]
    BY <1>2 DEF Ahead
<1>3. CASE wire'[s] = <<>>
    BY <1>3
<1>4. CASE wire[s] # <<>> /\ wire'[s] = Tail(wire[s])
    <2>1. /\ i + 1 \in 1..Len(wire[s]) /\ wire[s][i + 1] = x
          /\ j + 1 \in 1..Len(wire[s]) /\ wire[s][j + 1] = y
        BY <1>1, <1>4
    <2>2. i + 1 < j + 1
        BY <2>1 DEF Ahead
    <2> QED BY <2>2
<1>5. ASSUME NEW p \in Packets, Sends(s, p), wire'[s] = Append(wire[s], p) PROVE i < j
    <2>1. /\ (i \in 1..Len(wire[s]) /\ wire[s][i] = x) \/ (i = Len(wire[s]) + 1 /\ p = x)
          /\ (j \in 1..Len(wire[s]) /\ wire[s][j] = y) \/ (j = Len(wire[s]) + 1 /\ p = y)
        <3>1. \A k \in 1..Len(wire'[s]) :
                \/ k \in 1..Len(wire[s]) /\ wire'[s][k] = wire[s][k]
                \/ k = Len(wire[s]) + 1 /\ wire'[s][k] = p
            BY <1>1, <1>5
        <3>2. (i \in 1..Len(wire[s]) /\ wire[s][i] = x) \/ (i = Len(wire[s]) + 1 /\ p = x)
            BY <3>1
        <3>3. (j \in 1..Len(wire[s]) /\ wire[s][j] = y) \/ (j = Len(wire[s]) + 1 /\ p = y)
            BY <3>1
        <3> QED BY <3>2, <3>3
    <2>2. CASE i \in 1..Len(wire[s]) /\ wire[s][i] = x
        <3>1. CASE j \in 1..Len(wire[s]) /\ wire[s][j] = y
            BY <2>2, <3>1 DEF Ahead
        <3>2. CASE j = Len(wire[s]) + 1
            BY <1>1, <2>2, <3>2
        <3> QED BY <2>1, <3>1, <3>2
    <2>3. CASE p = x
        <3>1. ~InWire(s, y) /\ p # y
            BY <1>5, <2>3
        <3> QED BY <2>1, <3>1 DEF InWire
    <2> QED BY <2>1, <2>2, <2>3
<1> QED BY <1>2, <1>3, <1>4, <1>5, StepWires DEF WireStep

\* When the second of them is read the first has been.
LEMMA AheadRead ==
    ASSUME TypeOK, NEW s \in Sides, NEW x, NEW y, Ahead(wire[s], x, y),
           wire[s] # <<>>, Head(wire[s]) = y
    PROVE  ~InWire(s, x)
<1>1. wire[s] \in Seq(Packets)
    BY DEF TypeOK
<1>2. 1 \in 1..Len(wire[s]) /\ wire[s][1] = y
    BY <1>1
<1>3. \A i \in 1..Len(wire[s]) : ~(i < 1)
    BY <1>1
<1> QED BY <1>2, <1>3 DEF Ahead, InWire

\* What a step may do to a handler, to a call, to what is pending and to the link.
LEMMA HandlerMoves ==
    ASSUME TypeOK, [Next]_vars, NEW c \in Calls
    PROVE  \/ hpc'[c] = hpc[c] /\ reply'[c] = reply[c]
           \/ HandlerStep(c)
           \/ /\ hpc'[c] = "spawned" /\ reply'[c] = reply[c]
              /\ \E s \in Sides : Dispatch(s) /\ wire[s] # <<>> /\ Head(wire[s]) = Request(c)
<1>1. ASSUME NEW d \in Calls, d # c, HandlerStep(d)
      PROVE  hpc'[c] = hpc[c] /\ reply'[c] = reply[c]
    BY <1>1 DEF HandlerStep, Reject, Accept, BadChannel, Answer, OpenResult, AnswerStream,
            CannotAnswer, HandlerBroken, ResponseSent, KillHandler, Respond, TypeOK
<1>2. ASSUME NEW d \in Calls, CallStep(d)
      PROVE  hpc'[c] = hpc[c] /\ reply'[c] = reply[c]
    BY <1>2 DEF CallStep, Enter, OpenStream, SendRequest, CannotPack, GiveUp, RequestSent,
            SendFailed, GetResponse, Interrupt, handlerVars
<1>3. ASSUME NEW s \in Sides, Dispatch(s)
      PROVE  \/ hpc'[c] = hpc[c] /\ reply'[c] = reply[c]
             \/ /\ hpc'[c] = "spawned" /\ reply'[c] = reply[c]
                /\ wire[s] # <<>> /\ Head(wire[s]) = Request(c)
    <2>1. /\ hpc' = [hpc EXCEPT ![Head(wire[s]).call] = "spawned"] /\ reply' = reply
          /\ wire[s] # <<>> /\ Head(wire[s]) = Request(Head(wire[s]).call)
        BY <1>3, HeadContents DEF Dispatch, Arrives
    <2> QED BY <2>1 DEF TypeOK
<1>4. ASSUME NEW s \in Sides, PeerStep(s), ~Dispatch(s)
      PROVE  hpc'[c] = hpc[c] /\ reply'[c] = reply[c]
    BY <1>4 DEF PeerStep, Deliver, EndOfPackets, ChannelMade, ChannelDestroyed,
            UserShutdown, Abort, Remove, handlerVars
<1>5. CASE UNCHANGED vars \/ LinkFails \/ \E ch \in Channels : DropStream(ch)
    BY <1>5 DEF vars, LinkFails, DropStream, handlerVars
<1> QED BY <1>1, <1>2, <1>3, <1>4, <1>5 DEF Next

LEMMA CallMoves ==
    ASSUME TypeOK, [Next]_vars, NEW c \in Calls
    PROVE  \/ pc'[c] = pc[c]
           \/ CallStep(c)
           \/ pc[c] \in CallerActive /\ pc'[c] = "killed"
           \/ ~link' /\ pc'[c] = "disconnected"
<1>1. ASSUME NEW d \in Calls, d # c, CallStep(d)
      PROVE  pc'[c] = pc[c]
    BY <1>1 DEF CallStep, Enter, OpenStream, SendRequest, CannotPack, GiveUp, RequestSent,
            SendFailed, GetResponse, Interrupt, TypeOK
<1>2. ASSUME NEW d \in Calls, HandlerStep(d)
      PROVE  pc'[c] = pc[c] \/ (pc[c] \in CallerActive /\ pc'[c] = "killed")
    BY <1>2 DEF HandlerStep, Reject, Accept, BadChannel, Answer, OpenResult, AnswerStream,
            CannotAnswer, HandlerBroken, ResponseSent, KillHandler, callerVars, Inner
<1>3. ASSUME NEW s \in Sides, PeerStep(s)
      PROVE  pc'[c] = pc[c] \/ (~link' /\ pc'[c] = "disconnected")
    BY <1>3 DEF PeerStep, Dispatch, Deliver, EndOfPackets, ChannelMade, ChannelDestroyed,
            UserShutdown, Abort, Remove, callerVars
<1>4. CASE UNCHANGED vars \/ LinkFails \/ \E ch \in Channels : DropStream(ch)
    BY <1>4 DEF vars, LinkFails, DropStream, callerVars
<1> QED BY <1>1, <1>2, <1>3, <1>4 DEF Next

LEMMA PendingMoves ==
    ASSUME TypeOK, [Next]_vars, NEW s \in Sides, NEW ch \in pending'[s]
    PROVE  \/ ch \in pending[s]
           \/ ChannelMade(s) /\ wire[s] # <<>> /\ Head(wire[s]) = Make(ch)
<1>0. \/ pending' = pending
      \/ \E t, dh : pending' = Without(t, dh)
      \/ \E t : pending' = [pending EXCEPT ![t] = {}]
      => ch \in pending[s]
    BY DEF TypeOK, Without
<1>1. ASSUME NEW d \in Calls, CallStep(d)
      PROVE  ch \in pending[s]
    <2>1. CASE GetResponse(d)
        BY <1>0, <2>1 DEF GetResponse
    <2>2. CASE ~GetResponse(d)
        <3>1. pending' = pending
            BY <1>1, <2>2 DEF CallStep, Enter, OpenStream, SendRequest, CannotPack, GiveUp,
                RequestSent, SendFailed, Interrupt, channelVars
        <3> QED BY <3>1
    <2> QED BY <2>1, <2>2
<1>2. ASSUME NEW d \in Calls, HandlerStep(d)
      PROVE  ch \in pending[s]
    <2>1. pending' = pending \/ \E t, dh : pending' = Without(t, dh)
        BY <1>2 DEF HandlerStep, Reject, Accept, BadChannel, Answer, OpenResult, AnswerStream,
            CannotAnswer, HandlerBroken, ResponseSent, KillHandler, channelVars
    <2> QED BY <1>0, <2>1
<1>3. ASSUME NEW t \in Sides, PeerStep(t), ~ChannelMade(t)
      PROVE  ch \in pending[s]
    <2>1. \/ pending' = pending
          \/ \E u, dh : pending' = Without(u, dh)
          \/ \E u : pending' = [pending EXCEPT ![u] = {}]
        BY <1>3 DEF PeerStep, Dispatch, Deliver, EndOfPackets, ChannelDestroyed,
            UserShutdown, Abort, Remove, channelVars
    <2> QED BY <1>0, <2>1
<1>4. ASSUME NEW t \in Sides, ChannelMade(t), ch \notin pending[s]
      PROVE  ChannelMade(s) /\ wire[s] # <<>> /\ Head(wire[s]) = Make(ch)
    <2>1. wire[t] # <<>> /\ Head(wire[t]) \in Packets /\ Head(wire[t]).type = "make"
        BY <1>4, ReadType DEF ChannelMade, Arrives
    <2>2. Head(wire[t]) = Make(Head(wire[t]).channel)
        BY <2>1 DEF Packets, Make
    <2>3. s = t /\ ch = Head(wire[t]).channel
        BY <1>4 DEF ChannelMade, TypeOK
    <2> QED BY <1>4, <2>1, <2>2, <2>3
<1>5. CASE UNCHANGED vars \/ LinkFails \/ \E dh \in Channels : DropStream(dh)
    BY <1>5 DEF vars, LinkFails, DropStream, channelVars
<1> QED BY <1>1, <1>2, <1>3, <1>4, <1>5 DEF Next

LEMMA LinkStays ==
    ASSUME [Next]_vars, link' PROVE link
<1>1. ASSUME NEW d \in Calls, CallStep(d) \/ HandlerStep(d)
      PROVE  link
    BY <1>1 DEF CallStep, Enter, OpenStream, SendRequest, CannotPack, GiveUp, RequestSent,
            SendFailed, GetResponse, Interrupt, channelVars, HandlerStep, Reject, Accept,
            BadChannel, Answer, OpenResult, AnswerStream, CannotAnswer, HandlerBroken,
            ResponseSent, KillHandler
<1>2. ASSUME NEW t \in Sides, PeerStep(t)
      PROVE  link
    BY <1>2 DEF PeerStep, Dispatch, Deliver, EndOfPackets, ChannelMade, ChannelDestroyed,
            UserShutdown, Abort, Remove, channelVars
<1>3. CASE UNCHANGED vars \/ LinkFails \/ \E ch \in Channels : DropStream(ch)
    BY <1>3 DEF vars, LinkFails, DropStream, channelVars
<1> QED BY <1>1, <1>2, <1>3 DEF Next

\* Who reads a packet of each kind.
LEMMA ReadKinds ==
    ASSUME NEW s \in Sides, ReadStep(s)
    PROVE  /\ \A c \in Calls : Head(wire[s]) = Request(c) => Dispatch(s)
           /\ \A c \in Calls : Head(wire[s]) = Response(c) => Deliver(s)
           /\ \A ch \in Channels : Head(wire[s]) = Make(ch) => ChannelMade(s)
           /\ \A ch \in Channels : Head(wire[s]) = Destroy(ch) => ChannelDestroyed(s)
<1> DEFINE kind == Head(wire[s]).type
<1>1. /\ kind = "request" => Dispatch(s)
      /\ kind = "response" => Deliver(s)
    BY DEF ReadStep, Dispatch, Deliver, ChannelMade, ChannelDestroyed, Arrives
<1>2. /\ kind = "make" => ChannelMade(s)
      /\ kind = "destroy" => ChannelDestroyed(s)
    BY DEF ReadStep, Dispatch, Deliver, ChannelMade, ChannelDestroyed, Arrives
<1>3. \A c \in Calls : Request(c).type = "request" /\ Response(c).type = "response"
    BY DEF Request, Response
<1>4. \A ch \in Channels : Make(ch).type = "make" /\ Destroy(ch).type = "destroy"
    BY DEF Make, Destroy
<1> QED BY <1>1, <1>2, <1>3, <1>4

\* Who sends a packet of each kind.
LEMMA SendKinds ==
    ASSUME NEW s \in Sides, NEW p, Sends(s, p)
    PROVE  /\ \A c \in Calls : p = Request(c) => SendRequest(c) /\ s = Callee(c)
           /\ \A c \in Calls : p = Response(c) =>
                HandlerStep(c) /\ hpc'[c] = "sending" /\ s = Caller[c]
           /\ \A c \in Calls : p = Make(Param(c)) => OpenStream(c) /\ s = Callee(c)
           /\ \A c \in Calls : p = Make(Result(c)) => OpenResult(c) /\ s = Caller[c]
<1> USE PacketTypes, PacketsDiffer, ChannelFacts
<1>1. ASSUME NEW c \in Calls, p = Request(c) PROVE SendRequest(c) /\ s = Callee(c)
    BY <1>1 DEF Sends
<1>2. ASSUME NEW c \in Calls, p = Response(c)
      PROVE  HandlerStep(c) /\ hpc'[c] = "sending" /\ s = Caller[c]
    BY <1>2 DEF Sends
<1>3. ASSUME NEW c \in Calls, p = Make(Param(c)) PROVE OpenStream(c) /\ s = Callee(c)
    BY <1>3 DEF Sends
<1>4. ASSUME NEW c \in Calls, p = Make(Result(c)) PROVE OpenResult(c) /\ s = Caller[c]
    BY <1>4 DEF Sends
<1> QED BY <1>1, <1>2, <1>3, <1>4

LEMMA AddressedStep ==
    ASSUME TypeOK, Addressed, [Next]_vars
    PROVE  Addressed'
<1> USE SideTypes, ChannelFacts
<1>1. ASSUME NEW s \in Sides, NEW ch \in Channels, InWire(s, Make(ch))'
      PROVE  s = Other(Maker(ch))
    <2>1. CASE InWire(s, Make(ch))
        BY <2>1 DEF Addressed
    <2>2. CASE Sends(s, Make(ch))
        BY <2>2, SendKinds
    <2> QED BY <1>1, <2>1, <2>2, Arrived
<1>2. ASSUME NEW s \in Sides, NEW ch \in Channels, ch \in pending'[s]
      PROVE  s = Other(Maker(ch))
    <2>1. CASE ch \in pending[s]
        BY <2>1 DEF Addressed
    <2>2. CASE wire[s] # <<>> /\ Head(wire[s]) = Make(ch)
        BY <2>2, HeadContents DEF Addressed
    <2> QED BY <1>2, <2>1, <2>2, PendingMoves
<1>3. ASSUME NEW s \in Sides, NEW c \in Calls
      PROVE  /\ InWire(s, Request(c))' => s = Callee(c)
             /\ InWire(s, Response(c))' => s = Caller[c]
    BY Arrived, SendKinds DEF Addressed
<1> QED BY <1>1, <1>2, <1>3 DEF Addressed

LEMMA MadeBeforeStep ==
    ASSUME TypeOK, RepliesExist, HandlersFollow, RequestsOnce, MadeBefore, [Next]_vars
    PROVE  MadeBefore'
<1> SUFFICES ASSUME NEW c \in Calls
             PROVE  /\ Ahead(wire[Callee(c)], Make(Param(c)), Request(c))'
                    /\ Ahead(wire[Caller[c]], Make(Result(c)), Response(c))'
    BY DEF MadeBefore
<1>1. /\ Callee(c) \in Sides /\ Caller[c] \in Sides
      /\ Make(Param(c)) # Request(c) /\ Make(Result(c)) # Response(c)
    BY SideTypes, PacketTypes, PacketsDiffer
<1>2. Sends(Callee(c), Make(Param(c))) => ~InWire(Callee(c), Request(c))
    <2>1. Sends(Callee(c), Make(Param(c))) => OpenStream(c)
        BY <1>1, SendKinds
    <2>2. OpenStream(c) => ~Requested(c)
        BY DEF OpenStream, Requested
    <2> QED BY <1>1, <2>1, <2>2 DEF RequestsOnce
<1>3. Sends(Caller[c], Make(Result(c))) => ~InWire(Caller[c], Response(c))
    <2>1. Sends(Caller[c], Make(Result(c))) => OpenResult(c)
        BY <1>1, SendKinds
    <2>2. OpenResult(c) => reply[c] = "none"
        BY DEF OpenResult, MethodEnds, HandlersFollow
    <2> QED BY <1>1, <2>1, <2>2 DEF RepliesExist
<1>4. /\ Ahead(wire[Callee(c)], Make(Param(c)), Request(c))
      /\ Ahead(wire[Caller[c]], Make(Result(c)), Response(c))
    BY DEF MadeBefore
<1> QED BY <1>1, <1>2, <1>3, <1>4, AheadStays

\* A call that has started, or has ended, does not start again.
LEMMA StartedForever ==
    ASSUME TypeOK, RepliesExist, [Next]_vars, NEW c \in Calls
    PROVE  /\ pc[c] \notin {"idle", "header"} => pc'[c] \notin {"idle", "header"}
           /\ pc[c] \in CallerEnded => pc'[c] \in CallerEnded
<1>1. pc[c] \in {"idle"} \cup CallerActive \cup CallerEnded
    BY DEF TypeOK
<1>2. CASE pc'[c] = pc[c] \/ (pc[c] \in CallerActive /\ pc'[c] = "killed")
    BY <1>1, <1>2 DEF CallerActive, CallerEnded
<1>3. CASE GetResponse(c)
    <2>1. pc[c] = "waiting" /\ pc'[c] = Outcome(c) /\ event[c] # NoReply
        BY <1>3 DEF GetResponse, TypeOK
    <2>2. Outcome(c) \notin {"idle", "header"}
        <3>1. event[c] # EmptyReply => reply[event[c]] \in Replies
            BY <2>1 DEF RepliesExist, TypeOK
        <3> QED BY <3>1 DEF Outcome, Replies
    <2> QED BY <2>1, <2>2 DEF CallerEnded
<1>4. CASE CallStep(c) /\ ~GetResponse(c)
    BY <1>4 DEF CallStep, Enter, OpenStream, SendRequest, CannotPack, GiveUp, RequestSent,
        SendFailed, Interrupt, ReadyToSend, CallerEnded, CallerActive, TypeOK
<1> QED BY <1>2, <1>3, <1>4, CallMoves DEF CallerEnded

LEMMA RequestsTravelStep ==
    ASSUME TypeOK, RepliesExist, HandlersFollow, RequestsTravel, [Next]_vars
    PROVE  RequestsTravel'
<1> SUFFICES ASSUME NEW c \in Calls, link', ~Broken(Callee(c))', hpc'[c] = "none",
                    pc'[c] \in {"sending", "waiting", "closing"}
             PROVE  InWire(Callee(c), Request(c))'
    BY DEF RequestsTravel
<1>1. link /\ ~Broken(Callee(c)) /\ Callee(c) \in Sides
    BY LinkStays, BrokenForever, SideTypes
<1>2. hpc[c] = "none"
    <2>1. ~HandlerStep(c)
        BY DEF HandlerStep, Reject, Accept, BadChannel, Answer, OpenResult, AnswerStream,
            CannotAnswer, HandlerBroken, ResponseSent, KillHandler, Respond, TypeOK
    <2> QED BY <2>1, HandlerMoves
<1>3. CASE pc[c] \in {"sending", "waiting", "closing"}
    <2>1. InWire(Callee(c), Request(c))
        BY <1>1, <1>2, <1>3 DEF RequestsTravel
    <2>2. ASSUME ~InWire(Callee(c), Request(c))' PROVE FALSE
        <3>1. ReadStep(Callee(c)) /\ Head(wire[Callee(c)]) = Request(c)
            BY <1>1, <2>1, <2>2, Remains
        <3>2. hpc' = [hpc EXCEPT ![c] = "spawned"]
            BY <1>1, <3>1, ReadKinds DEF Dispatch, Request
        <3> QED BY <3>2 DEF TypeOK
    <2> QED BY <2>2
<1>4. CASE pc[c] \notin {"sending", "waiting", "closing"}
    <2>1. CallStep(c)
        BY <1>4, CallMoves
    <2>2. SendRequest(c)
        <3>1. ~GetResponse(c) /\ ~RequestSent(c) /\ ~SendFailed(c)
            BY <1>4 DEF GetResponse, RequestSent, SendFailed
        <3> QED BY <1>4, <2>1, <3>1 DEF CallStep, Enter, OpenStream, CannotPack, GiveUp,
                Interrupt, TypeOK
    <2>3. wire' = WireWith(Caller[c], Request(c))
        BY <2>2 DEF SendRequest
    <2> QED BY <1>1, <2>3, SentIsThere, SideTypes, PacketTypes, ChannelFacts
<1> QED BY <1>3, <1>4

\* A request is read by the side that it is for.
LEMMA RequestRead ==
    ASSUME TypeOK, Addressed, NEW c \in Calls, NEW s \in Sides, wire[s] # <<>>, Head(wire[s]) = Request(c)
    PROVE  s = Callee(c) /\ InWire(Callee(c), Request(c))
    BY HeadContents DEF Addressed

LEMMA ParamsUnreadStep ==
    ASSUME TypeOK, RepliesExist, HandlersFollow, Addressed, MadeBefore, ParamsUnread, [Next]_vars
    PROVE  ParamsUnread'
<1> SUFFICES ASSUME NEW c \in Calls, InWire(Callee(c), Make(Param(c)))'
             PROVE  pc'[c] \notin {"idle", "header"} /\ hpc'[c] = "none"
    BY DEF ParamsUnread
<1>1. Callee(c) \in Sides
    BY SideTypes
<1>2. CASE InWire(Callee(c), Make(Param(c)))
    <2>1. pc[c] \notin {"idle", "header"} /\ hpc[c] = "none"
        BY <1>2 DEF ParamsUnread
    <2>2. ~(\E s \in Sides : wire[s] # <<>> /\ Head(wire[s]) = Request(c))
        <3>1. Ahead(wire[Callee(c)], Make(Param(c)), Request(c))
            BY DEF MadeBefore
        <3> QED BY <1>1, <1>2, <3>1, RequestRead, AheadRead
    <2>3. ~HandlerStep(c)
        BY <2>1 DEF HandlerStep, Reject, Accept, BadChannel, Answer, OpenResult, AnswerStream,
            CannotAnswer, HandlerBroken, ResponseSent, KillHandler, MethodEnds, HandlerActive
    <2>4. hpc'[c] = "none"
        BY <2>1, <2>2, <2>3, HandlerMoves
    <2>5. pc'[c] \notin {"idle", "header"}
        BY <2>1, StartedForever
    <2> QED BY <2>4, <2>5
<1>3. CASE ~InWire(Callee(c), Make(Param(c)))
    <2>1. OpenStream(c)
        BY <1>1, <1>3, Arrived, SendKinds
    <2>2. pc'[c] = "channel" /\ hpc[c] = "none" /\ hpc' = hpc
        BY <2>1 DEF OpenStream, HandlersFollow, Requested, handlerVars, TypeOK
    <2> QED BY <2>2
<1> QED BY <1>2, <1>3

\* A handler that has ended, or whose response has a channel, does not start again.
LEMMA MadeForever ==
    ASSUME TypeOK, HandlersFollow, RequestsOnce, [Next]_vars, NEW c \in Calls,
           hpc[c] \notin {"none", "spawned", "running"}
    PROVE  \/ hpc'[c] = hpc[c] /\ reply'[c] = reply[c]
           \/ AnswerStream(c) /\ hpc'[c] = "sending"
           \/ hpc'[c] \in {"refused", "gone"} /\ reply'[c] = reply[c]
           \/ hpc[c] = "sending" /\ hpc'[c] = "sent" /\ reply'[c] = reply[c]
<1>1. ~(\E s \in Sides : wire[s] # <<>> /\ Head(wire[s]) = Request(c))
    BY HeadContents DEF RequestsOnce
<1>2. CASE HandlerStep(c)
    <2>1. \/ AnswerStream(c) \/ CannotAnswer(c) \/ HandlerBroken(c) \/ ResponseSent(c) \/ KillHandler(c)
        BY <1>2 DEF HandlerStep, Reject, Accept, BadChannel, Answer, OpenResult, MethodEnds
    <2> QED BY <2>1 DEF AnswerStream, Respond, CannotAnswer, HandlerBroken, ResponseSent,
            KillHandler, TypeOK
<1> QED BY <1>1, <1>2, HandlerMoves

LEMMA ResultsMadeStep ==
    ASSUME TypeOK, RepliesExist, HandlersFollow, RequestsOnce, ResultsMade, [Next]_vars
    PROVE  ResultsMade'
<1> SUFFICES ASSUME NEW c \in Calls,
                    Result(c) \in pending'[Caller[c]] \/ InWire(Caller[c], Make(Result(c)))'
             PROVE  /\ hpc'[c] \notin {"none", "spawned", "running"}
                    /\ link' => reply'[c] \in {"none", "stream"}
    BY DEF ResultsMade
<1>1. Caller[c] \in Sides /\ Result(c) \in Channels
    BY SideTypes, PacketTypes
<1>2. CASE Result(c) \in pending[Caller[c]] \/ InWire(Caller[c], Make(Result(c)))
    <2>1. hpc[c] \notin {"none", "spawned", "running"} /\ (link => reply[c] \in {"none", "stream"})
        BY <1>2 DEF ResultsMade
    <2>2. ASSUME AnswerStream(c), link' PROVE reply'[c] \in {"none", "stream"}
        BY <2>2, LinkStays DEF AnswerStream, Respond, TypeOK
    <2> QED BY <2>1, <2>2, MadeForever, LinkStays
<1>3. CASE ~(Result(c) \in pending[Caller[c]] \/ InWire(Caller[c], Make(Result(c))))
    <2>1. InWire(Caller[c], Make(Result(c)))'
        <3>1. ~(wire[Caller[c]] # <<>> /\ Head(wire[Caller[c]]) = Make(Result(c)))
            BY <1>1, <1>3, HeadContents
        <3> QED BY <1>1, <1>3, <3>1, PendingMoves
    <2>2. OpenResult(c)
        BY <1>1, <1>3, <2>1, Arrived, SendKinds
    <2>3. hpc'[c] = "channel" /\ reply'[c] = reply[c] /\ reply[c] = "none"
        BY <2>2 DEF OpenResult, MethodEnds, HandlersFollow, TypeOK
    <2> QED BY <2>3
<1> QED BY <1>2, <1>3

LEMMA ResponseIsSent ==
    ASSUME TypeOK, NEW c \in Calls, link, NEW kind, Respond(c, kind)
    PROVE  InWire(Caller[c], Response(c))'
<1>1. wire' = WireWith(Callee(c), Response(c)) /\ Other(Callee(c)) = Caller[c]
    BY ChannelFacts DEF Respond
<1> QED BY <1>1, SentIsThere, SideTypes, PacketTypes

LEMMA ResultsUnreadStep ==
    ASSUME TypeOK, RepliesExist, HandlersFollow, RequestsOnce, MadeBefore, ResultsMade,
           ResultsUnread, [Next]_vars
    PROVE  ResultsUnread'
<1> SUFFICES ASSUME NEW c \in Calls, link', ~Broken(Caller[c])', InWire(Caller[c], Make(Result(c)))'
             PROVE  hpc'[c] \in {"channel", "refused", "gone"} \/ InWire(Caller[c], Response(c))'
    BY DEF ResultsUnread
<1>1. link /\ ~Broken(Caller[c]) /\ Caller[c] \in Sides
    BY LinkStays, BrokenForever, SideTypes
<1>2. CASE InWire(Caller[c], Make(Result(c)))
    <2>1. hpc[c] \notin {"none", "spawned", "running"}
        BY <1>2 DEF ResultsMade
    <2>2. CASE InWire(Caller[c], Response(c))
        <3>1. Ahead(wire[Caller[c]], Make(Result(c)), Response(c))
            BY DEF MadeBefore
        <3>2. ASSUME wire[Caller[c]] # <<>>, Head(wire[Caller[c]]) = Response(c) PROVE FALSE
            BY <1>1, <1>2, <3>1, <3>2, AheadRead
        <3>3. wire[Caller[c]] # <<>>
            BY <2>2 DEF InWire
        <3> QED BY <1>1, <2>2, <3>2, <3>3, Remains
    <2>3. CASE hpc[c] \in {"channel", "refused", "gone"}
        <3>1. CASE AnswerStream(c)
            BY <1>1, <3>1, ResponseIsSent DEF AnswerStream
        <3> QED BY <2>1, <2>3, <3>1, MadeForever
    <2> QED BY <1>1, <1>2, <2>2, <2>3 DEF ResultsUnread
<1>3. CASE ~InWire(Caller[c], Make(Result(c)))
    <2>1. OpenResult(c)
        BY <1>1, <1>3, Arrived, SendKinds
    <2> QED BY <2>1 DEF OpenResult, TypeOK
<1> QED BY <1>2, <1>3

\* What the steps that take, or leave, what is pending for a request do.
LEMMA ParamClaimed ==
    ASSUME TypeOK, NEW c \in Calls, HandlerStep(c), hpc[c] = "spawned"
    PROVE  Param(c) \notin pending'[Callee(c)]
<1>1. Callee(c) \in Sides /\ pending \in [Sides -> SUBSET Channels]
    BY SideTypes DEF TypeOK
<1>2. CASE pending' = Without(Callee(c), Param(c))
    BY <1>1, <1>2 DEF Without
<1>3. CASE BadChannel(c)
    BY <1>3 DEF BadChannel
<1> QED BY <1>2, <1>3 DEF HandlerStep, Reject, Accept, Answer, OpenResult, AnswerStream,
        CannotAnswer, HandlerBroken, ResponseSent, KillHandler, MethodEnds

LEMMA ParamClaimable ==
    ASSUME TypeOK, RepliesExist, HandlersFollow, RequestsOnce, Addressed, RequestsTravel,
           ParamsUnread, [Next]_vars, NEW c \in Calls,
           link', ~Broken(Callee(c))', Param(c) \in pending'[Callee(c)],
           Param(c) \in pending[Callee(c)] => Claimable(Callee(c), Param(c))
    PROVE  Claimable(Callee(c), Param(c))'
<1>1. link /\ ~Broken(Callee(c)) /\ Callee(c) \in Sides /\ Param(c) \in Channels /\ Param(c)[1] = c
    BY LinkStays, BrokenForever, SideTypes, PacketTypes DEF Param
<1> SUFFICES \/ pc'[c] = "channel" \/ InWire(Callee(c), Request(c))' \/ hpc'[c] = "spawned"
             \/ hpc'[c] = "none" /\ pc'[c] \in CallerEnded
    BY <1>1 DEF Claimable
<1>2. CASE InWire(Callee(c), Request(c))
    <2>1. ASSUME ~InWire(Callee(c), Request(c))' PROVE hpc'[c] = "spawned"
        <3>1. Dispatch(Callee(c)) /\ Head(wire[Callee(c)]) = Request(c)
            BY <1>1, <1>2, <2>1, Remains, ReadKinds
        <3> QED BY <3>1 DEF Dispatch, Request, TypeOK
    <2> QED BY <2>1
<1>3. CASE hpc[c] = "spawned"
    <2>1. hpc'[c] = "spawned"
        BY <1>3, HandlerMoves, ParamClaimed
    <2> QED BY <2>1
<1>4. CASE hpc[c] = "none" /\ pc[c] \in {"channel"} \cup CallerEnded
    <2>1. ~HandlerStep(c)
        BY <1>4 DEF HandlerStep, Reject, Accept, BadChannel, Answer, OpenResult, AnswerStream,
            CannotAnswer, HandlerBroken, ResponseSent, KillHandler, MethodEnds, HandlerActive
    <2>2. hpc'[c] \in {"none", "spawned"}
        BY <1>4, <2>1, HandlerMoves
    <2>3. CASE pc[c] \in CallerEnded
        BY <2>2, <2>3, StartedForever
    <2>4. CASE pc[c] = "channel" /\ CallStep(c)
        <3>1. CASE SendRequest(c)
            <4>1. wire' = WireWith(Caller[c], Request(c))
                BY <3>1 DEF SendRequest
            <4> QED BY <1>1, <4>1, SentIsThere, SideTypes, PacketTypes, ChannelFacts
        <3>2. CASE ~SendRequest(c)
            <4>1. pc'[c] \in CallerEnded
                BY <2>4, <3>2 DEF CallStep, Enter, OpenStream, CannotPack, GiveUp, RequestSent,
                    SendFailed, GetResponse, Interrupt, TypeOK, CallerEnded
            <4> QED BY <2>2, <4>1
        <3> QED BY <3>1, <3>2
    <2>5. CASE pc[c] = "channel" /\ ~CallStep(c)
        <3>1. pc'[c] \in {"channel", "killed", "disconnected"}
            BY <2>5, CallMoves
        <3> QED BY <2>2, <3>1 DEF CallerEnded
    <2> QED BY <1>4, <2>3, <2>4, <2>5
<1>5. CASE Param(c) \in pending[Callee(c)]
    <2>1. pc[c] = "channel" => hpc[c] = "none"
        BY DEF HandlersFollow, Requested
    <2> QED BY <1>1, <1>2, <1>3, <1>4, <1>5, <2>1 DEF Claimable
<1>6. CASE Param(c) \notin pending[Callee(c)]
    <2>1. ChannelMade(Callee(c)) /\ wire[Callee(c)] # <<>> /\ Head(wire[Callee(c)]) = Make(Param(c))
        BY <1>1, <1>6, PendingMoves
    <2>2. pc[c] \notin {"idle", "header"} /\ hpc[c] = "none"
        BY <1>1, <2>1, HeadContents DEF ParamsUnread
    <2>3. pc[c] \in {"channel", "sending", "waiting", "closing"} \cup CallerEnded
        BY <2>2 DEF TypeOK, CallerActive
    <2>4. CASE pc[c] \in {"sending", "waiting", "closing"}
        BY <1>1, <1>2, <2>2, <2>4 DEF RequestsTravel
    <2> QED BY <1>4, <2>2, <2>3, <2>4
<1> QED BY <1>5, <1>6

\* A response with a stream finds a call that waits or was killed, or its stream is dropped.
LEMMA ResultDelivered ==
    ASSUME TypeOK, RepliesExist, WaitersAreCalls, ResultsMade, [Next]_vars, NEW c \in Calls,
           link', Result(c) \in pending[Caller[c]], Result(c) \in pending'[Caller[c]],
           Deliver(Caller[c]), Head(wire[Caller[c]]) = Response(c)
    PROVE  event'[c] = c /\ pc'[c] \in {"sending", "waiting", "killed"}
<1>1. /\ Caller[c] \in Sides /\ pending \in [Sides -> SUBSET Channels]
      /\ event \in [Calls -> Calls \cup {NoReply, EmptyReply}]
    BY SideTypes DEF TypeOK
<1>2. reply[c] = "stream"
    <2>1. InWire(Caller[c], Response(c))
        BY <1>1, HeadContents DEF Deliver, Arrives
    <2> QED BY <1>1, <2>1, LinkStays DEF RepliesExist, ResultsMade
<1>3. Head(wire[Caller[c]]).call = c
    BY DEF Response
<1>4. c \in waiters[Caller[c]]
    <2> SUFFICES ASSUME c \notin waiters[Caller[c]] PROVE FALSE
        OBVIOUS
    <2>1. pending' = Without(Caller[c], Result(c))
        BY <1>2, <1>3 DEF Deliver
    <2> QED BY <1>1, <2>1 DEF Without
<1>5. event' = [event EXCEPT ![c] = c] /\ pc' = pc
    BY <1>3, <1>4 DEF Deliver
<1> QED BY <1>1, <1>4, <1>5 DEF WaitersAreCalls

\* A call that has its response and a stream to claim claims it, or is killed and leaves it.
LEMMA ResponseKept ==
    ASSUME TypeOK, RepliesExist, WaitersAreCalls, ResultsMade, [Next]_vars, NEW c \in Calls,
           link', ~Broken(Caller[c])', Result(c) \in pending[Caller[c]],
           Result(c) \in pending'[Caller[c]],
           event[c] = c, pc[c] \in {"sending", "waiting", "killed"}
    PROVE  event'[c] = c /\ pc'[c] \in {"sending", "waiting", "killed"}
<1>1. /\ Caller[c] \in Sides /\ pending \in [Sides -> SUBSET Channels]
      /\ link /\ ~Broken(Caller[c]) /\ c \notin {NoReply, EmptyReply}
    BY LinkStays, BrokenForever, SideTypes, CallsAssumption DEF TypeOK
<1>2. reply[c] = "stream"
    BY <1>1 DEF RepliesExist, ResultsMade
<1>3. ~GetResponse(c)
    <2> SUFFICES ASSUME GetResponse(c) PROVE FALSE
        OBVIOUS
    <2>1. Outcome(c) = "stream"
        BY <1>1, <1>2 DEF Outcome
    <2>2. pending' = Without(Caller[c], Result(c))
        BY <2>1 DEF GetResponse
    <2> QED BY <1>1, <2>2 DEF Without
<1>4. pc'[c] \in {"sending", "waiting", "killed"}
    <2>1. CASE CallStep(c)
        BY <1>1, <1>3, <2>1 DEF CallStep, Enter, OpenStream, SendRequest, CannotPack, GiveUp,
            RequestSent, SendFailed, Interrupt, ReadyToSend, TypeOK
    <2> QED BY <2>1, CallMoves
<1>5. ASSUME NEW s \in Sides, NEW who, BeginShutdown(s, who)
      PROVE  event'[c] = c
    <2>1. s # Caller[c]
        BY <1>1, <1>5 DEF BeginShutdown, Broken, TypeOK
    <2>2. c \notin waiters[s]
        BY <2>1 DEF WaitersAreCalls
    <2> QED BY <1>5, <2>2 DEF BeginShutdown
<1>6. ASSUME NEW s \in Sides, Deliver(s) PROVE event'[c] = c
    <2>1. Head(wire[s]).call \in Calls
        BY <1>6, ReadType DEF Deliver, Arrives
    <2> QED BY <1>6, <2>1 DEF Deliver, TypeOK
<1>7. event'[c] = c
    <2>1. ASSUME NEW d \in Calls, CallStep(d), ~SendFailed(d) PROVE event'[c] = c
        BY <2>1 DEF CallStep, Enter, OpenStream, SendRequest, CannotPack, GiveUp, RequestSent,
            GetResponse, Interrupt
    <2>2. ASSUME NEW d \in Calls, SendFailed(d) PROVE event'[c] = c
        BY <1>1, <2>2 DEF SendFailed
    <2>3. ASSUME NEW d \in Calls, HandlerStep(d) PROVE event'[c] = c
        BY <2>3 DEF HandlerStep, Reject, Accept, BadChannel, Answer, OpenResult, AnswerStream,
            CannotAnswer, HandlerBroken, ResponseSent, KillHandler, callerVars
    <2>4. ASSUME NEW s \in Sides, PeerStep(s) PROVE event'[c] = c
        <3>1. CASE EndOfPackets(s) \/ UserShutdown(s)
            BY <1>5, <3>1 DEF EndOfPackets, UserShutdown
        <3>2. CASE Deliver(s)
            BY <1>6, <3>2
        <3>3. CASE Dispatch(s) \/ ChannelMade(s) \/ ChannelDestroyed(s) \/ Abort(s) \/ Remove(s)
            BY <3>3 DEF Dispatch, ChannelMade, ChannelDestroyed, Abort, Remove, callerVars
        <3> QED BY <2>4, <3>1, <3>2, <3>3 DEF PeerStep
    <2>5. CASE UNCHANGED vars \/ LinkFails \/ \E ch \in Channels : DropStream(ch)
        BY <2>5 DEF vars, LinkFails, DropStream, callerVars
    <2> QED BY <2>1, <2>2, <2>3, <2>4, <2>5 DEF Next
<1> QED BY <1>4, <1>7

LEMMA ResultClaimable ==
    ASSUME TypeOK, RepliesExist, HandlersFollow, RequestsOnce, WaitersAreCalls, ResultsMade,
           ResultsUnread, [Next]_vars, NEW c \in Calls,
           link', ~Broken(Caller[c])', Result(c) \in pending'[Caller[c]],
           Result(c) \in pending[Caller[c]]
               => Claimable(Caller[c], Result(c)) \/ Forsaken(Result(c))
    PROVE  Claimable(Caller[c], Result(c))' \/ Forsaken(Result(c))'
<1>1. /\ link /\ ~Broken(Caller[c]) /\ Caller[c] \in Sides /\ Result(c) \in Channels
      /\ Result(c)[1] = c /\ Result(c) # Param(c)
    BY LinkStays, BrokenForever, SideTypes, PacketTypes, ChannelFacts DEF Result
<1> SUFFICES \/ hpc'[c] = "channel" \/ InWire(Caller[c], Response(c))'
             \/ event'[c] = c /\ pc'[c] \in {"sending", "waiting", "killed"}
             \/ hpc'[c] \in {"refused", "gone"}
    BY <1>1 DEF Claimable, Forsaken
<1>2. CASE hpc[c] \in {"channel", "refused", "gone"}
    <2>1. CASE AnswerStream(c)
        BY <1>1, <2>1, ResponseIsSent DEF AnswerStream
    <2> QED BY <1>2, <2>1, MadeForever
<1>3. CASE Result(c) \in pending[Caller[c]]
    <2>1. CASE InWire(Caller[c], Response(c))
        <3>1. ASSUME ~InWire(Caller[c], Response(c))'
              PROVE  event'[c] = c /\ pc'[c] \in {"sending", "waiting", "killed"}
            <4>1. Deliver(Caller[c]) /\ Head(wire[Caller[c]]) = Response(c)
                BY <1>1, <2>1, <3>1, Remains, ReadKinds
            <4> QED BY <1>3, <4>1, ResultDelivered
        <3> QED BY <3>1
    <2>2. CASE event[c] = c /\ pc[c] \in {"sending", "waiting", "killed"}
        BY <1>3, <2>2, ResponseKept
    <2> QED BY <1>1, <1>2, <1>3, <2>1, <2>2 DEF Claimable, Forsaken
<1>4. CASE Result(c) \notin pending[Caller[c]]
    <2>1. ChannelMade(Caller[c]) /\ wire[Caller[c]] # <<>> /\ Head(wire[Caller[c]]) = Make(Result(c))
        BY <1>1, <1>4, PendingMoves
    <2>2. hpc[c] \in {"channel", "refused", "gone"} \/ InWire(Caller[c], Response(c))
        BY <1>1, <2>1, HeadContents DEF ResultsUnread
    <2>3. CASE InWire(Caller[c], Response(c))
        <3>1. Head(wire[Caller[c]]) # Response(c)
            BY <1>1, <2>1, PacketsDiffer
        <3> QED BY <1>1, <2>3, <3>1, Remains
    <2> QED BY <1>2, <2>2, <2>3
<1> QED BY <1>3, <1>4

LEMMA StreamsStep ==
    ASSUME TypeOK, RepliesExist, HandlersFollow, RequestsOnce, WaitersAreCalls, Addressed,
           RequestsTravel, ParamsUnread, ResultsMade, ResultsUnread, StreamsAreClaimable, [Next]_vars
    PROVE  StreamsAreClaimable'
<1> SUFFICES ASSUME NEW s \in Sides, ~Broken(s)', link', NEW ch \in pending'[s]
             PROVE  Claimable(s, ch)' \/ Forsaken(ch)' \/ InWire(s, Destroy(ch))'
    BY DEF StreamsAreClaimable
<1>1. link /\ ~Broken(s)
    BY LinkStays, BrokenForever
<1>2. ch \in Channels /\ s = Other(Maker(ch))
    <2>1. ch \in Channels
        BY TypeStep DEF TypeOK
    <2>2. Addressed'
        BY AddressedStep
    <2> QED BY <2>1, <2>2 DEF Addressed
<1>3. ch \in pending[s] => Claimable(s, ch) \/ Forsaken(ch) \/ InWire(s, Destroy(ch))
    BY <1>1 DEF StreamsAreClaimable
<1>4. CASE InWire(s, Destroy(ch))
    <2>1. ASSUME ~InWire(s, Destroy(ch))' PROVE FALSE
        <3>1. ChannelDestroyed(s) /\ Head(wire[s]) = Destroy(ch)
            BY <1>2, <1>4, <2>1, Remains, ReadKinds
        <3>2. pending' = Without(s, ch)
            BY <3>1 DEF ChannelDestroyed, Destroy
        <3> QED BY <3>2 DEF Without, TypeOK
    <2> QED BY <2>1
<1>5. CASE ch \in pending[s] => Claimable(s, ch) \/ Forsaken(ch)
    <2>1. PICK c \in Calls : ch = Param(c) \/ ch = Result(c)
        BY <1>2, ChannelFacts
    <2>2. CASE ch = Param(c)
        <3>1. s = Callee(c)
            BY <1>2, <2>2, ChannelFacts
        <3>2. ~Forsaken(ch)
            BY <1>2, <2>2, ChannelFacts DEF Forsaken
        <3> QED BY <1>5, <2>2, <3>1, <3>2, ParamClaimable
    <2>3. CASE ch = Result(c)
        <3>1. s = Caller[c]
            BY <1>2, <2>3, ChannelFacts
        <3> QED BY <1>5, <2>3, <3>1, ResultClaimable
    <2> QED BY <2>1, <2>2, <2>3
<1> QED BY <1>3, <1>4, <1>5

\* The inductive invariant behind the claims.
StreamInv ==
    /\ CallInv /\ CallersReachable /\ WaitersAreCalls
    /\ Addressed /\ MadeBefore /\ RequestsTravel /\ ParamsUnread /\ ResultsMade /\ ResultsUnread
    /\ StreamsAreClaimable

\* A sub channel that waits at a live peer will be claimed by the request, the handler, the
\* response or the call that names it, or is about to be destroyed: whatever is refused or lost,
\* and whoever is killed, none stays in the queue without an owner (peer.cpp:406-409, 450-455,
\* 477-492 and 562-565), but for the result of a call whose waiter had the response when the call
\* was killed, or got it afterwards (328, 347-352).
THEOREM PendingStreamsAreClaimable == Spec => []StreamsAreClaimable
<1>1. Init => StreamInv
    <2> SUFFICES ASSUME Init PROVE StreamInv
        OBVIOUS
    <2>1. /\ \A s \in Sides : wire[s] = <<>> /\ pending[s] = {} /\ waiters[s] = {}
          /\ \A c \in Calls : pc[c] = "idle"
        BY DEF Init
    <2>2. \A s \in Sides : \A p : ~InWire(s, p)
        BY <2>1 DEF InWire
    <2>3. CallInv
        BY CallInvInit
    <2>4. Addressed /\ ParamsUnread /\ ResultsMade /\ ResultsUnread
        BY <2>1, <2>2, SideTypes DEF Addressed, ParamsUnread, ResultsMade, ResultsUnread
    <2>5. MadeBefore
        <3>1. \A x, y : Ahead(<<>>, x, y)
            BY DEF Ahead
        <3> QED BY <2>1, <3>1, SideTypes DEF MadeBefore
    <2>6. RequestsTravel /\ StreamsAreClaimable /\ CallersReachable /\ WaitersAreCalls
        BY <2>1 DEF RequestsTravel, StreamsAreClaimable, CallersReachable, WaitersAreCalls
    <2> QED BY <2>3, <2>4, <2>5, <2>6 DEF StreamInv
<1>2. StreamInv /\ [Next]_vars => StreamInv'
    <2> SUFFICES ASSUME StreamInv, [Next]_vars PROVE StreamInv'
        OBVIOUS
    <2>1. CallInv' /\ CallersReachable' /\ WaitersAreCalls'
        BY CallInvStep, CallersReachableStep, WaitersAreCallsStep DEF StreamInv, CallInv
    <2>2. Addressed' /\ MadeBefore' /\ RequestsTravel' /\ ParamsUnread'
        BY AddressedStep, MadeBeforeStep, RequestsTravelStep, ParamsUnreadStep DEF StreamInv, CallInv
    <2>3. ResultsMade' /\ ResultsUnread' /\ StreamsAreClaimable'
        BY ResultsMadeStep, ResultsUnreadStep, StreamsStep DEF StreamInv, CallInv
    <2> QED BY <2>1, <2>2, <2>3 DEF StreamInv
<1>3. StreamInv => StreamsAreClaimable
    BY DEF StreamInv
<1> QED BY <1>1, <1>2, <1>3, PTL DEF Spec
=============================================================================
