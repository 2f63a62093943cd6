------------------------------ MODULE PyChannel ------------------------------
(***************************************************************************)
(* The Python data channel of lafrpc (python/lafrpc/network.py) on the     *)
(* gevent scheduler: the two SocketDataChannels of one connection, each    *)
(* with its sending, receiving and keepalive tasks, the virtual channels   *)
(* multiplexed over it, flow control, and the tasks of the application     *)
(* that send and receive.                                                  *)
(*                                                                         *)
(* Greenlets switch only where they block, so an action is the code from   *)
(* one blocking call to the next.  Packets carry the channel they are for, *)
(* a number that counts the packets of that channel and the sender that    *)
(* waits until they are written.                                           *)
(***************************************************************************)
EXTENDS Naturals, Sequences, Subsequences

CONSTANTS Subs,        \* the virtual channels that may be made
          Main,        \* the channel of the connection itself
          Maker,       \* the side that makes each virtual channel
          Senders,     \* the tasks that send packets
          Receivers,   \* the tasks that receive them
          At,          \* the side of each task
          On,          \* the channel it uses
          Nobody,      \* no sender waits for the packet
          NoPacket,    \* the sending task waits for a packet
          High,        \* DataChannel.capacity as it is made
          Low,         \* the capacity that a file transfer sets
          MaxPackets   \* bound on the packets sent in one direction of each channel

Sides == {"a", "b"}
Other(s) == IF s = "a" THEN "b" ELSE "a"
Channels == Subs \cup {Main}
Tasks == Senders \cup Receivers

ASSUME ChannelAssumption ==
    /\ Main \notin Subs /\ Nobody \notin Senders
    /\ Senders \cap Receivers = {}
    /\ Maker \in [Subs -> Sides]
    /\ At \in [Tasks -> Sides] /\ On \in [Tasks -> Channels]
    /\ MaxPackets \in [Channels -> Nat]
    /\ Low \in Nat \ {0} /\ High \in Nat /\ Low <= High

VARIABLES
    state,     \* each end of a channel; "closed" once its error is set
    closing,   \* how far SocketDataChannel.close() of each side is
    capacity,  \* DataChannel.capacity
    rx,        \* DataChannel.receiving_queue: the numbers of the packets
    go,        \* DataChannel.go_through is set
    pc,        \* where each task is
    sent,      \* the packets given to the sending queue of the channel so far
    got,       \* the packets taken from the receiving queue so far
    queue,     \* SocketDataChannel.sending_queue
    writing,   \* the packet in sendall()
    wire,      \* the packets on their way to each side
    up         \* the network carries what is written

endVars == <<state, capacity, go>>
dataVars == <<rx, sent, got>>
socketVars == <<queue, writing, wire>>
vars == <<endVars, dataVars, socketVars, pc, closing, up>>

Data(c, k, t) == [kind |-> "data", ch |-> c, num |-> k, by |-> t]
Command(kind, c) == [kind |-> kind, ch |-> c, num |-> 0, by |-> Nobody]
Packets == [kind : {"data"}, ch : Channels, num : Nat \ {0}, by : Senders \cup {Nobody}]
           \cup {Command(k, c) : k \in {"slow", "go"}, c \in Channels}
           \cup {Command(k, n) : k \in {"make", "destroy"}, n \in Subs}

ASSUME PacketAssumption == NoPacket \notin Packets

\* MAKE and DESTROY travel on the command channel of the connection, all else in a
\* packet of the channel it is for.
Within(n, p) == p.ch = n /\ p.kind \in {"data", "slow", "go"}

\* The numbers an end can be in: the maker's is never pending, and one that the
\* other side destroyed before it was taken never reaches the application.
EndStates(s, c) ==
    IF c = Main THEN {"open", "closed"}
    ELSE IF s = Maker[c] THEN {"none", "open", "closed"}
    ELSE {"none", "pending", "open", "closed", "dropped"}

TypeOK ==
    /\ state \in [Sides -> [Channels -> {"none", "pending", "open", "closed", "dropped"}]]
    /\ \A s \in Sides, c \in Channels : state[s][c] \in EndStates(s, c)
    \* "begun": the error is set and the tasks are being killed, by one of them or by the
    \* application; "never": the greenlet that does so was killed meanwhile.
    /\ closing \in [Sides -> {"no", "begun", "done", "never"}]
    /\ capacity \in [Sides -> [Channels -> {Low, High}]]
    /\ rx \in [Sides -> [Channels -> Seq(Nat \ {0})]]
    /\ go \in [Sides -> [Channels -> BOOLEAN]]
    \* "stopped": in go_through.wait(), "released": about to return from it; "queued":
    \* in done.wait(); "getting": in receiving_queue.get(); "failed": got an IOError.
    /\ pc \in [Tasks -> {"ready", "stopped", "released", "queued", "getting", "failed"}]
    /\ sent \in [Sides -> [Channels -> Nat]]
    /\ \A s \in Sides, c \in Channels : sent[s][c] <= MaxPackets[c]
    /\ got \in [Sides -> [Channels -> Nat]]
    /\ queue \in [Sides -> Seq(Packets)]
    /\ writing \in [Sides -> Packets \cup {NoPacket}]
    /\ wire \in [Sides -> Seq(Packets)]
    /\ up \in BOOLEAN

ForEach(v) == [s \in Sides |-> [c \in Channels |-> v]]

Init ==
    /\ state = [s \in Sides |-> [c \in Channels |-> IF c = Main THEN "open" ELSE "none"]]
    /\ closing = [s \in Sides |-> "no"]
    /\ capacity = ForEach(High)
    /\ rx = ForEach(<<>>)
    /\ go = ForEach(TRUE)
    /\ pc = [t \in Tasks |-> "ready"]
    /\ sent = ForEach(0)
    /\ got = ForEach(0)
    /\ queue = [s \in Sides |-> <<>>]
    /\ writing = [s \in Sides |-> NoPacket]
    /\ wire = [s \in Sides |-> <<>>]
    /\ up = TRUE

\* is_ok() of the channel, which for a virtual channel asks the connection too.
IsOk(s, c) == state[s][c] \in {"pending", "open"} /\ state[s][Main] = "open"

\* The end is in DataChannel.channels, or the connection's own.
Listens(s, c) == state[s][c] \in {"pending", "open"}

\* The application has the end.
Has(s, c) == state[s][c] \in {"open", "closed"}

\* _put_packet_in_sending_queue, which forgets the packet if the channel is closed.
Put(s, c, p) ==
    queue' = IF IsOk(s, c) THEN [queue EXCEPT ![s] = Append(@, p)] ELSE queue

-----------------------------------------------------------------------------
(* DataChannel.send_packet, send_packet_async and recv_packet *)

\* The packet goes to the sending queue and the sender waits until it is written.
Submit(t) ==
    LET s == At[t] c == On[t] IN
    IF IsOk(s, c)
    THEN /\ Put(s, c, Data(c, sent[s][c] + 1, t))
         /\ sent' = [sent EXCEPT ![s][c] = @ + 1]
         /\ pc' = [pc EXCEPT ![t] = "queued"]
    ELSE /\ pc' = [pc EXCEPT ![t] = "failed"]
         /\ UNCHANGED <<queue, sent>>

\* A sender that was told to slow down waits first.
SendPacket(t) ==
    /\ pc[t] = "ready" /\ Has(At[t], On[t]) /\ sent[At[t]][On[t]] < MaxPackets[On[t]]
    /\ IF go[At[t]][On[t]] THEN Submit(t)
       ELSE pc' = [pc EXCEPT ![t] = "stopped"] /\ UNCHANGED <<queue, sent>>
    /\ UNCHANGED <<endVars, rx, got, writing, wire, closing, up>>

\* It was let go, and sends whether or not it has been stopped again since.
GoOn(t) ==
    /\ pc[t] = "released" /\ sent[At[t]][On[t]] < MaxPackets[On[t]]
    /\ Submit(t)
    /\ UNCHANGED <<endVars, rx, got, writing, wire, closing, up>>

\* The packet is queued, stopped or not, and nobody waits for it.
SendAsync(t) ==
    LET s == At[t] c == On[t] IN
    /\ pc[t] = "ready" /\ Has(s, c) /\ IsOk(s, c) /\ sent[s][c] < MaxPackets[c]
    /\ Put(s, c, Data(c, sent[s][c] + 1, Nobody))
    /\ sent' = [sent EXCEPT ![s][c] = @ + 1]
    /\ UNCHANGED <<endVars, rx, got, writing, wire, pc, closing, up>>

\* Wrong: lets the sender go only when the queue is empty.
PopWhenEmpty(t) ==
    LET s == At[t] c == On[t] IN
    /\ got' = [got EXCEPT ![s][c] = Head(rx[s][c])]
    /\ rx' = [rx EXCEPT ![s][c] = Tail(@)]
    /\ pc' = [pc EXCEPT ![t] = "ready"]
    /\ IF Len(rx[s][c]) = 1 THEN Put(s, c, Command("go", c)) ELSE UNCHANGED queue

\* A packet is taken; one below the capacity, the sender is let go.
Pop(t) ==
    LET s == At[t] c == On[t] IN
    /\ got' = [got EXCEPT ![s][c] = Head(rx[s][c])]
    /\ rx' = [rx EXCEPT ![s][c] = Tail(@)]
    /\ pc' = [pc EXCEPT ![t] = "ready"]
    /\ IF Len(rx[s][c]) = capacity[s][c] THEN Put(s, c, Command("go", c)) ELSE UNCHANGED queue

\* What is in the queue can be read from a closed channel too.
RecvPacket(t) ==
    LET s == At[t] c == On[t] IN
    /\ pc[t] \in {"ready", "getting"} /\ Has(s, c) /\ rx[s][c] # <<>>
    /\ Pop(t)
    /\ UNCHANGED <<endVars, sent, writing, wire, closing, up>>

\* Nothing is there: the receiver waits, or fails if the channel has an error.
RecvNothing(t) ==
    LET s == At[t] c == On[t] IN
    /\ pc[t] = "ready" /\ Has(s, c) /\ rx[s][c] = <<>>
    /\ pc' = [pc EXCEPT ![t] = IF state[s][c] = "closed" THEN "failed" ELSE "getting"]
    /\ UNCHANGED <<endVars, dataVars, socketVars, closing, up>>

\* DataChannel.close() has put an IOError for every getter.
RecvFails(t) ==
    LET s == At[t] c == On[t] IN
    /\ pc[t] = "getting" /\ rx[s][c] = <<>>
    /\ IF c = Main THEN closing[s] = "done" ELSE state[s][c] = "closed"
    /\ pc' = [pc EXCEPT ![t] = "failed"]
    /\ UNCHANGED <<endVars, dataVars, socketVars, closing, up>>

-----------------------------------------------------------------------------
(* DataChannel.close, for the ends D of one side *)

\* Wrong: an open end vanishes like one that was not taken yet.
EndAlike(s, D) ==
    /\ state' = [state EXCEPT ![s] =
                   [c \in Channels |-> IF c \in D /\ Listens(s, c) THEN "dropped" ELSE @[c]]]
    /\ go' = [go EXCEPT ![s] = [c \in Channels |-> c \in D \/ @[c]]]
    /\ pc' = [t \in Tasks |-> IF At[t] = s /\ On[t] \in D /\ pc[t] = "stopped"
                              THEN "released" ELSE pc[t]]

\* Wrong: go_through is left alone.
EndStopped(s, D) ==
    /\ state' = [state EXCEPT ![s] = [c \in Channels |->
                   IF c \notin D THEN @[c]
                   ELSE IF @[c] = "pending" THEN "dropped"
                   ELSE IF @[c] = "open" THEN "closed" ELSE @[c]]]
    /\ UNCHANGED <<go, pc>>

\* Receivers and stopped senders are let go; the errors put for the receivers are read
\* as the error of a closed channel whose queue is empty.
End(s, D) ==
    /\ state' = [state EXCEPT ![s] = [c \in Channels |->
                   IF c \notin D THEN @[c]
                   ELSE IF @[c] = "pending" THEN "dropped"
                   ELSE IF @[c] = "open" THEN "closed" ELSE @[c]]]
    /\ go' = [go EXCEPT ![s] = [c \in Channels |-> c \in D \/ @[c]]]
    /\ pc' = [t \in Tasks |-> IF At[t] = s /\ On[t] \in D /\ pc[t] = "stopped"
                              THEN "released" ELSE pc[t]]

-----------------------------------------------------------------------------
(* SocketDataChannel._do_send *)

TakePacket(s) ==
    /\ closing[s] = "no" /\ writing[s] = NoPacket /\ queue[s] # <<>>
    /\ writing' = [writing EXCEPT ![s] = Head(queue[s])]
    /\ queue' = [queue EXCEPT ![s] = Tail(@)]
    /\ UNCHANGED <<endVars, dataVars, wire, pc, closing, up>>

\* Wrong: nobody is woken.
WrittenSilent(s) ==
    LET p == writing[s] o == Other(s) IN
    /\ closing[s] = "no" /\ p # NoPacket
    /\ writing' = [writing EXCEPT ![s] = NoPacket]
    /\ wire' = IF up /\ closing[o] = "no"
               THEN [wire EXCEPT ![o] = Append(@, p)] ELSE wire
    /\ UNCHANGED <<endVars, dataVars, queue, pc, closing, up>>

\* sendall() returns and the sender of the packet is woken.
Written(s) ==
    LET p == writing[s] o == Other(s) IN
    /\ closing[s] = "no" /\ p # NoPacket
    /\ writing' = [writing EXCEPT ![s] = NoPacket]
    /\ wire' = IF up /\ closing[o] = "no"
               THEN [wire EXCEPT ![o] = Append(@, p)] ELSE wire
    /\ pc' = IF p.by = Nobody THEN pc ELSE [pc EXCEPT ![p.by] = "ready"]
    /\ UNCHANGED <<endVars, dataVars, queue, closing, up>>

-----------------------------------------------------------------------------
(* SocketDataChannel.close *)

\* The error is set, the socket closed and the sending queue emptied.  On gevent
\* send_exception() does not set the event, so that the senders of the packets that
\* are dropped here, or were being written, are not woken.
BeginClose(s) ==
    /\ closing[s] = "no"
    /\ closing' = [closing EXCEPT ![s] = "begun"]
    /\ state' = [state EXCEPT ![s][Main] = "closed"]
    /\ queue' = [queue EXCEPT ![s] = <<>>]
    /\ writing' = [writing EXCEPT ![s] = NoPacket]
    /\ wire' = [wire EXCEPT ![s] = <<>>]
    /\ UNCHANGED <<capacity, go, dataVars, pc, up>>

\* The application closes the channel.
UserClose(s) == BeginClose(s)

\* sendall() raises: the connection was reset, or closed by the other side.
WriteFails(s) ==
    /\ writing[s] # NoPacket /\ (~up \/ closing[Other(s)] # "no")
    /\ BeginClose(s)

\* The receiving task reads an error or the end of the stream.
ReceiveFails(s) ==
    /\ ~up \/ closing[Other(s)] # "no"
    /\ BeginClose(s)

\* Nothing has come for longer than the keepalive timeout.
KeepaliveTimeout(s) ==
    /\ ~up
    /\ BeginClose(s)

\* Wrong: the virtual channels are not closed.
FinishAlone(s) ==
    /\ closing[s] = "begun"
    /\ closing' = [closing EXCEPT ![s] = "done"]
    /\ End(s, {Main})
    /\ UNCHANGED <<capacity, dataVars, socketVars, up>>

\* The tasks are killed, then DataChannel.close() ends the channel and all its
\* virtual channels, which have lost their parent and send nothing.
FinishClose(s) ==
    /\ closing[s] = "begun"
    /\ closing' = [closing EXCEPT ![s] = "done"]
    /\ End(s, Channels)
    /\ UNCHANGED <<capacity, dataVars, socketVars, up>>

\* The greenlet that runs close() is killed while it waits for the tasks it killed: by the
\* application, or by kill_all() if it is a task of the channel itself.
CloserKilled(s) ==
    /\ closing[s] = "begun"
    /\ closing' = [closing EXCEPT ![s] = "never"]
    /\ UNCHANGED <<endVars, dataVars, socketVars, pc, up>>

-----------------------------------------------------------------------------
(* SocketDataChannel._do_receive *)

Reads(s, kind) ==
    /\ closing[s] = "no" /\ up
    /\ wire[s] # <<>> /\ Head(wire[s]).kind = kind
    /\ wire' = [wire EXCEPT ![s] = Tail(@)]
    /\ UNCHANGED <<writing, closing, up>>

\* Wrong: drops the packets of a channel that has not been taken yet.
HandleDataTaken(s) ==
    LET p == Head(wire[s]) c == p.ch IN
    /\ Reads(s, "data")
    /\ IF state[s][c] = "open"
       THEN /\ rx' = [rx EXCEPT ![s][c] = Append(@, p.num)]
            /\ IF Len(rx[s][c]) = capacity[s][c] - 1
               THEN Put(s, c, Command("slow", c)) ELSE UNCHANGED queue
       ELSE UNCHANGED <<rx, queue>>
    /\ UNCHANGED <<endVars, sent, got, pc>>

\* A packet for the application; the one that fills the queue makes the sender slow
\* down.  What is for an unknown channel is dropped.
HandleData(s) ==
    LET p == Head(wire[s]) c == p.ch IN
    /\ Reads(s, "data")
    /\ IF Listens(s, c)
       THEN /\ rx' = [rx EXCEPT ![s][c] = Append(@, p.num)]
            /\ IF Len(rx[s][c]) = capacity[s][c] - 1
               THEN Put(s, c, Command("slow", c)) ELSE UNCHANGED queue
       ELSE UNCHANGED <<rx, queue>>
    /\ UNCHANGED <<endVars, sent, got, pc>>

HandleSlow(s) ==
    LET c == Head(wire[s]).ch IN
    /\ Reads(s, "slow")
    /\ go' = IF Listens(s, c) THEN [go EXCEPT ![s][c] = FALSE] ELSE go
    /\ UNCHANGED <<state, capacity, dataVars, pc, queue>>

\* All that wait in go_through.wait() are let go.
HandleGo(s) ==
    LET c == Head(wire[s]).ch IN
    /\ Reads(s, "go")
    /\ IF Listens(s, c)
       THEN /\ go' = [go EXCEPT ![s][c] = TRUE]
            /\ pc' = [t \in Tasks |-> IF At[t] = s /\ On[t] = c /\ pc[t] = "stopped"
                                      THEN "released" ELSE pc[t]]
       ELSE UNCHANGED <<go, pc>>
    /\ UNCHANGED <<state, capacity, dataVars, queue>>

\* The other side made a virtual channel: it is pending until it is taken.
HandleMake(s) ==
    LET n == Head(wire[s]).ch IN
    /\ Reads(s, "make")
    /\ state' = [state EXCEPT ![s][n] = "pending"]
    /\ capacity' = [capacity EXCEPT ![s][n] = capacity[s][Main]]
    /\ UNCHANGED <<go, dataVars, pc, queue>>

\* What is queued for the virtual channel is not sent any more; the rest keeps its order.
Cleaned(n, q) == Kept(q, {i \in DOMAIN q : ~Within(n, q[i])})

\* The other side closed a virtual channel: it is closed here, unless it already was.
HandleDestroy(s) ==
    LET n == Head(wire[s]).ch IN
    /\ Reads(s, "destroy")
    /\ IF Listens(s, n)
       THEN /\ \E q \in Cleaned(n, queue[s]) : queue' = [queue EXCEPT ![s] = q]
            /\ End(s, {n})
       ELSE UNCHANGED <<queue, state, go, pc>>
    /\ UNCHANGED <<capacity, dataVars>>

-----------------------------------------------------------------------------
(* Virtual channels *)

\* make_channel(), which does not ask whether the connection is ok.
MakeChannel(n) ==
    LET s == Maker[n] IN
    /\ state[s][n] = "none"
    /\ state' = [state EXCEPT ![s][n] = "open"]
    /\ capacity' = [capacity EXCEPT ![s][n] = capacity[s][Main]]
    /\ Put(s, Main, Command("make", n))
    /\ UNCHANGED <<go, dataVars, writing, wire, pc, closing, up>>

\* take_channel() finds the channel among the pending ones.
TakeChannel(n) ==
    LET s == Other(Maker[n]) IN
    /\ state[s][n] = "pending" /\ IsOk(s, Main)
    /\ state' = [state EXCEPT ![s][n] = "open"]
    /\ UNCHANGED <<capacity, go, dataVars, socketVars, pc, closing, up>>

\* Wrong: says nothing to the other side.
CloseSubQuietly(n, s) ==
    /\ state[s][n] = "open"
    /\ End(s, {n})
    /\ \E q \in Cleaned(n, queue[s]) : queue' = [queue EXCEPT ![s] = q]
    /\ UNCHANGED <<capacity, dataVars, writing, wire, closing, up>>

\* VirtualDataChannel.close(), by the application or by the last reference to it.  DESTROY
\* is queued, and what is queued for the channel is dropped, its senders not woken.
CloseSub(n, s) ==
    /\ state[s][n] = "open"
    /\ End(s, {n})
    /\ IF closing[s] = "no"
       THEN \E q \in Cleaned(n, Append(queue[s], Command("destroy", n))) :
                queue' = [queue EXCEPT ![s] = q]
       ELSE UNCHANGED queue
    /\ UNCHANGED <<capacity, dataVars, writing, wire, closing, up>>

\* A file transfer sets a smaller capacity, whatever is in the queue.  It matters only
\* where packets are received.
LowerCapacity(n, s) ==
    /\ state[s][n] = "open" /\ capacity[s][n] = High
    /\ \E t \in Receivers : At[t] = s /\ On[t] = n
    /\ capacity' = [capacity EXCEPT ![s][n] = Low]
    /\ UNCHANGED <<state, go, dataVars, socketVars, pc, closing, up>>

\* The network fails: a reset, which the tasks see, or a silence, which keepalive ends.
LinkFails ==
    /\ up = TRUE
    /\ up' = FALSE
    /\ wire' = [s \in Sides |-> <<>>]
    /\ UNCHANGED <<endVars, dataVars, queue, writing, pc, closing>>

-----------------------------------------------------------------------------

SenderStep(t) == SendPacket(t) \/ GoOn(t) \/ SendAsync(t)
ReceiverStep(t) == RecvPacket(t) \/ RecvNothing(t) \/ RecvFails(t)

Handle(s) ==
    \/ HandleData(s) \/ HandleSlow(s) \/ HandleGo(s) \/ HandleMake(s) \/ HandleDestroy(s)

\* The sending, receiving and keepalive tasks, and the one that closes the channel.
TaskStep(s) ==
    \/ TakePacket(s) \/ Written(s) \/ WriteFails(s)
    \/ Handle(s) \/ ReceiveFails(s)
    \/ KeepaliveTimeout(s) \/ FinishClose(s)

SideStep(s) == TaskStep(s) \/ UserClose(s) \/ CloserKilled(s)

SubStep(n) ==
    \/ MakeChannel(n) \/ TakeChannel(n)
    \/ \E s \in Sides : CloseSub(n, s) \/ LowerCapacity(n, s)

Next ==
    \/ \E t \in Senders : SenderStep(t)
    \/ \E t \in Receivers : ReceiverStep(t)
    \/ \E s \in Sides : SideStep(s)
    \/ \E n \in Subs : SubStep(n)
    \/ LinkFails

Spec == Init /\ [][Next]_vars

\* The tasks of the channel run, close() goes on unless its greenlet is killed, and the
\* application takes the channels that are made for it and reads what it receives.
Fairness ==
    /\ \A s \in Sides : WF_vars(TaskStep(s))
    /\ \A t \in Receivers : WF_vars(ReceiverStep(t))
    /\ \A t \in Senders : WF_vars(GoOn(t))
    /\ \A n \in Subs : WF_vars(TakeChannel(n))

FairSpec == Spec /\ Fairness

-----------------------------------------------------------------------------
(* Properties *)

\* Both ends of the channel are there, and so is the connection.
Joined(c) == up /\ \A s \in Sides : closing[s] = "no" /\ Listens(s, c)

\* What is between the sender of side s and the receiver on the other side, in order.
Sending(s) == (IF writing[s] = NoPacket THEN <<>> ELSE <<writing[s]>>) \o queue[s]
Passing(s) == wire[Other(s)] \o Sending(s)

\* The data of channel c in ps are the packets after the m-th up to the n-th, in order.
IsData(p, c) == p.kind = "data" /\ p.ch = c
Continues(ps, c, m, n) ==
    LET data == {i \in DOMAIN ps : IsData(ps[i], c)} IN
    /\ m <= n /\ {ps[i].num : i \in data} = m + 1 .. n
    /\ \A i, j \in data : i < j => ps[i].num < ps[j].num

\* While both ends are there no packet is lost, repeated or overtaken: the receiving queue
\* continues what was taken, and what is on its way continues the receiving queue up to the
\* last packet sent, whether or not the channel was taken before its packets came (network.py
\* 243-256, 270-274, 284-289).
NothingLost ==
    \A s \in Sides, c \in Channels :
        Joined(c) =>
            LET here == rx[Other(s)][c]  taken == got[Other(s)][c] IN
            /\ \A i \in DOMAIN here : here[i] = taken + i
            /\ Continues(Passing(s), c, taken + Len(here), sent[s][c])

\* A sender is stopped for a reason: the other side's queue is full to its capacity of
\* now, or the command that lets the sender go is on its way.  Nobody is stopped by a
\* command that was overtaken, sent twice or skipped because the queue grew past the
\* capacity or the capacity was lowered (network.py 223-226, 247-250, 316-323).
StoppedHasReason ==
    \A s \in Sides, c \in Channels :
        Joined(c) /\ ~go[s][c] =>
            \/ Len(rx[Other(s)][c]) >= capacity[Other(s)][c]
            \/ \E i \in 1 .. Len(Passing(Other(s))) :
                   Passing(Other(s))[i] = Command("go", c)

\* A sender that waits for its packet to be written does so while the packet is there:
\* only the end of the connection or of its own virtual channel takes it away and leaves the
\* sender waiting (network.py 498-501, 548-549, 605-625).
QueuedHasPacket ==
    \A t \in Senders :
        pc[t] = "queued" /\ closing[At[t]] = "no" /\ Listens(At[t], On[t]) =>
            \E i \in 1 .. Len(Sending(At[t])) : Sending(At[t])[i].by = t

\* A channel that ends lets go of the tasks that wait to receive from it, whoever ends
\* it and how, unless the greenlet that closes the connection is killed.  Who comes to wait
\* when close() is done is left out: a channel that was made on the closed connection is
\* never closed (network.py 170-177, 358-374, 467-490, 662-674).
ReceiversReleased ==
    \A t \in Receivers :
        pc[t] = "getting" /\ ~IsOk(At[t], On[t]) /\ closing[At[t]] # "done" ~>
            pc[t] # "getting" \/ closing[At[t]] = "never"

\* A sender that was told to slow down goes on, since what it waits for is read in the end,
\* or else fails with the channel (network.py 233, 363).
StoppedSendersGoOn ==
    \A t \in Senders :
        pc[t] = "stopped" ~> pc[t] # "stopped" \/ closing[At[t]] = "never"

\* A virtual channel that is closed on one side is closed on the other in the end,
\* taken or not (network.py 302-315, 336-340, 364-370).
SubsCloseTogether ==
    \A s \in Sides, n \in Subs :
        state[s][n] \in {"closed", "dropped"} ~>
            \/ state[Other(s)][n] \in {"closed", "dropped"}
            \/ state[Other(s)][n] = "none" /\ closing[Other(s)] # "no"
            \/ closing[Other(s)] = "never"
=============================================================================
