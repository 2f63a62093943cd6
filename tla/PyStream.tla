------------------------------ MODULE PyStream ------------------------------
(***************************************************************************)
(* A file that travels with a call of the Python lafrpc, as an argument or *)
(* as the result (python/lafrpc/peer.py, base.py, sendfile.py): the stream *)
(* gets a virtual channel, made by the side that announces it and taken by *)
(* the other one from the pending channels; one task reads the file and    *)
(* sends it, one receives and writes it.                                   *)
(*                                                                         *)
(* The maker is the caller for an argument and the handler for a result,   *)
(* the taker is the other one.  Flow control and the rest of the channel   *)
(* are in PyChannel, the rest of the call is in PyPeer.                    *)
(***************************************************************************)
EXTENDS Integers, Sequences, Subsequences

CONSTANTS MaxSize,     \* bound on the size of a file
          BLOCK_SIZE   \* RpcFile.BLOCK_SIZE

ASSUME StreamAssumption == MaxSize \in Nat /\ BLOCK_SIZE \in Nat \ {0}

VARIABLES
    kind,   \* the stream is an argument or the result
    file,   \* what RpcFile announces, and what is really on the disk
    mk,     \* the task of the Peer that announces the stream
    tk,     \* the task of the Peer that takes it
    me,     \* the maker's end of the channel
    te,     \* the taker's end
    ready,  \* UseStream.ready of the maker is set
    queue,  \* the sending queue of the maker
    wire,   \* on its way to the taker
    back,   \* on its way to the maker
    rx,     \* the receiving queue of the taker's end
    sender, receiver,   \* RpcFile.read_from and RpcFile.write_to
    count,  \* the bytes that the sender has sent
    got,    \* what the receiver has written
    up,     \* the network carries what is written
    lost    \* the sides that know that it does not

peerVars == <<mk, tk, ready>>
chanVars == <<me, te, rx>>
netVars == <<queue, wire, back>>
fileVars == <<sender, receiver, count, got>>
envVars == <<kind, file, up, lost>>
vars == <<peerVars, chanVars, netVars, fileVars, envVars>>

\* The file may have changed since its size and its hash were taken.
Files == [size : 0 .. MaxSize, bytes : 0 .. MaxSize + 1, hash : {"none", "right", "wrong"}]

\* The bytes of a file from the m-th, excluded, to the n-th.
Bytes(m, n) == [i \in 1 .. n - m |-> m + i]
Block(m, n) == [kind |-> "block", bytes |-> Bytes(m, n)]
Message(k) == [kind |-> k, bytes |-> <<>>]
Make == Message("make")
Announce == Message("announce")
Destroy == Message("destroy")

Sending == {"waiting", "reading", "queued", "confirming"}
Abandoned == {"ignored", "refused", "gone"}

TypeOK ==
    /\ kind \in {"argument", "result"}
    /\ file \in Files
    \* "sending": the packet that announces the stream is not written yet; "waiting":
    \* the caller waits for the answer; "unwoken": for a packet that was dropped.
    /\ mk \in {"idle", "sending", "waiting", "done", "failed", "gone", "unwoken"}
    \* "refused": there was no channel to take; "ignored": rejected, or too late.
    /\ tk \in {"none", "told", "taken", "done"} \cup Abandoned
    /\ me \in {"none", "open", "closed"}
    /\ te \in {"none", "pending", "open", "closed", "dropped"}
    /\ ready \in BOOLEAN
    /\ back \in Seq({"answer", "destroy"})
    /\ sender \in Sending \cup {"idle", "ok", "failed", "killed", "unwoken"}
    /\ receiver \in {"idle", "receiving", "ok", "failed", "full", "killed"}
    /\ count \in 0 .. file.bytes
    /\ Len(got) <= file.bytes
    /\ lost \subseteq {"maker", "taker"} /\ (lost # {} => ~up)
    \* A stream is ready once it was announced or could not be.
    /\ ready <=> mk \notin {"idle", "sending", "unwoken"}

Init ==
    /\ kind \in {"argument", "result"}
    /\ file \in Files
    /\ mk = "idle" /\ tk = "none"
    /\ me = "none" /\ te = "none"
    /\ ready = FALSE
    /\ queue = <<>> /\ wire = <<>> /\ back = <<>> /\ rx = <<>>
    /\ sender = "idle" /\ receiver = "idle"
    /\ count = 0 /\ got = <<>>
    /\ up = TRUE /\ lost = {}

-----------------------------------------------------------------------------
(* The maker: Peer._call with a stream among the arguments, Peer._handle_request with *)
(* a stream as the result                                                             *)

\* The channel is made and the stream initialised, and the caller or the handler
\* waits until the packet is written.
MakeStream ==
    /\ mk = "idle" /\ "maker" \notin lost
    /\ me' = "open"
    /\ queue' = queue \o <<Make, Announce>>
    /\ mk' = "sending"
    /\ UNCHANGED <<tk, ready, te, rx, wire, back, fileVars, envVars>>

MakeArgument == kind = "argument" /\ MakeStream
MakeResult == kind = "result" /\ MakeStream

\* Wrong: a stream that was not announced does not become ready.
CannotPackUnready ==
    /\ mk = "idle" /\ "maker" \notin lost
    /\ me' = "open"
    /\ queue' = Append(queue, Make)
    /\ mk' = "failed"
    /\ UNCHANGED <<tk, ready, te, rx, wire, back, fileVars, envVars>>

\* The arguments or the result cannot be serialised: the stream is ready all the same.
CannotPack ==
    /\ mk = "idle" /\ "maker" \notin lost
    /\ me' = "open"
    /\ queue' = Append(queue, Make)
    /\ mk' = "failed"
    /\ ready' = TRUE
    /\ UNCHANGED <<tk, te, rx, wire, back, fileVars, envVars>>

\* A packet is written, and whoever waits for it is woken.
Written ==
    LET p == Head(queue) IN
    /\ "maker" \notin lost /\ queue # <<>>
    /\ queue' = Tail(queue)
    /\ wire' = IF up THEN Append(wire, p) ELSE wire
    /\ IF p = Announce /\ mk = "sending"
       THEN mk' = (IF kind = "argument" THEN "waiting" ELSE "done") /\ ready' = TRUE
       ELSE UNCHANGED <<mk, ready>>
    /\ IF p.kind = "block" /\ sender = "queued"
       THEN sender' = "reading" /\ count' = count + Len(p.bytes)
       ELSE UNCHANGED <<sender, count>>
    /\ UNCHANGED <<tk, chanVars, back, receiver, got, envVars>>

\* Wrong: the stream of a call that was interrupted does not become ready.
InterruptUnready ==
    /\ kind = "argument" /\ mk \in {"sending", "waiting"}
    /\ mk' = "gone"
    /\ UNCHANGED <<tk, ready, chanVars, netVars, fileVars, envVars>>

\* The caller is killed or times out.
InterruptCall ==
    /\ kind = "argument" /\ mk \in {"sending", "waiting"}
    /\ mk' = "gone"
    /\ ready' = TRUE
    /\ UNCHANGED <<tk, chanVars, netVars, fileVars, envVars>>

\* What is queued for the channel is not sent any more; the rest keeps its order.
WithoutBlocks(q) == Kept(q, {i \in DOMAIN q : q[i].kind # "block"})

\* What is queued for the channel is dropped, and the sender not woken (see PyChannel).
DropBlocks ==
    /\ queue' \in WithoutBlocks(queue)
    /\ sender' = IF sender = "queued" THEN "unwoken" ELSE sender

\* Nobody refers to the stream any more, and its channel closes itself.
MakerDrops ==
    /\ me = "open" /\ mk \in {"done", "gone", "failed"} /\ sender \notin Sending
    /\ me' = "closed"
    /\ \E q \in WithoutBlocks(queue) : queue' = Append(q, Destroy)
    /\ UNCHANGED <<peerVars, te, rx, wire, back, fileVars, envVars>>

\* The answer, or the end of the taker's end of the channel.
MakerReceives ==
    /\ "maker" \notin lost /\ back # <<>>
    /\ back' = Tail(back)
    /\ IF Head(back) = "answer"
       THEN /\ mk' = IF mk = "waiting" THEN "done" ELSE mk
            /\ UNCHANGED <<me, queue, sender>>
       ELSE IF me = "open" THEN me' = "closed" /\ DropBlocks /\ UNCHANGED mk
       ELSE UNCHANGED <<mk, me, queue, sender>>
    /\ UNCHANGED <<tk, ready, te, rx, wire, receiver, count, got, envVars>>

-----------------------------------------------------------------------------
(* The taker: Peer._handle_request, or the caller whose answer holds a stream *)

\* Wrong: looks for the channel among the pending ones only.
TakerReceivesPending ==
    LET p == Head(wire) IN
    /\ "taker" \notin lost /\ wire # <<>>
    /\ wire' = Tail(wire)
    /\ te' = CASE p = Make -> "pending"
               [] p = Destroy /\ te = "pending" -> "dropped"
               [] OTHER -> te
    /\ tk' = IF p = Announce /\ tk = "none" THEN "told" ELSE tk
    /\ rx' = IF te \in {"pending", "open"} /\ p.kind = "block" THEN Append(rx, p) ELSE rx
    /\ UNCHANGED <<mk, ready, me, queue, back, fileVars, envVars>>

\* The receiving task of the channel.  Blocks that come before the channel is taken
\* wait in it.
TakerReceives ==
    LET p == Head(wire) IN
    /\ "taker" \notin lost /\ wire # <<>>
    /\ wire' = Tail(wire)
    /\ te' = CASE p = Make -> "pending"
               [] p = Destroy -> IF te = "pending" THEN "dropped" ELSE "closed"
               [] OTHER -> te
    /\ tk' = IF p = Announce /\ tk = "none" THEN "told" ELSE tk
    /\ rx' = IF te \in {"pending", "open"} /\ p.kind = "block" THEN Append(rx, p) ELSE rx
    /\ UNCHANGED <<mk, ready, me, queue, back, fileVars, envVars>>

\* Wrong: what came before the channel was taken is forgotten.
TakeAnew ==
    /\ tk = "told"
    /\ IF te = "pending"
       THEN /\ te' = "open" /\ tk' = "taken" /\ rx' = <<>>
            /\ receiver' = IF file.size = 0 THEN "ok" ELSE "receiving"
       ELSE tk' = "refused" /\ UNCHANGED <<te, rx, receiver>>
    /\ UNCHANGED <<mk, ready, me, netVars, sender, count, got, envVars>>

\* The channel is among the pending ones and the stream goes to the application; or it
\* was destroyed before, and _set_ready() of a stream that was never initialised raises,
\* so that the call is not answered.
Take ==
    /\ tk = "told"
    /\ IF te = "pending"
       THEN /\ te' = "open" /\ tk' = "taken"
            /\ receiver' = IF file.size = 0 THEN "ok" ELSE "receiving"
       ELSE tk' = "refused" /\ UNCHANGED <<te, receiver>>
    /\ UNCHANGED <<mk, ready, me, rx, netVars, sender, count, got, envVars>>

TakeArgument == kind = "argument" /\ Take
TakeResult == kind = "result" /\ Take

\* The request is not authorised, and never answered.
Reject ==
    /\ kind = "argument" /\ tk = "told"
    /\ tk' = "ignored"
    /\ UNCHANGED <<mk, ready, chanVars, netVars, fileVars, envVars>>

\* The caller that waits for the result is killed or times out: no waiter is left.
InterruptWaiter ==
    /\ kind = "result" /\ tk = "none"
    /\ tk' = "gone"
    /\ UNCHANGED <<mk, ready, chanVars, netVars, fileVars, envVars>>

\* The method returns once it has written the file, and the answer is sent.
MethodEnds ==
    /\ tk = "taken" /\ receiver \notin {"idle", "receiving"}
    /\ tk' = "done"
    /\ back' = IF kind = "argument" /\ up THEN Append(back, "answer") ELSE back
    /\ UNCHANGED <<mk, ready, chanVars, queue, wire, fileVars, envVars>>

\* Nobody refers to the stream any more.
TakerDrops ==
    /\ te = "open" /\ tk = "done"
    /\ te' = "closed"
    /\ back' = IF up THEN Append(back, "destroy") ELSE back
    /\ UNCHANGED <<peerVars, me, rx, queue, wire, fileVars, envVars>>

-----------------------------------------------------------------------------
(* RpcFile.read_from *)

SenderStarts ==
    /\ sender = "idle" /\ me = "open"
    /\ sender' = IF file.size = 0 THEN "ok" ELSE "waiting"
    /\ UNCHANGED <<peerVars, chanVars, netVars, receiver, count, got, envVars>>

\* wait_for_ready()
SenderReady ==
    /\ sender = "waiting" /\ ready
    /\ sender' = "reading"
    /\ UNCHANGED <<peerVars, chanVars, netVars, receiver, count, got, envVars>>

\* A block is read and sent.
SendBlock ==
    LET end == IF count + BLOCK_SIZE < file.bytes THEN count + BLOCK_SIZE ELSE file.bytes IN
    /\ sender = "reading" /\ count < file.bytes /\ me = "open" /\ "maker" \notin lost
    /\ queue' = Append(queue, Block(count, end))
    /\ sender' = "queued"
    /\ UNCHANGED <<peerVars, chanVars, wire, back, receiver, count, got, envVars>>

\* Wrong: does not wait for the receiver.
SendingEndsAtOnce ==
    /\ sender = "reading"
    /\ sender' = IF count = file.size THEN "ok" ELSE "failed"
    /\ UNCHANGED <<peerVars, chanVars, netVars, receiver, count, got, envVars>>

\* The end of the file, or it cannot be read any more, or the channel is closed.
SendingEnds ==
    /\ sender = "reading"
    /\ sender' = IF count = file.size THEN "confirming" ELSE "failed"
    /\ UNCHANGED <<peerVars, chanVars, netVars, receiver, count, got, envVars>>

\* recv_packet(), to be sure that all is sent, fails when the receiver closes the channel.
Confirmed ==
    /\ sender = "confirming" /\ me = "closed"
    /\ sender' = "ok"
    /\ UNCHANGED <<peerVars, chanVars, netVars, receiver, count, got, envVars>>

\* The application kills the task.
KillSender ==
    /\ sender \in Sending
    /\ sender' = "killed"
    /\ UNCHANGED <<peerVars, chanVars, netVars, receiver, count, got, envVars>>

-----------------------------------------------------------------------------
(* RpcFile.write_to *)

Verdict(written) ==
    IF Len(written) = file.size /\ file.hash # "wrong" THEN "ok" ELSE "failed"

\* A block is received and written; the last one ends the transfer.
ReceiveBlock ==
    /\ receiver = "receiving" /\ rx # <<>>
    /\ rx' = Tail(rx)
    /\ got' = got \o Head(rx).bytes
    /\ receiver' = IF Len(got') >= file.size THEN Verdict(got') ELSE "receiving"
    /\ UNCHANGED <<peerVars, me, te, netVars, sender, count, envVars>>

\* The file cannot be written.
DiskFull ==
    /\ receiver = "receiving" /\ rx # <<>>
    /\ rx' = Tail(rx)
    /\ receiver' = "full"
    /\ UNCHANGED <<peerVars, me, te, netVars, sender, count, got, envVars>>

\* The channel is closed and holds nothing more.
ReceivingEnds ==
    /\ receiver = "receiving" /\ rx = <<>> /\ te = "closed"
    /\ receiver' = Verdict(got)
    /\ UNCHANGED <<peerVars, chanVars, netVars, sender, count, got, envVars>>

\* The application kills the task.
KillReceiver ==
    /\ receiver = "receiving"
    /\ receiver' = "killed"
    /\ UNCHANGED <<peerVars, chanVars, netVars, sender, count, got, envVars>>

-----------------------------------------------------------------------------
(* The loss of the connection *)

LinkFails ==
    /\ up = TRUE
    /\ up' = FALSE
    /\ wire' = <<>> /\ back' = <<>>
    /\ UNCHANGED <<peerVars, chanVars, queue, fileVars, kind, file, lost>>

\* SocketDataChannel.close() and Peer.handle_packet: the queue is emptied, its senders
\* not woken, the channels are closed and the waiters woken.
MakerLoses ==
    /\ ~up /\ "maker" \notin lost
    /\ lost' = lost \cup {"maker"}
    /\ queue' = <<>>
    /\ me' = IF me = "open" THEN "closed" ELSE me
    /\ mk' = CASE mk = "sending" -> "unwoken" [] mk = "waiting" -> "gone" [] OTHER -> mk
    /\ sender' = IF sender = "queued" THEN "unwoken" ELSE sender
    /\ UNCHANGED <<tk, ready, te, rx, wire, back, receiver, count, got, kind, file, up>>

TakerLoses ==
    /\ ~up /\ "taker" \notin lost
    /\ lost' = lost \cup {"taker"}
    /\ te' = CASE te = "pending" -> "dropped" [] te = "open" -> "closed" [] OTHER -> te
    /\ tk' = IF tk \in {"none", "told"} THEN "gone" ELSE tk
    /\ UNCHANGED <<mk, ready, me, rx, netVars, fileVars, kind, file, up>>

-----------------------------------------------------------------------------

PeerStep ==
    \/ MakeArgument \/ MakeResult \/ CannotPack \/ InterruptCall
    \/ TakeArgument \/ TakeResult \/ Reject \/ InterruptWaiter \/ MethodEnds
ChannelStep == Written \/ MakerReceives \/ TakerReceives \/ MakerDrops \/ TakerDrops
SenderStep == SenderReady \/ SendBlock \/ SendingEnds \/ Confirmed
ReceiverStep == ReceiveBlock \/ DiskFull \/ ReceivingEnds
LossStep == MakerLoses \/ TakerLoses

Next ==
    \/ PeerStep \/ ChannelStep \/ SenderStarts \/ SenderStep \/ KillSender
    \/ ReceiverStep \/ KillReceiver \/ LinkFails \/ LossStep

Spec == Init /\ [][Next]_vars

\* The tasks of the channel, of the peers and of the transfer run, the application starts
\* to send what it has announced, and a lost connection is noticed.
Fairness ==
    /\ WF_vars(Written) /\ WF_vars(MakerReceives) /\ WF_vars(TakerReceives)
    /\ WF_vars(MakerDrops) /\ WF_vars(TakerDrops)
    /\ WF_vars(Take) /\ WF_vars(MethodEnds)
    /\ WF_vars(SenderStarts) /\ WF_vars(SenderStep) /\ WF_vars(ReceiverStep)
    /\ WF_vars(MakerLoses) /\ WF_vars(TakerLoses)

FairSpec == Spec /\ Fairness

-----------------------------------------------------------------------------
(* Properties *)

\* A receiver that succeeds has written the announced number of bytes, in the order of the
\* file, and a hash that was announced fits, however early the blocks came and whenever the
\* channel was closed (sendfile.py 92-114).
ReceivedIsFile ==
    receiver = "ok" => got = Bytes(0, file.size) /\ (got = <<>> \/ file.hash # "wrong")

\* A sender that succeeds while the connection holds waited until the receiver was done
\* with the whole file, unless the receiver was killed or could not write (sendfile.py
\* 152-156, "ensure all data sent").
ConfirmedIsReceived ==
    sender = "ok" /\ up /\ file.size > 0 /\ receiver \notin {"full", "killed"} =>
        receiver \in {"ok", "failed"} /\ Len(got) >= file.size

\* A sender ends: it becomes ready, and what it waits for at the end is sent by whoever
\* took the stream.  It does not where the stream was never announced or never taken, nor
\* when its block was dropped, and after the loss of the connection it may not (base.py
\* 50-52, sendfile.py 123-156, peer.py 241-244, 477-480).
SenderEnds ==
    sender \in Sending ~>
        sender \notin Sending \/ ~up \/ tk \in Abandoned \/ mk = "failed"

\* A receiver ends, by the last block or by the end of the channel.  The one case where
\* it does not: a sender that ended before the end of the file leaves the channel open while
\* the call it belongs to waits for the answer (sendfile.py 94-98, peer.py 192-253).
ReceiverEnds ==
    receiver = "receiving" ~>
        \/ receiver # "receiving"
        \/ kind = "argument" /\ mk = "waiting" /\ sender \in {"failed", "killed"}
=============================================================================
