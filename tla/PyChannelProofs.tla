--------------------------- MODULE PyChannelProofs ---------------------------
(***************************************************************************)
(* Proofs about PyChannel, for any channels, tasks, capacities and numbers *)
(* of packets.                                                             *)
(***************************************************************************)
EXTENDS PyChannel, TLAPS, FiniteSetTheorems, SequenceTheorems

InSeq(q, p) == \E i \in DOMAIN q : q[i] = p
Once(q, p) == \A i, j \in DOMAIN q : q[i] = p /\ q[j] = p => i = j

\* The last command for the channel tells the sender to slow down.
EndsSlow(q, c) ==
    \E i \in DOMAIN q :
        q[i] = Command("slow", c) /\ \A j \in DOMAIN q : j > i => q[j] # Command("go", c)

-----------------------------------------------------------------------------
(* Lemmas about packets and sequences of them *)

LEMMA SideTypes ==
    ASSUME NEW s \in Sides
    PROVE  Other(s) \in Sides /\ Other(Other(s)) = s /\ Other(s) # s
    BY DEF Sides, Other

LEMMA PacketTypes ==
    /\ \A c \in Channels : Command("slow", c) \in Packets /\ Command("go", c) \in Packets
    /\ \A n \in Subs : Command("make", n) \in Packets /\ Command("destroy", n) \in Packets
    /\ \A c \in Channels, k \in Nat \ {0}, t \in Senders \cup {Nobody} : Data(c, k, t) \in Packets
    BY DEF Packets, Command, Data

LEMMA CommandsDiffer ==
    ASSUME NEW c, NEW d, NEW j, NEW k, Command(j, c) = Command(k, d)
    PROVE  c = d /\ j = k
    BY DEF Command

LEMMA PacketFields ==
    ASSUME NEW p \in Packets
    PROVE  /\ p.kind \in {"data", "slow", "go", "make", "destroy"}
           /\ p.ch \in Channels
           /\ p.by \in Senders \cup {Nobody}
           /\ p.kind = "data" => p.num \in Nat \ {0}
           /\ p.kind # "data" => p = Command(p.kind, p.ch)
           /\ p.kind \in {"make", "destroy"} => p.ch \in Subs
    BY DEF Packets, Command, Channels

LEMMA AppendFacts ==
    ASSUME NEW q \in Seq(Packets), NEW x \in Packets
    PROVE  /\ Append(q, x) \in Seq(Packets)
           /\ \A p : InSeq(Append(q, x), p) <=> InSeq(q, p) \/ x = p
           /\ \A p : Once(q, p) /\ (x = p => ~InSeq(q, p)) => Once(Append(q, x), p)
           /\ \A c : EndsSlow(Append(q, x), c) <=>
                        \/ x = Command("slow", c)
                        \/ x # Command("go", c) /\ EndsSlow(q, c)
<1> DEFINE r == Append(q, x)
           n == Len(q)
<1>1. /\ r \in Seq(Packets) /\ n \in Nat
      /\ DOMAIN q = 1 .. n /\ DOMAIN r = 1 .. n + 1
      /\ \A i \in 1 .. n : r[i] = q[i]
      /\ r[n + 1] = x
    OBVIOUS
<1> HIDE DEF r, n
<1>2. \A p : InSeq(r, p) <=> InSeq(q, p) \/ x = p
    <2> SUFFICES ASSUME NEW p PROVE InSeq(r, p) <=> InSeq(q, p) \/ x = p
        OBVIOUS
    <2>1. ASSUME InSeq(r, p) PROVE InSeq(q, p) \/ x = p
        BY <1>1, <2>1 DEF InSeq
    <2>2. ASSUME InSeq(q, p) PROVE InSeq(r, p)
        BY <1>1, <2>2 DEF InSeq
    <2>3. ASSUME x = p PROVE InSeq(r, p)
        BY <1>1, <2>3 DEF InSeq
    <2> QED BY <2>1, <2>2, <2>3
<1>3. \A p : Once(q, p) /\ (x = p => ~InSeq(q, p)) => Once(r, p)
    BY <1>1 DEF Once, InSeq
<1>4. \A c : EndsSlow(r, c) <=>
               \/ x = Command("slow", c)
               \/ x # Command("go", c) /\ EndsSlow(q, c)
    <2> SUFFICES ASSUME NEW c
                 PROVE  EndsSlow(r, c) <=>
                           \/ x = Command("slow", c)
                           \/ x # Command("go", c) /\ EndsSlow(q, c)
        OBVIOUS
    <2>1. Command("slow", c) # Command("go", c)
        BY DEF Command
    <2>2. ASSUME EndsSlow(r, c), x # Command("slow", c)
          PROVE  x # Command("go", c) /\ EndsSlow(q, c)
        <3>1. PICK i \in 1 .. n + 1 :
                 r[i] = Command("slow", c) /\ \A j \in 1 .. n + 1 : j > i => r[j] # Command("go", c)
            BY <1>1, <2>2 DEF EndsSlow
        <3>2. i \in 1 .. n /\ n + 1 > i /\ n + 1 \in 1 .. n + 1
            BY <1>1, <2>2, <3>1
        <3> QED BY <1>1, <3>1, <3>2 DEF EndsSlow
    <2>3. ASSUME x = Command("slow", c) PROVE EndsSlow(r, c)
        BY <1>1, <2>3 DEF EndsSlow
    <2>4. ASSUME x # Command("go", c), EndsSlow(q, c) PROVE EndsSlow(r, c)
        <3>1. PICK i \in 1 .. n :
                 q[i] = Command("slow", c) /\ \A j \in 1 .. n : j > i => q[j] # Command("go", c)
            BY <1>1, <2>4 DEF EndsSlow
        <3> QED BY <1>1, <2>4, <3>1 DEF EndsSlow
    <2> QED BY <2>1, <2>2, <2>3, <2>4
<1> QED BY <1>1, <1>2, <1>3, <1>4 DEF r

LEMMA TailFacts ==
    ASSUME NEW q \in Seq(Packets), q # <<>>
    PROVE  /\ Head(q) \in Packets /\ Tail(q) \in Seq(Packets)
           /\ \A p : InSeq(q, p) <=> Head(q) = p \/ InSeq(Tail(q), p)
           /\ \A p : Once(q, p) => Once(Tail(q), p) /\ ~(Head(q) = p /\ InSeq(Tail(q), p))
           /\ \A c : EndsSlow(q, c) <=>
                        \/ EndsSlow(Tail(q), c)
                        \/ Head(q) = Command("slow", c) /\ ~InSeq(Tail(q), Command("go", c))
<1> DEFINE r == Tail(q)
           n == Len(r)
<1>1. /\ Head(q) \in Packets /\ r \in Seq(Packets) /\ n \in Nat
      /\ DOMAIN q = 1 .. n + 1 /\ DOMAIN r = 1 .. n
      /\ \A i \in 1 .. n : r[i] = q[i + 1]
      /\ q[1] = Head(q)
    OBVIOUS
<1> HIDE DEF r, n
<1>0. \A i \in 1 .. n + 1 : i = 1 \/ (i - 1 \in 1 .. n /\ r[i - 1] = q[i])
    BY <1>1
<1>2. \A p : InSeq(q, p) <=> Head(q) = p \/ InSeq(r, p)
    <2> SUFFICES ASSUME NEW p PROVE InSeq(q, p) <=> Head(q) = p \/ InSeq(r, p)
        OBVIOUS
    <2>1. ASSUME InSeq(q, p) PROVE Head(q) = p \/ InSeq(r, p)
        BY <1>0, <1>1, <2>1 DEF InSeq
    <2>2. ASSUME InSeq(r, p) PROVE InSeq(q, p)
        <3>1. PICK i \in 1 .. n : r[i] = p
            BY <1>1, <2>2 DEF InSeq
        <3>2. i + 1 \in DOMAIN q /\ q[i + 1] = p
            BY <1>1, <3>1
        <3> QED BY <3>2 DEF InSeq
    <2>3. ASSUME Head(q) = p PROVE InSeq(q, p)
        BY <1>1, <2>3 DEF InSeq
    <2> QED BY <2>1, <2>2, <2>3
<1>3. \A p : Once(q, p) => Once(r, p) /\ ~(Head(q) = p /\ InSeq(r, p))
    <2> SUFFICES ASSUME NEW p, Once(q, p) PROVE Once(r, p) /\ ~(Head(q) = p /\ InSeq(r, p))
        OBVIOUS
    <2>1. Once(r, p)
        <3> SUFFICES ASSUME NEW i \in 1 .. n, NEW j \in 1 .. n, r[i] = p, r[j] = p PROVE i = j
            BY <1>1 DEF Once
        <3>1. q[i + 1] = p /\ q[j + 1] = p /\ i + 1 \in 1 .. n + 1 /\ j + 1 \in 1 .. n + 1
            BY <1>1
        <3>2. i + 1 = j + 1
            BY <1>1, <3>1 DEF Once
        <3> QED BY <1>1, <3>2
    <2>2. ASSUME Head(q) = p, NEW i \in 1 .. n, r[i] = p PROVE FALSE
        <3>1. q[i + 1] = p /\ i + 1 \in 1 .. n + 1 /\ 1 \in 1 .. n + 1 /\ i + 1 # 1
            BY <1>1, <2>2
        <3> QED BY <1>1, <2>2, <3>1 DEF Once
    <2> QED BY <1>1, <2>1, <2>2 DEF InSeq
<1>4. \A c : EndsSlow(q, c) <=>
               \/ EndsSlow(r, c)
               \/ Head(q) = Command("slow", c) /\ ~InSeq(r, Command("go", c))
    <2> SUFFICES ASSUME NEW c
                 PROVE  EndsSlow(q, c) <=>
                           \/ EndsSlow(r, c)
                           \/ Head(q) = Command("slow", c) /\ ~InSeq(r, Command("go", c))
        OBVIOUS
    <2>1. ASSUME EndsSlow(q, c)
          PROVE  \/ EndsSlow(r, c)
                 \/ Head(q) = Command("slow", c) /\ ~InSeq(r, Command("go", c))
        <3>1. PICK i \in 1 .. n + 1 :
                 q[i] = Command("slow", c) /\ \A j \in 1 .. n + 1 : j > i => q[j] # Command("go", c)
            BY <1>1, <2>1 DEF EndsSlow
        <3>2. \A j \in 1 .. n : j + 1 > i => r[j] # Command("go", c)
            BY <1>1, <3>1
        <3>3. CASE i = 1
            BY <1>1, <3>1, <3>2, <3>3 DEF InSeq
        <3>4. CASE i # 1
            <4>1. i - 1 \in 1 .. n /\ r[i - 1] = Command("slow", c)
                BY <1>0, <3>1, <3>4
            <4>2. \A j \in 1 .. n : j > i - 1 => r[j] # Command("go", c)
                BY <1>1, <3>2
            <4> QED BY <1>1, <4>1, <4>2 DEF EndsSlow
        <3> QED BY <3>3, <3>4
    <2>2. ASSUME EndsSlow(r, c) PROVE EndsSlow(q, c)
        <3>1. PICK i \in 1 .. n :
                 r[i] = Command("slow", c) /\ \A j \in 1 .. n : j > i => r[j] # Command("go", c)
            BY <1>1, <2>2 DEF EndsSlow
        <3>2. i + 1 \in 1 .. n + 1 /\ q[i + 1] = Command("slow", c)
            BY <1>1, <3>1
        <3>3. ASSUME NEW j \in 1 .. n + 1, j > i + 1 PROVE q[j] # Command("go", c)
            <4>1. j - 1 \in 1 .. n /\ j - 1 > i /\ r[j - 1] = q[j]
                BY <1>0, <1>1, <3>3
            <4> QED BY <3>1, <4>1
        <3> QED BY <1>1, <3>2, <3>3 DEF EndsSlow
    <2>3. ASSUME Head(q) = Command("slow", c), ~InSeq(r, Command("go", c)) PROVE EndsSlow(q, c)
        <3>1. ASSUME NEW j \in 1 .. n + 1, j > 1 PROVE q[j] # Command("go", c)
            <4>1. j - 1 \in DOMAIN r /\ r[j - 1] = q[j]
                BY <1>0, <1>1, <3>1
            <4> QED BY <2>3, <4>1 DEF InSeq
        <3>2. 1 \in 1 .. n + 1 /\ q[1] = Command("slow", c)
            BY <1>1, <2>3
        <3> QED BY <1>1, <3>1, <3>2 DEF EndsSlow
    <2> QED BY <2>1, <2>2, <2>3
<1> QED BY <1>1, <1>2, <1>3, <1>4 DEF r

\* What is not for the channel stays, in order.
LEMMA CleanedFacts ==
    ASSUME NEW q \in Seq(Packets), NEW n \in Subs, NEW r \in Cleaned(n, q)
    PROVE  /\ r \in Seq(Packets)
           /\ \A p : InSeq(r, p) <=> InSeq(q, p) /\ ~Within(n, p)
           /\ \A p : Once(q, p) => Once(r, p)
           /\ \A c : c # n => (EndsSlow(r, c) <=> EndsSlow(q, c))
<1> DEFINE kept == {i \in DOMAIN q : ~Within(n, q[i])}
           m == Cardinality(kept)
<1>1. PICK f \in Bijection(1 .. m, kept) :
         /\ \A i, j \in DOMAIN f : i < j => f[i] < f[j]
         /\ r = [i \in DOMAIN f |-> q[f[i]]]
    BY DEF Cleaned, Kept
<1>2. /\ DOMAIN f = 1 .. m /\ \A i \in 1 .. m : f[i] \in kept
      /\ \A k \in kept : \E i \in 1 .. m : f[i] = k
    BY DEF Bijection, Injection, Surjection
<1>3. m \in Nat
    <2>1. IsFiniteSet(DOMAIN q)
        BY FS_Interval
    <2> QED BY <2>1, FS_Subset, FS_CardinalityType
<1>4. /\ DOMAIN r = 1 .. m
      /\ \A i \in 1 .. m : r[i] = q[f[i]] /\ f[i] \in DOMAIN q /\ ~Within(n, r[i])
      /\ \A i, j \in 1 .. m : i < j => f[i] < f[j]
      /\ \A k \in DOMAIN q : Within(n, q[k]) \/ \E i \in 1 .. m : f[i] = k /\ r[i] = q[k]
    BY <1>1, <1>2
<1>5. \A k \in DOMAIN q : q[k] \in Packets /\ k \in Nat
    OBVIOUS
<1>6. r \in Seq(Packets)
    <2>1. r \in [1 .. m -> Packets]
        BY <1>1, <1>2, <1>4, <1>5
    <2> HIDE DEF m
    <2> QED BY <1>3, <2>1, SeqDef
<1> HIDE DEF kept, m
<1>7. \A p : InSeq(r, p) <=> InSeq(q, p) /\ ~Within(n, p)
    BY <1>4 DEF InSeq
<1>8. \A p : Once(q, p) => Once(r, p)
    <2> SUFFICES ASSUME NEW p, Once(q, p), NEW i \in 1 .. m, NEW j \in 1 .. m, r[i] = p, r[j] = p
                 PROVE  i = j
        BY <1>4 DEF Once
    <2>1. f[i] = f[j]
        BY <1>4 DEF Once
    <2>2. f[i] \in Nat /\ f[j] \in Nat
        BY <1>4, <1>5
    <2>3. ~(i < j) /\ ~(j < i)
        BY <1>4, <2>1, <2>2
    <2> QED BY <1>3, <2>3
<1>9. ASSUME NEW c, c # n PROVE EndsSlow(r, c) <=> EndsSlow(q, c)
    <2>1. ~Within(n, Command("slow", c)) /\ ~Within(n, Command("go", c))
        BY <1>9 DEF Within, Command
    <2>2. ASSUME EndsSlow(r, c) PROVE EndsSlow(q, c)
        <3>1. PICK i \in 1 .. m :
                 r[i] = Command("slow", c) /\ \A j \in 1 .. m : j > i => r[j] # Command("go", c)
            BY <1>4, <2>2 DEF EndsSlow
        <3>2. ASSUME NEW k \in DOMAIN q, k > f[i], q[k] = Command("go", c) PROVE FALSE
            <4>1. PICK j \in 1 .. m : f[j] = k /\ r[j] = q[k]
                BY <1>4, <2>1, <3>2
            <4>2. f[i] \in Nat /\ f[j] \in Nat /\ f[i] < f[j]
                BY <1>4, <1>5, <3>2, <4>1
            <4>3. i # j /\ ~(j < i)
                BY <1>4, <4>2
            <4>4. j > i
                BY <1>3, <4>3
            <4> QED BY <3>1, <3>2, <4>1, <4>4
        <3> QED BY <1>4, <3>1, <3>2 DEF EndsSlow
    <2>3. ASSUME EndsSlow(q, c) PROVE EndsSlow(r, c)
        <3>1. PICK k \in DOMAIN q :
                 q[k] = Command("slow", c) /\ \A l \in DOMAIN q : l > k => q[l] # Command("go", c)
            BY <2>3 DEF EndsSlow
        <3>2. PICK i \in 1 .. m : f[i] = k /\ r[i] = q[k]
            BY <1>4, <2>1, <3>1
        <3>3. ASSUME NEW j \in 1 .. m, j > i PROVE r[j] # Command("go", c)
            <4>1. f[i] < f[j]
                BY <1>3, <1>4, <3>3
            <4>2. f[j] > k /\ f[j] \in DOMAIN q
                BY <1>4, <1>5, <3>2, <4>1
            <4> QED BY <1>4, <3>1, <4>2
        <3> QED BY <1>4, <3>1, <3>2, <3>3 DEF EndsSlow
    <2> QED BY <2>2, <2>3
<1> QED BY <1>6, <1>7, <1>8, <1>9

-----------------------------------------------------------------------------
(* Type correctness *)

\* The packet is queued, written or on its way.
Carried(s, p) == InSeq(queue[s], p) \/ writing[s] = p \/ InSeq(wire[Other(s)], p)

\* Virtual channels are announced by the sides that make them.
Origins == \A s \in Sides, n \in Subs : Carried(s, Command("make", n)) => s = Maker[n]

LEMMA Types ==
    ASSUME TypeOK
    PROVE  /\ state \in [Sides -> [Channels -> {"none", "pending", "open", "closed", "dropped"}]]
           /\ rx \in [Sides -> [Channels -> Seq(Nat \ {0})]]
           /\ sent \in [Sides -> [Channels -> Nat]]
           /\ got \in [Sides -> [Channels -> Nat]]
           /\ go \in [Sides -> [Channels -> BOOLEAN]]
           /\ capacity \in [Sides -> [Channels -> {Low, High}]]
           /\ queue \in [Sides -> Seq(Packets)]
           /\ wire \in [Sides -> Seq(Packets)]
           /\ writing \in [Sides -> Packets \cup {NoPacket}]
    BY DEF TypeOK

\* Put() appends to one sending queue, or does nothing.
LEMMA PutFacts ==
    ASSUME TypeOK, NEW s \in Sides, NEW c \in Channels, NEW p \in Packets, Put(s, c, p)
    PROVE  /\ queue' \in [Sides -> Seq(Packets)]
           /\ \A u \in Sides : u # s => queue'[u] = queue[u]
           /\ queue'[s] = queue[s] \/ queue'[s] = Append(queue[s], p)
           /\ IsOk(s, c) => queue'[s] = Append(queue[s], p)
<1>1. Append(queue[s], p) \in Seq(Packets)
    BY Types, AppendFacts
<1> QED BY <1>1, Types DEF Put

LEMMA TaskFacts ==
    ASSUME NEW t \in Tasks
    PROVE  At[t] \in Sides /\ On[t] \in Channels
    BY ChannelAssumption

LEMMA OneMore ==
    ASSUME TypeOK, NEW s \in Sides, NEW c \in Channels, sent[s][c] < MaxPackets[c],
           sent' = [sent EXCEPT ![s][c] = @ + 1]
    PROVE  /\ sent' \in [Sides -> [Channels -> Nat]]
           /\ \A u \in Sides, d \in Channels : sent'[u][d] <= MaxPackets[d]
<1>1. MaxPackets[c] \in Nat /\ sent[s][c] \in Nat /\ sent[s][c] + 1 \in Nat
    BY Types, ChannelAssumption
<1>2. sent' \in [Sides -> [Channels -> Nat]]
    BY <1>1, Types
<1>3. ASSUME NEW u \in Sides, NEW d \in Channels PROVE sent'[u][d] <= MaxPackets[d]
    <2>1. sent[u][d] <= MaxPackets[d]
        BY DEF TypeOK
    <2>2. CASE u = s /\ d = c
        <3>1. sent'[u][d] = sent[s][c] + 1
            BY <2>2, Types
        <3> QED BY <1>1, <2>2, <3>1
    <2>3. CASE ~(u = s /\ d = c)
        <3>1. sent'[u][d] = sent[u][d]
            BY <2>3, Types
        <3> QED BY <2>1, <3>1
    <2> QED BY <2>2, <2>3
<1> QED BY <1>2, <1>3

LEMMA SubmitFacts ==
    ASSUME TypeOK, NEW t \in Senders, Submit(t), sent[At[t]][On[t]] < MaxPackets[On[t]]
    PROVE  /\ queue' \in [Sides -> Seq(Packets)]
           /\ sent' \in [Sides -> [Channels -> Nat]]
           /\ \A s \in Sides, c \in Channels : sent'[s][c] <= MaxPackets[c]
           /\ pc' = [pc EXCEPT ![t] = "queued"] \/ pc' = [pc EXCEPT ![t] = "failed"]
<1> DEFINE s == At[t]
           c == On[t]
           p == Data(c, sent[s][c] + 1, t)
<1>1. s \in Sides /\ c \in Channels
    BY TaskFacts DEF Tasks
<1>2. p \in Packets
    <2>1. sent[s][c] + 1 \in Nat \ {0}
        <3>1. sent[s][c] \in Nat
            BY <1>1, Types
        <3> HIDE DEF s, c
        <3> QED BY <3>1
    <2> QED BY <1>1, <2>1, PacketTypes
<1>4. CASE IsOk(s, c)
    <2>1. Put(s, c, p) /\ sent' = [sent EXCEPT ![s][c] = @ + 1] /\ pc' = [pc EXCEPT ![t] = "queued"]
        BY <1>4 DEF Submit
    <2>2. queue' \in [Sides -> Seq(Packets)]
        BY <1>1, <1>2, <2>1, PutFacts
    <2>3. /\ sent' \in [Sides -> [Channels -> Nat]]
          /\ \A u \in Sides, d \in Channels : sent'[u][d] <= MaxPackets[d]
        BY <1>1, <2>1, OneMore
    <2> QED BY <2>1, <2>2, <2>3
<1>5. CASE ~IsOk(s, c)
    BY <1>5, Types DEF Submit, TypeOK
<1> QED BY <1>4, <1>5

LEMMA SenderType ==
    ASSUME TypeOK, NEW t \in Senders, SenderStep(t)
    PROVE  TypeOK'
<1>1. At[t] \in Sides /\ On[t] \in Channels /\ t \in Tasks
    BY TaskFacts DEF Tasks
<1>2. CASE SendPacket(t) /\ go[At[t]][On[t]]
    BY <1>1, <1>2, SubmitFacts DEF SendPacket, TypeOK, endVars
<1>3. CASE SendPacket(t) /\ ~go[At[t]][On[t]]
    BY <1>1, <1>3 DEF SendPacket, TypeOK, endVars
<1>4. CASE GoOn(t)
    BY <1>1, <1>4, SubmitFacts DEF GoOn, TypeOK, endVars
<1>5. CASE SendAsync(t)
    <2> DEFINE s == At[t]
               c == On[t]
               p == Data(c, sent[s][c] + 1, Nobody)
    <2>1. sent[s][c] + 1 \in Nat \ {0}
        <3>1. sent[s][c] \in Nat
            BY <1>1, Types
        <3> HIDE DEF s, c
        <3> QED BY <3>1
    <2>2. p \in Packets
        BY <1>1, <2>1, PacketTypes
    <2>3. queue' \in [Sides -> Seq(Packets)]
        BY <1>1, <1>5, <2>2, PutFacts DEF SendAsync
    <2>4. /\ sent' \in [Sides -> [Channels -> Nat]]
          /\ \A u \in Sides, d \in Channels : sent'[u][d] <= MaxPackets[d]
        BY <1>1, <1>5, OneMore DEF SendAsync
    <2> QED BY <1>5, <2>3, <2>4 DEF SendAsync, TypeOK, endVars
<1> QED BY <1>2, <1>3, <1>4, <1>5 DEF SenderStep

LEMMA PopFacts ==
    ASSUME TypeOK, NEW t \in Receivers, Pop(t), rx[At[t]][On[t]] # <<>>
    PROVE  /\ queue' \in [Sides -> Seq(Packets)]
           /\ rx' = [rx EXCEPT ![At[t]][On[t]] = Tail(@)]
           /\ rx' \in [Sides -> [Channels -> Seq(Nat \ {0})]]
           /\ got' \in [Sides -> [Channels -> Nat]]
           /\ pc' = [pc EXCEPT ![t] = "ready"]
<1> DEFINE s == At[t]
           c == On[t]
<1>1. s \in Sides /\ c \in Channels
    BY TaskFacts DEF Tasks
<1>2. rx[s][c] \in Seq(Nat \ {0})
    BY <1>1, Types
<1>3. Head(rx[s][c]) \in Nat /\ Tail(rx[s][c]) \in Seq(Nat \ {0})
    BY <1>2
<1>4. rx' \in [Sides -> [Channels -> Seq(Nat \ {0})]] /\ got' \in [Sides -> [Channels -> Nat]]
    BY <1>1, <1>3, Types DEF Pop
<1>5. queue' \in [Sides -> Seq(Packets)]
    BY <1>1, PutFacts, PacketTypes, Types DEF Pop
<1> QED BY <1>4, <1>5 DEF Pop

LEMMA ReceiverType ==
    ASSUME TypeOK, NEW t \in Receivers, ReceiverStep(t)
    PROVE  TypeOK'
<1>1. At[t] \in Sides /\ On[t] \in Channels /\ t \in Tasks
    BY TaskFacts DEF Tasks
<1>2. CASE RecvPacket(t)
    BY <1>1, <1>2, PopFacts DEF RecvPacket, TypeOK, endVars
<1>3. CASE RecvNothing(t)
    BY <1>1, <1>3 DEF RecvNothing, TypeOK, endVars, dataVars, socketVars
<1>4. CASE RecvFails(t)
    BY <1>1, <1>4 DEF RecvFails, TypeOK, endVars, dataVars, socketVars
<1> QED BY <1>2, <1>3, <1>4 DEF ReceiverStep

LEMMA EndType ==
    ASSUME TypeOK, NEW s \in Sides, NEW D \in SUBSET Channels, End(s, D)
    PROVE  /\ state' \in [Sides -> [Channels -> {"none", "pending", "open", "closed", "dropped"}]]
           /\ \A u \in Sides, c \in Channels : state'[u][c] \in EndStates(u, c)
           /\ go' \in [Sides -> [Channels -> BOOLEAN]]
           /\ pc' \in [Tasks -> {"ready", "stopped", "released", "queued", "getting", "failed"}]
<1>1. state' \in [Sides -> [Channels -> {"none", "pending", "open", "closed", "dropped"}]]
    BY Types DEF End
<1>2. ASSUME NEW u \in Sides, NEW c \in Channels PROVE state'[u][c] \in EndStates(u, c)
    <2>1. state[u][c] \in EndStates(u, c)
        BY DEF TypeOK
    <2>2. \/ state'[u][c] = state[u][c]
          \/ state[u][c] = "pending" /\ state'[u][c] = "dropped"
          \/ state[u][c] = "open" /\ state'[u][c] = "closed"
        BY Types DEF End
    <2> QED BY <2>1, <2>2 DEF EndStates
<1>3. go' \in [Sides -> [Channels -> BOOLEAN]]
    BY Types DEF End
<1>4. pc' \in [Tasks -> {"ready", "stopped", "released", "queued", "getting", "failed"}]
    BY DEF End, TypeOK
<1> QED BY <1>1, <1>2, <1>3, <1>4

LEMMA EndFacts ==
    ASSUME TypeOK, NEW s \in Sides, NEW D \in SUBSET Channels, End(s, D),
           NEW u \in Sides, NEW c \in Channels
    PROVE  /\ u = s /\ c \in D => go'[u][c] /\ ~Listens(u, c)'
           /\ u # s \/ c \notin D => go'[u][c] = go[u][c] /\ state'[u][c] = state[u][c]
           /\ \/ state'[u][c] = state[u][c]
              \/ state[u][c] = "pending" /\ state'[u][c] = "dropped"
              \/ state[u][c] = "open" /\ state'[u][c] = "closed"
           /\ \A t \in Tasks : \/ pc'[t] = pc[t]
                               \/ pc[t] = "stopped" /\ pc'[t] = "released"
<1>1. CASE u = s /\ c \in D
    <2>1. state'[u][c] = IF state[u][c] = "pending" THEN "dropped"
                         ELSE IF state[u][c] = "open" THEN "closed" ELSE state[u][c]
        BY <1>1, Types DEF End
    <2>2. go'[u][c]
        BY <1>1, Types DEF End
    <2> QED BY <1>1, <2>1, <2>2 DEF End, Listens
<1>2. CASE u # s \/ c \notin D
    <2>1. state'[u][c] = state[u][c]
        BY <1>2, Types DEF End
    <2>2. go'[u][c] = go[u][c]
        BY <1>2, Types DEF End
    <2> QED BY <1>2, <2>1, <2>2 DEF End
<1> QED BY <1>1, <1>2

LEMMA CloseType ==
    ASSUME TypeOK, NEW s \in Sides, BeginClose(s)
    PROVE  TypeOK'
<1>1. Main \in Channels
    BY DEF Channels
<1>2. state' \in [Sides -> [Channels -> {"none", "pending", "open", "closed", "dropped"}]]
    BY <1>1, Types DEF BeginClose
<1>3. ASSUME NEW u \in Sides, NEW c \in Channels PROVE state'[u][c] \in EndStates(u, c)
    <2>1. state[u][c] \in EndStates(u, c)
        BY DEF TypeOK
    <2>2. \/ state'[u][c] = state[u][c]
          \/ c = Main /\ state'[u][c] = "closed"
        BY Types DEF BeginClose
    <2> QED BY <2>1, <2>2 DEF EndStates
<1>4. <<>> \in Seq(Packets)
    OBVIOUS
<1>5. queue' \in [Sides -> Seq(Packets)] /\ wire' \in [Sides -> Seq(Packets)]
    BY <1>4, Types DEF BeginClose
<1> QED BY <1>2, <1>3, <1>5 DEF BeginClose, TypeOK, dataVars

\* What a side reads is a packet, and the rest stays.
LEMMA ReadsFacts ==
    ASSUME TypeOK, NEW s \in Sides, NEW k, Reads(s, k)
    PROVE  /\ Head(wire[s]) \in Packets /\ Head(wire[s]).kind = k
           /\ Head(wire[s]).ch \in Channels
           /\ wire' \in [Sides -> Seq(Packets)]
           /\ wire'[s] = Tail(wire[s]) /\ wire[s] \in Seq(Packets) /\ wire[s] # <<>>
           /\ \A u \in Sides : u # s => wire'[u] = wire[u]
           /\ Carried(Other(s), Head(wire[s]))
<1>1. wire[s] \in Seq(Packets) /\ wire[s] # <<>>
    BY Types DEF Reads
<1>2. Head(wire[s]) \in Packets /\ Tail(wire[s]) \in Seq(Packets) /\ InSeq(wire[s], Head(wire[s]))
    BY <1>1, TailFacts
<1> QED BY <1>1, <1>2, PacketFields, SideTypes, Types DEF Reads, Carried

LEMMA HandleType ==
    ASSUME TypeOK, Origins, NEW s \in Sides, Handle(s)
    PROVE  TypeOK'
<1> DEFINE p == Head(wire[s])
           c == p.ch
<1>1. CASE HandleData(s)
    <2>1. c \in Channels /\ p.num \in Nat \ {0} /\ wire' \in [Sides -> Seq(Packets)]
        BY <1>1, ReadsFacts, PacketFields DEF HandleData
    <2>2. Append(rx[s][c], p.num) \in Seq(Nat \ {0})
        BY <2>1, Types
    <2>3. rx' = [rx EXCEPT ![s][c] = Append(@, p.num)] \/ rx' = rx
        BY <1>1 DEF HandleData
    <2>5. rx' \in [Sides -> [Channels -> Seq(Nat \ {0})]]
        <3>1. CASE rx' = rx
            BY <3>1, Types
        <3>2. CASE rx' = [rx EXCEPT ![s][c] = Append(@, p.num)]
            BY <2>1, <2>2, <3>2, Types
        <3> QED BY <2>3, <3>1, <3>2
    <2>4. queue' \in [Sides -> Seq(Packets)]
        BY <1>1, <2>1, PutFacts, PacketTypes, Types DEF HandleData
    <2> QED BY <1>1, <2>1, <2>4, <2>5 DEF HandleData, Reads, TypeOK, endVars
<1>2. CASE HandleSlow(s)
    <2>1. c \in Channels /\ wire' \in [Sides -> Seq(Packets)]
        BY <1>2, ReadsFacts DEF HandleSlow
    <2>2. go' \in [Sides -> [Channels -> BOOLEAN]]
        BY <1>2, <2>1, Types DEF HandleSlow
    <2> QED BY <1>2, <2>1, <2>2 DEF HandleSlow, Reads, TypeOK, dataVars
<1>3. CASE HandleGo(s)
    <2>1. c \in Channels /\ wire' \in [Sides -> Seq(Packets)]
        BY <1>3, ReadsFacts DEF HandleGo
    <2>4. go' = [go EXCEPT ![s][c] = TRUE] \/ go' = go
        BY <1>3 DEF HandleGo
    <2>2. go' \in [Sides -> [Channels -> BOOLEAN]]
        <3>1. CASE go' = go
            BY <3>1, Types
        <3>2. CASE go' = [go EXCEPT ![s][c] = TRUE]
            BY <2>1, <3>2, Types
        <3> QED BY <2>4, <3>1, <3>2
    <2>3. pc' \in [Tasks -> {"ready", "stopped", "released", "queued", "getting", "failed"}]
        BY <1>3 DEF HandleGo, TypeOK
    <2> QED BY <1>3, <2>1, <2>2, <2>3 DEF HandleGo, Reads, TypeOK, dataVars
<1>4. CASE HandleMake(s)
    <2>1. p.kind = "make" /\ p \in Packets /\ wire' \in [Sides -> Seq(Packets)] /\ Carried(Other(s), p)
        BY <1>4, ReadsFacts DEF HandleMake
    <2>2. c \in Subs /\ c \in Channels /\ p = Command("make", c)
        BY <2>1, PacketFields
    <2>3. Maker[c] = Other(s) /\ c # Main
        BY <2>1, <2>2, SideTypes, ChannelAssumption DEF Origins
    <2>4. "pending" \in EndStates(s, c)
        BY <2>3, SideTypes DEF EndStates
    <2>5. state' \in [Sides -> [Channels -> {"none", "pending", "open", "closed", "dropped"}]]
        BY <1>4, <2>2, Types DEF HandleMake
    <2>6. ASSUME NEW u \in Sides, NEW d \in Channels PROVE state'[u][d] \in EndStates(u, d)
        <3>1. state[u][d] \in EndStates(u, d)
            BY DEF TypeOK
        <3>2. CASE u = s /\ d = c
            BY <1>4, <2>2, <2>4, <3>2, Types DEF HandleMake
        <3>3. CASE ~(u = s /\ d = c)
            BY <1>4, <2>2, <3>1, <3>3, Types DEF HandleMake
        <3> QED BY <3>2, <3>3
    <2>7. capacity' \in [Sides -> [Channels -> {Low, High}]]
        <3>1. capacity[s][Main] \in {Low, High}
            BY Types DEF Channels
        <3> QED BY <1>4, <2>2, <3>1, Types DEF HandleMake
    <2> QED BY <1>4, <2>1, <2>5, <2>6, <2>7 DEF HandleMake, Reads, TypeOK, dataVars
<1>5. CASE HandleDestroy(s)
    <2>1. p.kind = "destroy" /\ p \in Packets /\ wire' \in [Sides -> Seq(Packets)]
        BY <1>5, ReadsFacts DEF HandleDestroy
    <2>2. c \in Subs /\ {c} \in SUBSET Channels
        BY <2>1, PacketFields
    <2>3. CASE Listens(s, c)
        <3>3. PICK q \in Cleaned(c, queue[s]) : queue' = [queue EXCEPT ![s] = q]
            BY <1>5, <2>3 DEF HandleDestroy
        <3>1. queue' \in [Sides -> Seq(Packets)]
            BY <2>2, <3>3, CleanedFacts, Types
        <3>2. End(s, {c})
            BY <1>5, <2>3 DEF HandleDestroy
        <3> QED BY <1>5, <2>1, <2>2, <3>1, <3>2, EndType DEF HandleDestroy, Reads, TypeOK, dataVars
    <2>4. CASE ~Listens(s, c)
        BY <1>5, <2>1, <2>4 DEF HandleDestroy, Reads, TypeOK, dataVars
    <2> QED BY <2>3, <2>4
<1> QED BY <1>1, <1>2, <1>3, <1>4, <1>5 DEF Handle

LEMMA SideType ==
    ASSUME TypeOK, Origins, NEW s \in Sides, SideStep(s)
    PROVE  TypeOK'
<1>1. CASE TakePacket(s)
    <2>1. queue[s] \in Seq(Packets) /\ queue[s] # <<>>
        BY <1>1, Types DEF TakePacket
    <2>2. Head(queue[s]) \in Packets /\ Tail(queue[s]) \in Seq(Packets)
        BY <2>1, TailFacts
    <2>3. queue' \in [Sides -> Seq(Packets)] /\ writing' \in [Sides -> Packets \cup {NoPacket}]
        BY <1>1, <2>2, Types DEF TakePacket
    <2> QED BY <1>1, <2>3 DEF TakePacket, TypeOK, endVars, dataVars
<1>2. CASE Written(s)
    <2>1. writing[s] \in Packets /\ Other(s) \in Sides
        BY <1>2, SideTypes, Types DEF Written
    <2>2. Append(wire[Other(s)], writing[s]) \in Seq(Packets) /\ writing[s].by \in Senders \cup {Nobody}
        BY <2>1, AppendFacts, PacketFields, Types
    <2>3. wire' \in [Sides -> Seq(Packets)] /\ writing' \in [Sides -> Packets \cup {NoPacket}]
        BY <1>2, <2>1, <2>2, Types DEF Written
    <2>4. pc' \in [Tasks -> {"ready", "stopped", "released", "queued", "getting", "failed"}]
        BY <1>2, <2>2 DEF Written, TypeOK, Tasks
    <2> QED BY <1>2, <2>3, <2>4 DEF Written, TypeOK, endVars, dataVars
<1>3. CASE WriteFails(s) \/ ReceiveFails(s) \/ KeepaliveTimeout(s) \/ UserClose(s)
    BY <1>3, CloseType DEF WriteFails, ReceiveFails, KeepaliveTimeout, UserClose
<1>4. CASE FinishClose(s)
    <2>1. End(s, Channels)
        BY <1>4 DEF FinishClose
    <2> QED BY <1>4, <2>1, EndType DEF FinishClose, TypeOK, dataVars, socketVars
<1>5. CASE CloserKilled(s)
    BY <1>5 DEF CloserKilled, TypeOK, endVars, dataVars, socketVars
<1> QED BY <1>1, <1>2, <1>3, <1>4, <1>5, HandleType DEF SideStep, TaskStep

LEMMA SubType ==
    ASSUME TypeOK, NEW n \in Subs, SubStep(n)
    PROVE  TypeOK'
<1>1. /\ Maker[n] \in Sides /\ Other(Maker[n]) \in Sides /\ Other(Maker[n]) # Maker[n]
      /\ n \in Channels /\ Main \in Channels /\ n # Main
    BY ChannelAssumption, SideTypes DEF Channels
<1>2. \A u \in Sides, d \in Channels : state[u][d] \in EndStates(u, d)
    BY DEF TypeOK
<1>3. "open" \in EndStates(Maker[n], n) /\ "open" \in EndStates(Other(Maker[n]), n)
    BY <1>1 DEF EndStates
<1>4. CASE MakeChannel(n)
    <2>1. queue' \in [Sides -> Seq(Packets)]
        BY <1>1, <1>4, PutFacts, PacketTypes DEF MakeChannel
    <2>2. capacity' \in [Sides -> [Channels -> {Low, High}]]
        BY <1>1, <1>4, Types DEF MakeChannel
    <2>3. /\ state' \in [Sides -> [Channels -> {"none", "pending", "open", "closed", "dropped"}]]
          /\ \A u \in Sides, d \in Channels : state'[u][d] \in EndStates(u, d)
        BY <1>1, <1>2, <1>3, <1>4, Types DEF MakeChannel
    <2> QED BY <1>4, <2>1, <2>2, <2>3 DEF MakeChannel, TypeOK, dataVars
<1>5. CASE TakeChannel(n)
    <2>1. /\ state' \in [Sides -> [Channels -> {"none", "pending", "open", "closed", "dropped"}]]
          /\ \A u \in Sides, d \in Channels : state'[u][d] \in EndStates(u, d)
        BY <1>1, <1>2, <1>3, <1>5, Types DEF TakeChannel
    <2> QED BY <1>5, <2>1 DEF TakeChannel, TypeOK, dataVars, socketVars
<1>6. ASSUME NEW s \in Sides, CloseSub(n, s) PROVE TypeOK'
    <2>1. Append(queue[s], Command("destroy", n)) \in Seq(Packets)
        BY AppendFacts, PacketTypes, Types
    <2>2. queue' \in [Sides -> Seq(Packets)]
        <3>1. CASE closing[s] = "no"
            <4>1. PICK q \in Cleaned(n, Append(queue[s], Command("destroy", n))) :
                     queue' = [queue EXCEPT ![s] = q]
                BY <1>6, <3>1 DEF CloseSub
            <4> QED BY <2>1, <4>1, CleanedFacts, Types
        <3>2. CASE closing[s] # "no"
            BY <1>6, <3>2, Types DEF CloseSub
        <3> QED BY <3>1, <3>2
    <2>3. End(s, {n}) /\ {n} \in SUBSET Channels
        BY <1>1, <1>6 DEF CloseSub
    <2> QED BY <1>6, <2>2, <2>3, EndType DEF CloseSub, TypeOK, dataVars
<1>7. ASSUME NEW s \in Sides, LowerCapacity(n, s) PROVE TypeOK'
    <2>1. capacity' \in [Sides -> [Channels -> {Low, High}]]
        BY <1>1, <1>7, Types DEF LowerCapacity
    <2> QED BY <1>7, <2>1 DEF LowerCapacity, TypeOK, dataVars, socketVars
<1> QED BY <1>4, <1>5, <1>6, <1>7 DEF SubStep

LEMMA TypeStep ==
    ASSUME TypeOK, Origins, [Next]_vars
    PROVE  TypeOK'
<1>1. CASE LinkFails
    <2>1. <<>> \in Seq(Packets)
        OBVIOUS
    <2>2. wire' \in [Sides -> Seq(Packets)]
        BY <1>1, <2>1 DEF LinkFails
    <2> QED BY <1>1, <2>2 DEF LinkFails, TypeOK, endVars, dataVars
<1>2. CASE UNCHANGED vars
    BY <1>2 DEF vars, TypeOK, endVars, dataVars, socketVars
<1> QED BY <1>1, <1>2, SenderType, ReceiverType, SideType, SubType DEF Next

-----------------------------------------------------------------------------
(* What a step does to the packets that one side sends *)

\* What a side may put into its sending queue, and when.
New(s, x) ==
    /\ x \in Packets
    /\ \/ /\ x.kind = "data" /\ Has(s, x.ch)
          /\ \E t \in Senders : At[t] = s /\ On[t] = x.ch /\ x.by \in {t, Nobody}
       \/ \E c \in Channels :
            \/ /\ x = Command("slow", c) /\ Listens(s, c)
               /\ Len(rx'[s][c]) >= capacity'[s][c]
               /\ \E d \in Packets : Carried(Other(s), d) /\ d.kind = "data" /\ d.ch = c
            \/ x = Command("go", c) /\ rx[s][c] # <<>>
       \/ \E n \in Subs :
            \/ x = Command("make", n) /\ s = Maker[n] /\ state[s][n] = "none" /\ state'[s][n] = "open"
            \/ x = Command("destroy", n) /\ state[s][n] = "open"

\* A sender that waits has its end of the channel.
HasEnd ==
    \A t \in Senders : pc[t] \in {"stopped", "released", "queued"} => Has(At[t], On[t])

QueueStays(s) == queue'[s] = queue[s]
WritingStays(s) == writing'[s] = writing[s]
WireStays(s) == wire'[Other(s)] = wire[Other(s)]

Moves(s) ==
    \/ QueueStays(s) /\ WritingStays(s) /\ WireStays(s)
    \/ /\ \E x : New(s, x) /\ queue'[s] = Append(queue[s], x)
       /\ WritingStays(s) /\ WireStays(s)
    \/ /\ queue[s] # <<>> /\ writing[s] = NoPacket
       /\ queue'[s] = Tail(queue[s]) /\ writing'[s] = Head(queue[s]) /\ WireStays(s)
    \/ /\ writing[s] # NoPacket /\ writing'[s] = NoPacket /\ QueueStays(s)
       /\ \A t \in Senders : writing[s].by = t => pc'[t] # "queued"
       /\ wire'[Other(s)] = IF up /\ closing[Other(s)] = "no"
                            THEN Append(wire[Other(s)], writing[s]) ELSE wire[Other(s)]
    \/ /\ wire[Other(s)] # <<>> /\ wire'[Other(s)] = Tail(wire[Other(s)])
       /\ QueueStays(s) /\ WritingStays(s)
    \/ /\ \E n \in Subs :
            /\ ~Listens(s, n)'
            /\ \/ queue'[s] \in Cleaned(n, queue[s])
               \/ /\ New(s, Command("destroy", n))
                  /\ queue'[s] \in Cleaned(n, Append(queue[s], Command("destroy", n)))
       /\ WritingStays(s) /\ WireStays(s)
    \/ /\ closing'[s] # "no"
       /\ queue'[s] = <<>> /\ writing'[s] = NoPacket /\ WireStays(s)
    \/ /\ closing'[Other(s)] # "no" \/ ~up'
       /\ wire'[Other(s)] = <<>> /\ QueueStays(s) /\ WritingStays(s)

\* Put() by side u is a move of u, and of nobody else.
LEMMA PutMoves ==
    ASSUME TypeOK, NEW u \in Sides, NEW c \in Channels, NEW x, New(u, x), Put(u, c, x),
           NEW s \in Sides
    PROVE  \/ QueueStays(s)
           \/ s = u /\ queue'[s] = Append(queue[s], x)
    BY PutFacts DEF New, QueueStays

LEMMA StaysMoves ==
    ASSUME NEW s \in Sides, QueueStays(s), WritingStays(s), WireStays(s)
    PROVE  Moves(s)
    BY DEF Moves

LEMMA SenderMoves ==
    ASSUME TypeOK, HasEnd, NEW t \in Senders, SenderStep(t), NEW s \in Sides
    PROVE  Moves(s)
<1> DEFINE u == At[t]
           c == On[t]
<1>1. u \in Sides /\ c \in Channels
    BY TaskFacts DEF Tasks
<1>2. sent[u][c] + 1 \in Nat \ {0}
    <2>1. sent[u][c] \in Nat
        BY <1>1, Types
    <2> HIDE DEF u, c
    <2> QED BY <2>1
<1>3. WritingStays(s) /\ WireStays(s) /\ Has(u, c)
    BY DEF HasEnd, SenderStep, SendPacket, GoOn, SendAsync, WritingStays, WireStays
<1>4. ASSUME NEW by \in {t, Nobody}, Put(u, c, Data(c, sent[u][c] + 1, by)) PROVE Moves(s)
    <2> DEFINE x == Data(c, sent[u][c] + 1, by)
    <2>1. x \in Packets
        BY <1>1, <1>2, PacketTypes
    <2>2. New(u, x)
        BY <1>3, <2>1 DEF New, Data
    <2> HIDE DEF x, u, c
    <2>3. QueueStays(s) \/ (s = u /\ queue'[s] = Append(queue[s], x))
        BY <1>1, <1>4, <2>2, PutMoves DEF x
    <2> QED BY <1>3, <2>2, <2>3 DEF Moves
<1>5. ASSUME Submit(t) PROVE Moves(s)
    <2>1. CASE IsOk(u, c)
        BY <1>4, <1>5, <2>1 DEF Submit
    <2>2. CASE ~IsOk(u, c)
        BY <1>3, <1>5, <2>2, StaysMoves DEF Submit, QueueStays
    <2> QED BY <2>1, <2>2
<1>6. CASE SendPacket(t)
    <2>1. CASE go[u][c]
        BY <1>5, <1>6, <2>1 DEF SendPacket
    <2>2. CASE ~go[u][c]
        BY <1>3, <1>6, <2>2, StaysMoves DEF SendPacket, QueueStays
    <2> QED BY <2>1, <2>2
<1>7. CASE GoOn(t)
    BY <1>5, <1>7 DEF GoOn
<1>8. CASE SendAsync(t)
    BY <1>4, <1>8 DEF SendAsync
<1> QED BY <1>6, <1>7, <1>8 DEF SenderStep

LEMMA ReceiverMoves ==
    ASSUME TypeOK, NEW t \in Receivers, ReceiverStep(t), NEW s \in Sides
    PROVE  Moves(s)
<1>1. WritingStays(s) /\ WireStays(s)
    BY DEF ReceiverStep, RecvPacket, RecvNothing, RecvFails, socketVars, WritingStays, WireStays
<1>2. CASE RecvPacket(t)
    <2> DEFINE u == At[t]
               c == On[t]
               x == Command("go", c)
    <2>1. u \in Sides /\ c \in Channels
        BY TaskFacts DEF Tasks
    <2>2. New(u, x)
        BY <1>2, <2>1, PacketTypes DEF New, RecvPacket
    <2>3. Put(u, c, x) \/ UNCHANGED queue
        BY <1>2 DEF RecvPacket, Pop
    <2> HIDE DEF x, u, c
    <2>4. QueueStays(s) \/ (s = u /\ queue'[s] = Append(queue[s], x))
        BY <2>1, <2>2, <2>3, PutMoves DEF QueueStays
    <2> QED BY <1>1, <2>2, <2>4 DEF Moves
<1>3. CASE RecvNothing(t) \/ RecvFails(t)
    BY <1>1, <1>3, StaysMoves DEF RecvNothing, RecvFails, socketVars, QueueStays
<1> QED BY <1>2, <1>3 DEF ReceiverStep

LEMMA CloseMoves ==
    ASSUME TypeOK, NEW u \in Sides, BeginClose(u),
           NEW s \in Sides
    PROVE  Moves(s)
<1>1. closing'[u] # "no"
    BY DEF BeginClose, TypeOK
<1>2. CASE s = u
    <2>1. queue'[s] = <<>> /\ writing'[s] = NoPacket /\ WireStays(s)
        BY <1>2, SideTypes, Types DEF BeginClose, WireStays
    <2> QED BY <1>1, <1>2, <2>1 DEF Moves
<1>3. CASE s # u
    <2>1. Other(s) = u
        BY <1>3 DEF Sides, Other
    <2>2. wire'[u] = <<>> /\ QueueStays(s) /\ WritingStays(s)
        BY <1>3, Types DEF BeginClose, QueueStays, WritingStays
    <2> QED BY <1>1, <2>1, <2>2 DEF Moves
<1> QED BY <1>2, <1>3

\* Reading takes a packet of the other side.
LEMMA ReadMoves ==
    ASSUME TypeOK, NEW u \in Sides, NEW k, Reads(u, k), NEW s \in Sides
    PROVE  /\ WritingStays(s)
           /\ s = u => WireStays(s)
           /\ s # u => wire[Other(s)] # <<>> /\ wire'[Other(s)] = Tail(wire[Other(s)])
<1>1. s # u => Other(s) = u
    BY DEF Sides, Other
<1>2. s = u => Other(s) # u /\ Other(s) \in Sides
    BY SideTypes
<1> QED BY <1>1, <1>2, ReadsFacts DEF Reads, WritingStays, WireStays

LEMMA HandleMoves ==
    ASSUME TypeOK, NEW u \in Sides, Handle(u), NEW s \in Sides
    PROVE  Moves(s)
<1> DEFINE p == Head(wire[u])
           c == p.ch
<1>1. ASSUME NEW k, Reads(u, k), QueueStays(s) PROVE Moves(s)
    BY <1>1, ReadMoves DEF Moves
<1>2. CASE HandleData(u)
    <2> DEFINE x == Command("slow", c)
    <2>1. Reads(u, "data") /\ c \in Channels /\ p \in Packets /\ p.kind = "data" /\ Carried(Other(u), p)
        BY <1>2, ReadsFacts DEF HandleData
    <2>2. UNCHANGED queue \/ (Listens(u, c) /\ Put(u, c, x))
        BY <1>2 DEF HandleData
    <2>3. UNCHANGED queue \/ (New(u, x) /\ Put(u, c, x))
        <3>1. SUFFICES ASSUME Listens(u, c), Len(rx[u][c]) = capacity[u][c] - 1
                       PROVE  New(u, x)
            BY <1>2, <2>2 DEF HandleData
        <3>2. rx' = [rx EXCEPT ![u][c] = Append(@, p.num)] /\ capacity' = capacity
            BY <1>2, <3>1 DEF HandleData, endVars
        <3>3. rx[u][c] \in Seq(Nat \ {0}) /\ p.num \in Nat \ {0} /\ capacity[u][c] \in Nat
            <4>1. p.num \in Nat \ {0}
                BY <2>1, PacketFields
            <4>2. rx[u][c] \in Seq(Nat \ {0}) /\ capacity[u][c] \in {Low, High}
                BY <2>1, Types
            <4> QED BY <4>1, <4>2, ChannelAssumption
        <3>4. Len(rx'[u][c]) = Len(rx[u][c]) + 1
            <4> HIDE DEF c, p
            <4> QED BY <2>1, <3>2, <3>3, Types
        <3>5. Len(rx'[u][c]) >= capacity'[u][c]
            <4> HIDE DEF c, p
            <4>1. Len(rx[u][c]) \in Nat
                BY <3>3
            <4> QED BY <3>1, <3>2, <3>3, <3>4, <4>1
        <3> QED BY <2>1, <3>1, <3>5, PacketTypes DEF New
    <2> HIDE DEF x, c, p
    <2>4. QueueStays(s) \/ (s = u /\ New(u, x) /\ queue'[s] = Append(queue[s], x))
        BY <2>1, <2>3, PutMoves DEF QueueStays
    <2>5. CASE QueueStays(s)
        BY <1>1, <2>1, <2>5
    <2>6. CASE s = u /\ New(u, x) /\ queue'[s] = Append(queue[s], x)
        BY <2>1, <2>6, ReadMoves DEF Moves
    <2> QED BY <2>4, <2>5, <2>6
<1>3. CASE HandleSlow(u) \/ HandleGo(u) \/ HandleMake(u)
    BY <1>1, <1>3 DEF HandleSlow, HandleGo, HandleMake, QueueStays
<1>4. CASE HandleDestroy(u)
    <2>1. Reads(u, "destroy") /\ c \in Subs
        BY <1>4, ReadsFacts, PacketFields DEF HandleDestroy
    <2>2. CASE ~Listens(u, c)
        BY <1>1, <1>4, <2>1, <2>2 DEF HandleDestroy, QueueStays
    <2>3. CASE Listens(u, c)
        <3>0. PICK n \in Subs : n = c
            BY <2>1
        <3>1. PICK q \in Cleaned(n, queue[u]) : queue' = [queue EXCEPT ![u] = q]
            BY <1>4, <2>3, <3>0 DEF HandleDestroy
        <3>2. End(u, {n}) /\ {n} \in SUBSET Channels
            BY <1>4, <2>3, <3>0 DEF HandleDestroy, Channels
        <3> HIDE DEF c
        <3>3. ~Listens(u, n)'
            BY <3>2, EndFacts
        <3>4. CASE s = u
            <4>1. queue'[s] \in Cleaned(n, queue[s])
                BY <3>1, <3>4, Types
            <4> QED BY <2>1, <3>3, <3>4, <4>1, ReadMoves DEF Moves
        <3>5. CASE s # u
            <4>1. QueueStays(s)
                BY <3>1, <3>5, Types DEF QueueStays
            <4> QED BY <1>1, <2>1, <4>1
        <3> QED BY <3>4, <3>5
    <2> QED BY <2>2, <2>3
<1> QED BY <1>2, <1>3, <1>4 DEF Handle

LEMMA SideMoves ==
    ASSUME TypeOK, NEW u \in Sides, SideStep(u), NEW s \in Sides
    PROVE  Moves(s)
<1>1. CASE TakePacket(u)
    <2>1. CASE s = u
        <3>1. /\ queue[s] # <<>> /\ writing[s] = NoPacket
              /\ queue'[s] = Tail(queue[s]) /\ writing'[s] = Head(queue[s]) /\ WireStays(s)
            BY <1>1, <2>1, Types DEF TakePacket, WireStays
        <3> QED BY <3>1 DEF Moves
    <2>2. CASE s # u
        BY <1>1, <2>2, StaysMoves, Types DEF TakePacket, QueueStays, WritingStays, WireStays
    <2> QED BY <2>1, <2>2
<1>2. CASE Written(u)
    <2>1. Other(u) \in Sides /\ Other(s) \in Sides /\ (s # u => Other(s) # Other(u))
        BY DEF Sides, Other
    <2>2. CASE s = u
        <3>2. \A t \in Senders : writing[s].by = t => pc'[t] # "queued"
            BY <1>2, <2>2, ChannelAssumption DEF Written, TypeOK, Tasks
        <3>1. /\ writing[s] # NoPacket /\ writing'[s] = NoPacket /\ QueueStays(s)
              /\ wire'[Other(s)] = IF up /\ closing[Other(s)] = "no"
                                   THEN Append(wire[Other(s)], writing[s]) ELSE wire[Other(s)]
            BY <1>2, <2>1, <2>2, Types DEF Written, QueueStays
        <3> QED BY <3>1, <3>2 DEF Moves
    <2>3. CASE s # u
        BY <1>2, <2>1, <2>3, StaysMoves, Types DEF Written, QueueStays, WritingStays, WireStays
    <2> QED BY <2>2, <2>3
<1>3. CASE WriteFails(u) \/ ReceiveFails(u) \/ KeepaliveTimeout(u) \/ UserClose(u)
    BY <1>3, CloseMoves DEF WriteFails, ReceiveFails, KeepaliveTimeout, UserClose
<1>4. CASE FinishClose(u) \/ CloserKilled(u)
    BY <1>4, StaysMoves DEF FinishClose, CloserKilled, socketVars, QueueStays, WritingStays, WireStays
<1> QED BY <1>1, <1>2, <1>3, <1>4, HandleMoves DEF SideStep, TaskStep

LEMMA SubMoves ==
    ASSUME TypeOK, NEW n \in Subs, SubStep(n), NEW s \in Sides
    PROVE  Moves(s)
<1>1. Maker[n] \in Sides /\ n \in Channels /\ Main \in Channels
    BY ChannelAssumption DEF Channels
<1>2. WritingStays(s) /\ WireStays(s)
    BY DEF SubStep, MakeChannel, TakeChannel, CloseSub, LowerCapacity, socketVars, WritingStays, WireStays
<1>3. CASE MakeChannel(n)
    <2> DEFINE x == Command("make", n)
    <2>1. New(Maker[n], x)
        <3>1. state'[Maker[n]][n] = "open"
            BY <1>1, <1>3, Types DEF MakeChannel
        <3> QED BY <1>3, <3>1, PacketTypes DEF New, MakeChannel
    <2>2. Put(Maker[n], Main, x)
        BY <1>3 DEF MakeChannel
    <2> HIDE DEF x
    <2>3. QueueStays(s) \/ (s = Maker[n] /\ queue'[s] = Append(queue[s], x))
        BY <1>1, <2>1, <2>2, PutMoves
    <2> QED BY <1>2, <2>1, <2>3 DEF Moves
<1>4. CASE TakeChannel(n)
    BY <1>2, <1>4, StaysMoves DEF TakeChannel, socketVars, QueueStays
<1>5. ASSUME NEW u \in Sides, CloseSub(n, u) PROVE Moves(s)
    <2>1. CASE closing[u] = "no"
        <3>1. PICK q \in Cleaned(n, Append(queue[u], Command("destroy", n))) :
                 queue' = [queue EXCEPT ![u] = q]
            BY <1>5, <2>1 DEF CloseSub
        <3>2. New(u, Command("destroy", n))
            BY <1>5, PacketTypes DEF New, CloseSub
        <3>3. ~Listens(u, n)'
            BY <1>1, <1>5, EndFacts DEF CloseSub
        <3>4. CASE s = u
            <4>1. queue'[s] \in Cleaned(n, Append(queue[s], Command("destroy", n)))
                BY <3>1, <3>4, Types
            <4> QED BY <1>2, <3>2, <3>3, <3>4, <4>1 DEF Moves
        <3>5. CASE s # u
            BY <1>2, <3>1, <3>5, StaysMoves, Types DEF QueueStays
        <3> QED BY <3>4, <3>5
    <2>2. CASE closing[u] # "no"
        BY <1>2, <1>5, <2>2, StaysMoves DEF CloseSub, QueueStays
    <2> QED BY <2>1, <2>2
<1>6. ASSUME NEW u \in Sides, LowerCapacity(n, u) PROVE Moves(s)
    BY <1>2, <1>6, StaysMoves DEF LowerCapacity, socketVars, QueueStays
<1> QED BY <1>3, <1>4, <1>5, <1>6 DEF SubStep

LEMMA StepMoves ==
    ASSUME TypeOK, HasEnd, [Next]_vars, NEW s \in Sides
    PROVE  Moves(s)
<1>1. CASE LinkFails
    <2>1. wire'[Other(s)] = <<>> /\ QueueStays(s) /\ WritingStays(s) /\ ~up'
        BY <1>1, SideTypes DEF LinkFails, QueueStays, WritingStays
    <2> QED BY <2>1 DEF Moves
<1>2. CASE UNCHANGED vars
    BY <1>2, StaysMoves DEF vars, socketVars, QueueStays, WritingStays, WireStays
<1> QED BY <1>1, <1>2, SenderMoves, ReceiverMoves, SideMoves, SubMoves DEF Next

-----------------------------------------------------------------------------
(* What a step does to the ends of the channels *)

StateStep(s, c) ==
    \/ state'[s][c] = state[s][c]
    \/ state[s][c] = "pending" /\ state'[s][c] = "dropped"
    \/ state[s][c] = "open" /\ state'[s][c] = "closed" /\ (c = Main => closing'[s] # "no")
    \/ c \in Subs /\ s = Maker[c] /\ state[s][c] = "none" /\ state'[s][c] = "open"
    \/ c \in Subs /\ s = Other(Maker[c]) /\ state[s][c] = "pending" /\ state'[s][c] = "open"
    \/ /\ c \in Subs /\ state'[s][c] = "pending"
       /\ wire[s] # <<>> /\ Head(wire[s]) = Command("make", c) /\ wire'[s] = Tail(wire[s])

LEMMA EndStep ==
    ASSUME TypeOK, NEW u \in Sides, NEW D \in SUBSET Channels, End(u, D),
           Main \in D => closing'[u] # "no",
           NEW s \in Sides, NEW c \in Channels
    PROVE  StateStep(s, c)
<1>1. CASE s = u /\ c \in D
    BY <1>1, EndFacts DEF StateStep
<1>2. CASE s # u \/ c \notin D
    BY <1>2, EndFacts DEF StateStep
<1> QED BY <1>1, <1>2

LEMMA CloseStep ==
    ASSUME TypeOK, NEW u \in Sides, BeginClose(u),
           NEW s \in Sides, NEW c \in Channels
    PROVE  StateStep(s, c)
<1>1. CASE s = u /\ c = Main
    <2>1. state[s][c] \in {"open", "closed"}
        BY <1>1 DEF TypeOK, EndStates
    <2>2. state'[s][c] = "closed" /\ closing'[s] # "no"
        BY <1>1, Types DEF BeginClose, TypeOK
    <2> QED BY <2>1, <2>2 DEF StateStep
<1>2. CASE ~(s = u /\ c = Main)
    <2>1. state'[s][c] = state[s][c]
        BY <1>2, Types DEF BeginClose
    <2> QED BY <2>1 DEF StateStep
<1> QED BY <1>1, <1>2

LEMMA HandleStep ==
    ASSUME TypeOK, NEW u \in Sides, Handle(u), NEW s \in Sides, NEW c \in Channels
    PROVE  StateStep(s, c)
<1>1. CASE HandleData(u) \/ HandleSlow(u) \/ HandleGo(u)
    BY <1>1 DEF HandleData, HandleSlow, HandleGo, endVars, StateStep
<1>2. CASE HandleMake(u)
    <2> DEFINE p == Head(wire[u])
    <2>1. p.kind = "make" /\ p \in Packets /\ wire'[u] = Tail(wire[u]) /\ wire[u] # <<>>
        BY <1>2, ReadsFacts DEF HandleMake
    <2>2. PICK n \in Subs : n = p.ch
        BY <2>1, PacketFields
    <2>3. p = Command("make", n)
        BY <2>1, <2>2, PacketFields
    <2>4. state' = [state EXCEPT ![u][n] = "pending"] /\ n \in Channels
        BY <1>2, <2>2 DEF HandleMake, Channels
    <2> HIDE DEF p
    <2>5. CASE s = u /\ c = n
        <3>1. state'[s][c] = "pending"
            BY <2>4, <2>5, Types
        <3> QED BY <2>1, <2>3, <2>5, <3>1 DEF StateStep, p
    <2>6. CASE ~(s = u /\ c = n)
        <3>1. state'[s][c] = state[s][c]
            BY <2>4, <2>6, Types
        <3> QED BY <3>1 DEF StateStep
    <2> QED BY <2>5, <2>6
<1>3. CASE HandleDestroy(u)
    <2> DEFINE p == Head(wire[u])
    <2>1. p.kind = "destroy" /\ p \in Packets
        BY <1>3, ReadsFacts DEF HandleDestroy
    <2>2. PICK n \in Subs : n = p.ch
        BY <2>1, PacketFields
    <2>3. UNCHANGED state \/ End(u, {n})
        BY <1>3, <2>2 DEF HandleDestroy
    <2>4. {n} \in SUBSET Channels /\ Main \notin {n}
        BY ChannelAssumption DEF Channels
    <2> QED BY <2>3, <2>4, EndStep DEF StateStep
<1> QED BY <1>1, <1>2, <1>3 DEF Handle

LEMMA SubStates ==
    ASSUME TypeOK, NEW n \in Subs, SubStep(n), NEW s \in Sides, NEW c \in Channels
    PROVE  StateStep(s, c)
<1>1. /\ Maker[n] \in Sides /\ Other(Maker[n]) \in Sides
      /\ n \in Channels /\ {n} \in SUBSET Channels /\ Main \notin {n}
    BY ChannelAssumption, SideTypes DEF Channels
<1>2. CASE MakeChannel(n)
    <2>1. CASE s = Maker[n] /\ c = n
        <3>1. state'[s][c] = "open" /\ state[s][c] = "none"
            BY <1>1, <1>2, <2>1, Types DEF MakeChannel
        <3> QED BY <2>1, <3>1 DEF StateStep
    <2>2. CASE ~(s = Maker[n] /\ c = n)
        <3>1. state'[s][c] = state[s][c]
            BY <1>1, <1>2, <2>2, Types DEF MakeChannel
        <3> QED BY <3>1 DEF StateStep
    <2> QED BY <2>1, <2>2
<1>3. CASE TakeChannel(n)
    <2>1. CASE s = Other(Maker[n]) /\ c = n
        <3>1. state'[s][c] = "open" /\ state[s][c] = "pending"
            BY <1>1, <1>3, <2>1, Types DEF TakeChannel
        <3> QED BY <2>1, <3>1 DEF StateStep
    <2>2. CASE ~(s = Other(Maker[n]) /\ c = n)
        <3>1. state'[s][c] = state[s][c]
            BY <1>1, <1>3, <2>2, Types DEF TakeChannel
        <3> QED BY <3>1 DEF StateStep
    <2> QED BY <2>1, <2>2
<1>4. ASSUME NEW u \in Sides, CloseSub(n, u) PROVE StateStep(s, c)
    BY <1>1, <1>4, EndStep DEF CloseSub
<1>5. ASSUME NEW u \in Sides, LowerCapacity(n, u) PROVE StateStep(s, c)
    BY <1>5 DEF LowerCapacity, StateStep
<1> QED BY <1>2, <1>3, <1>4, <1>5 DEF SubStep

LEMMA StepStates ==
    ASSUME TypeOK, [Next]_vars, NEW s \in Sides, NEW c \in Channels
    PROVE  StateStep(s, c)
<1>1. ASSUME NEW u \in Sides, SideStep(u) PROVE StateStep(s, c)
    <2>1. CASE TakePacket(u) \/ Written(u) \/ CloserKilled(u)
        BY <2>1 DEF TakePacket, Written, CloserKilled, endVars, StateStep
    <2>2. CASE WriteFails(u) \/ ReceiveFails(u) \/ KeepaliveTimeout(u) \/ UserClose(u)
        BY <2>2, CloseStep DEF WriteFails, ReceiveFails, KeepaliveTimeout, UserClose
    <2>3. CASE FinishClose(u)
        <3>1. End(u, Channels) /\ closing'[u] # "no"
            BY <2>3 DEF FinishClose, TypeOK
        <3> QED BY <3>1, EndStep
    <2> QED BY <1>1, <2>1, <2>2, <2>3, HandleStep DEF SideStep, TaskStep
<1>2. ASSUME NEW t \in Senders, SenderStep(t) PROVE StateStep(s, c)
    BY <1>2 DEF SenderStep, SendPacket, GoOn, SendAsync, endVars, StateStep
<1>3. ASSUME NEW t \in Receivers, ReceiverStep(t) PROVE StateStep(s, c)
    BY <1>3 DEF ReceiverStep, RecvPacket, RecvNothing, RecvFails, endVars, StateStep
<1>4. CASE LinkFails \/ UNCHANGED vars
    BY <1>4 DEF LinkFails, vars, endVars, StateStep
<1> QED BY <1>1, <1>2, <1>3, <1>4, SubStates DEF Next

\* A side that closes does not open again, and its connection is open until then.
MainOpen == \A s \in Sides : closing[s] = "no" => state[s][Main] = "open"

LEMMA ClosingStays ==
    ASSUME TypeOK, [Next]_vars, NEW s \in Sides, closing'[s] = "no"
    PROVE  closing[s] = "no"
<1>1. ASSUME NEW u \in Sides, SideStep(u) PROVE closing[s] = "no"
    BY <1>1 DEF SideStep, TaskStep, TakePacket, Written, CloserKilled, FinishClose, BeginClose,
            WriteFails, ReceiveFails, KeepaliveTimeout, UserClose, Handle, HandleData, HandleSlow,
            HandleGo, HandleMake, HandleDestroy, Reads, TypeOK
<1>2. ASSUME NEW t \in Senders, SenderStep(t) PROVE closing[s] = "no"
    BY <1>2 DEF SenderStep, SendPacket, GoOn, SendAsync
<1>3. ASSUME NEW t \in Receivers, ReceiverStep(t) PROVE closing[s] = "no"
    BY <1>3 DEF ReceiverStep, RecvPacket, RecvNothing, RecvFails
<1>4. ASSUME NEW n \in Subs, SubStep(n) PROVE closing[s] = "no"
    BY <1>4 DEF SubStep, MakeChannel, TakeChannel, CloseSub, LowerCapacity
<1>5. CASE LinkFails \/ UNCHANGED vars
    BY <1>5 DEF LinkFails, vars
<1> QED BY <1>1, <1>2, <1>3, <1>4, <1>5 DEF Next

LEMMA MainOpenStep ==
    ASSUME TypeOK, MainOpen, [Next]_vars
    PROVE  MainOpen'
<1> SUFFICES ASSUME NEW s \in Sides, closing'[s] = "no" PROVE state'[s][Main] = "open"
    BY DEF MainOpen
<1>1. state[s][Main] = "open"
    BY ClosingStays DEF MainOpen
<1>2. StateStep(s, Main)
    BY StepStates DEF Channels
<1> QED BY <1>1, <1>2, ChannelAssumption DEF StateStep

-----------------------------------------------------------------------------
(* What is on its way *)

LEMMA SeqDiffers ==
    ASSUME NEW q \in Seq(Packets), q # <<>>
    PROVE  /\ Tail(q) # q
           /\ \A x \in Packets : Tail(q) # Append(q, x)
<1>1. Len(Tail(q)) = Len(q) - 1 /\ Len(q) \in Nat
    OBVIOUS
<1>2. \A x \in Packets : Len(Append(q, x)) = Len(q) + 1
    OBVIOUS
<1>3. ASSUME Tail(q) = q PROVE FALSE
    <2>1. Len(q) - 1 = Len(q)
        BY <1>1, <1>3
    <2> QED BY <1>1, <2>1
<1>4. ASSUME NEW x \in Packets, Tail(q) = Append(q, x) PROVE FALSE
    <2>1. Len(q) - 1 = Len(q) + 1
        BY <1>1, <1>2, <1>4
    <2> QED BY <1>1, <2>1
<1> QED BY <1>3, <1>4

LEMMA EmptyFacts ==
    /\ \A p : ~InSeq(<<>>, p) /\ Once(<<>>, p)
    /\ \A c : ~EndsSlow(<<>>, c)
    BY DEF InSeq, Once, EndsSlow

\* Only a new packet is added to what is carried.
LEMMA CarriedStep ==
    ASSUME TypeOK, NEW s \in Sides, Moves(s), NEW p \in Packets, Carried(s, p)'
    PROVE  Carried(s, p) \/ New(s, p)
<1>1. /\ queue[s] \in Seq(Packets) /\ wire[Other(s)] \in Seq(Packets)
      /\ writing[s] \in Packets \cup {NoPacket} /\ p # NoPacket
    BY SideTypes, Types, PacketAssumption
<1>2. InSeq(queue'[s], p) \/ writing'[s] = p \/ InSeq(wire'[Other(s)], p)
    BY DEF Carried
<1>3. ASSUME NEW x, New(s, x), queue'[s] = Append(queue[s], x), WritingStays(s), WireStays(s)
      PROVE  Carried(s, p) \/ New(s, p)
    <2>1. InSeq(queue'[s], p) => InSeq(queue[s], p) \/ x = p
        BY <1>1, <1>3, AppendFacts DEF New
    <2> QED BY <1>2, <1>3, <2>1 DEF Carried, WritingStays, WireStays
<1>4. ASSUME NEW n \in Subs, queue'[s] \in Cleaned(n, queue[s]), WritingStays(s), WireStays(s)
      PROVE  Carried(s, p)
    BY <1>1, <1>2, <1>4, CleanedFacts DEF Carried, WritingStays, WireStays
<1>5. ASSUME NEW n \in Subs, New(s, Command("destroy", n)),
             queue'[s] \in Cleaned(n, Append(queue[s], Command("destroy", n))),
             WritingStays(s), WireStays(s)
      PROVE  Carried(s, p) \/ New(s, p)
    <2> DEFINE r == Append(queue[s], Command("destroy", n))
    <2>1. r \in Seq(Packets) /\ (InSeq(r, p) <=> InSeq(queue[s], p) \/ Command("destroy", n) = p)
        BY <1>1, PacketTypes, AppendFacts
    <2>2. InSeq(queue'[s], p) => InSeq(r, p)
        <3> HIDE DEF r
        <3> QED BY <1>5, <2>1, CleanedFacts DEF r
    <2> QED BY <1>2, <1>5, <2>1, <2>2 DEF Carried, WritingStays, WireStays
<1>6. CASE /\ queue[s] # <<>> /\ writing[s] = NoPacket
           /\ queue'[s] = Tail(queue[s]) /\ writing'[s] = Head(queue[s]) /\ WireStays(s)
    BY <1>1, <1>2, <1>6, TailFacts DEF Carried, WireStays
<1>7. CASE /\ writing[s] # NoPacket /\ writing'[s] = NoPacket /\ QueueStays(s)
           /\ wire'[Other(s)] = IF up /\ closing[Other(s)] = "no"
                                THEN Append(wire[Other(s)], writing[s]) ELSE wire[Other(s)]
    <2>1. InSeq(wire'[Other(s)], p) => InSeq(wire[Other(s)], p) \/ writing[s] = p
        BY <1>1, <1>7, AppendFacts
    <2> QED BY <1>1, <1>2, <1>7, <2>1 DEF Carried, QueueStays
<1>8. CASE /\ wire[Other(s)] # <<>> /\ wire'[Other(s)] = Tail(wire[Other(s)])
           /\ QueueStays(s) /\ WritingStays(s)
    BY <1>1, <1>2, <1>8, TailFacts DEF Carried, QueueStays, WritingStays
<1>9. CASE queue'[s] = <<>> /\ writing'[s] = NoPacket /\ WireStays(s)
    BY <1>1, <1>2, <1>9, EmptyFacts DEF Carried, WireStays
<1>10. CASE wire'[Other(s)] = <<>> /\ QueueStays(s) /\ WritingStays(s)
    BY <1>2, <1>10, EmptyFacts DEF Carried, QueueStays, WritingStays
<1>11. CASE QueueStays(s) /\ WritingStays(s) /\ WireStays(s)
    BY <1>2, <1>11 DEF Carried, QueueStays, WritingStays, WireStays
<1> QED BY <1>3, <1>4, <1>5, <1>6, <1>7, <1>8, <1>9, <1>10, <1>11 DEF Moves

LEMMA OriginsStep ==
    ASSUME TypeOK, Origins, HasEnd, [Next]_vars
    PROVE  Origins'
<1> SUFFICES ASSUME NEW s \in Sides, NEW n \in Subs, Carried(s, Command("make", n))'
             PROVE  s = Maker[n]
    BY DEF Origins
<1>1. Command("make", n) \in Packets
    BY PacketTypes
<1>2. CASE Carried(s, Command("make", n))
    BY <1>2 DEF Origins
<1>3. CASE New(s, Command("make", n))
    BY <1>3 DEF New, Command
<1> QED BY <1>1, <1>2, <1>3, StepMoves, CarriedStep

-----------------------------------------------------------------------------
(* A virtual channel is announced once *)

\* At most one MAKE of the channel is carried, and only to a side that has no such channel,
\* by one that has it.
AnnouncedOnce(n) ==
    LET m == Maker[n]
        t == Other(m)
        x == Command("make", n)
    IN
    /\ Once(queue[m], x) /\ Once(wire[t], x)
    /\ ~(InSeq(queue[m], x) /\ writing[m] = x)
    /\ ~(InSeq(queue[m], x) /\ InSeq(wire[t], x))
    /\ ~(writing[m] = x /\ InSeq(wire[t], x))
    /\ Carried(m, x) => state[t][n] = "none" /\ state[m][n] # "none"
    /\ state[m][n] = "none" => state[t][n] = "none"

Announced == \A n \in Subs : AnnouncedOnce(n)

LEMMA OnceStep ==
    ASSUME TypeOK, NEW n \in Subs, NEW m \in Sides, m = Maker[n], AnnouncedOnce(n), Moves(m),
           NEW t, t = Other(m), NEW x, x = Command("make", n)
    PROVE  /\ Once(queue'[m], x) /\ Once(wire'[t], x)
           /\ ~(InSeq(queue'[m], x) /\ writing'[m] = x)
           /\ ~(InSeq(queue'[m], x) /\ InSeq(wire'[t], x))
           /\ ~(writing'[m] = x /\ InSeq(wire'[t], x))
<1> DEFINE Goal == /\ Once(queue'[m], x) /\ Once(wire'[t], x)
                   /\ ~(InSeq(queue'[m], x) /\ writing'[m] = x)
                   /\ ~(InSeq(queue'[m], x) /\ InSeq(wire'[t], x))
                   /\ ~(writing'[m] = x /\ InSeq(wire'[t], x))
<1> SUFFICES Goal
    OBVIOUS
<1>1. /\ queue[m] \in Seq(Packets) /\ wire[t] \in Seq(Packets) /\ x \in Packets
      /\ writing[m] \in Packets \cup {NoPacket} /\ x # NoPacket /\ t \in Sides
    BY SideTypes, Types, PacketTypes, PacketAssumption
<1>2. /\ Once(queue[m], x) /\ Once(wire[t], x)
      /\ ~(InSeq(queue[m], x) /\ writing[m] = x)
      /\ ~(InSeq(queue[m], x) /\ InSeq(wire[t], x))
      /\ ~(writing[m] = x /\ InSeq(wire[t], x))
    BY DEF AnnouncedOnce
<1>3. Carried(m, x) => state[m][n] # "none"
    BY DEF AnnouncedOnce
<1>4. ASSUME NEW y, New(m, y), queue'[m] = Append(queue[m], y), WritingStays(m), WireStays(m)
      PROVE  Goal
    <2>1. y \in Packets
        BY <1>4 DEF New
    <2>2. CASE y = x
        <3>1. state[m][n] = "none"
            BY <1>4, <2>2 DEF New, Command
        <3>2. ~InSeq(queue[m], x) /\ writing[m] # x /\ ~InSeq(wire[t], x)
            BY <1>3, <3>1 DEF Carried
        <3>3. Once(queue'[m], x)
            BY <1>1, <1>2, <1>4, <2>1, <3>2, AppendFacts
        <3> QED BY <1>2, <1>4, <3>2, <3>3 DEF WritingStays, WireStays
    <2>3. CASE y # x
        <3>1. (InSeq(queue'[m], x) <=> InSeq(queue[m], x)) /\ Once(queue'[m], x)
            BY <1>1, <1>2, <1>4, <2>1, <2>3, AppendFacts
        <3> QED BY <1>2, <1>4, <3>1 DEF WritingStays, WireStays
    <2> QED BY <2>2, <2>3
<1>5. ASSUME NEW q \in Seq(Packets), NEW k \in Subs, Once(q, x),
             InSeq(q, x) <=> InSeq(queue[m], x), queue'[m] \in Cleaned(k, q),
             WritingStays(m), WireStays(m)
      PROVE  Goal
    <2>1. (InSeq(queue'[m], x) => InSeq(queue[m], x)) /\ Once(queue'[m], x)
        BY <1>5, CleanedFacts
    <2> QED BY <1>2, <1>5, <2>1 DEF WritingStays, WireStays
<1>6. ASSUME NEW k \in Subs, queue'[m] \in Cleaned(k, queue[m]), WritingStays(m), WireStays(m)
      PROVE  Goal
    BY <1>1, <1>2, <1>5, <1>6
<1>7. ASSUME NEW k \in Subs, queue'[m] \in Cleaned(k, Append(queue[m], Command("destroy", k))),
             WritingStays(m), WireStays(m)
      PROVE  Goal
    <2> DEFINE r == Append(queue[m], Command("destroy", k))
    <2>1. Command("destroy", k) # x /\ Command("destroy", k) \in Packets
        BY PacketTypes DEF Command
    <2>2. r \in Seq(Packets) /\ Once(r, x) /\ (InSeq(r, x) <=> InSeq(queue[m], x))
        BY <1>1, <1>2, <2>1, AppendFacts
    <2> HIDE DEF r
    <2> QED BY <1>5, <1>7, <2>2 DEF r
<1>8. CASE /\ queue[m] # <<>> /\ writing[m] = NoPacket
           /\ queue'[m] = Tail(queue[m]) /\ writing'[m] = Head(queue[m]) /\ WireStays(m)
    BY <1>1, <1>2, <1>8, TailFacts DEF WireStays
<1>9. CASE /\ writing[m] # NoPacket /\ writing'[m] = NoPacket /\ QueueStays(m)
           /\ wire'[Other(m)] = IF up /\ closing[Other(m)] = "no"
                                THEN Append(wire[Other(m)], writing[m]) ELSE wire[Other(m)]
    <2>1. /\ InSeq(wire'[t], x) => InSeq(wire[t], x) \/ writing[m] = x
          /\ Once(wire'[t], x)
        BY <1>1, <1>2, <1>9, AppendFacts
    <2> QED BY <1>1, <1>2, <1>9, <2>1 DEF QueueStays
<1>10. CASE /\ wire[Other(m)] # <<>> /\ wire'[Other(m)] = Tail(wire[Other(m)])
            /\ QueueStays(m) /\ WritingStays(m)
    BY <1>1, <1>2, <1>10, TailFacts DEF QueueStays, WritingStays
<1>11. CASE queue'[m] = <<>> /\ writing'[m] = NoPacket /\ WireStays(m)
    BY <1>1, <1>2, <1>11, EmptyFacts DEF WireStays
<1>12. CASE wire'[Other(m)] = <<>> /\ QueueStays(m) /\ WritingStays(m)
    BY <1>1, <1>2, <1>12, EmptyFacts DEF QueueStays, WritingStays
<1>13. CASE QueueStays(m) /\ WritingStays(m) /\ WireStays(m)
    BY <1>1, <1>2, <1>13 DEF QueueStays, WritingStays, WireStays
<1> HIDE DEF Goal
<1> QED BY <1>4, <1>6, <1>7, <1>8, <1>9, <1>10, <1>11, <1>12, <1>13 DEF Moves

\* A packet that was carried once is gone when it is read.
LEMMA ReadIsGone ==
    ASSUME TypeOK, NEW n \in Subs, NEW m \in Sides, m = Maker[n], AnnouncedOnce(n), Moves(m),
           NEW t, t = Other(m), NEW x, x = Command("make", n),
           wire[t] # <<>>, Head(wire[t]) = x, wire'[t] = Tail(wire[t])
    PROVE  ~Carried(m, x)'
<1>1. wire[t] \in Seq(Packets) /\ writing[m] \in Packets \cup {NoPacket} /\ t \in Sides
    BY SideTypes, Types
<1>2. ~InSeq(Tail(wire[t]), x) /\ ~InSeq(queue[m], x) /\ writing[m] # x
    BY <1>1, TailFacts DEF AnnouncedOnce
<1>3. ~WireStays(m) /\ (writing[m] \in Packets => wire'[t] # Append(wire[t], writing[m]))
    BY <1>1, SeqDiffers DEF WireStays
<1>4. QueueStays(m) /\ WritingStays(m)
    BY <1>1, <1>3 DEF Moves, WireStays
<1> QED BY <1>2, <1>4 DEF Carried, QueueStays, WritingStays

LEMMA AnnouncedStep ==
    ASSUME TypeOK, Announced, HasEnd, [Next]_vars
    PROVE  Announced'
<1> SUFFICES ASSUME NEW n \in Subs PROVE AnnouncedOnce(n)'
    BY DEF Announced
<1>1. PICK m \in Sides : m = Maker[n]
    BY ChannelAssumption
<1>2. PICK t \in Sides : t = Other(m) /\ t # m /\ Other(t) = m
    BY SideTypes
<1> DEFINE x == Command("make", n)
<1>3. AnnouncedOnce(n) /\ Moves(m) /\ x \in Packets /\ n \in Channels /\ n # Main
    BY StepMoves, PacketTypes, ChannelAssumption DEF Announced, Channels
<1>4. StateStep(m, n) /\ StateStep(t, n)
    BY <1>3, StepStates
<1>5. /\ Carried(m, x) => state[t][n] = "none" /\ state[m][n] # "none"
      /\ state[m][n] = "none" => state[t][n] = "none"
    BY <1>1, <1>2, <1>3 DEF AnnouncedOnce
<1>6. state[m][n] # "none" => state'[m][n] # "none"
    BY <1>4 DEF StateStep
<1>7. \/ state[t][n] = "none" => state'[t][n] = "none"
      \/ wire[t] # <<>> /\ Head(wire[t]) = x /\ wire'[t] = Tail(wire[t])
    BY <1>1, <1>2, <1>4 DEF StateStep
<1>8. wire[t] # <<>> /\ Head(wire[t]) = x => Carried(m, x)
    <2>1. wire[t] \in Seq(Packets)
        BY Types
    <2> QED BY <1>2, <2>1, TailFacts DEF Carried
<1>9. ASSUME Carried(m, x)' PROVE state'[t][n] = "none" /\ state'[m][n] # "none"
    <2>1. CASE Carried(m, x)
        <3>1. ~(wire[t] # <<>> /\ Head(wire[t]) = x /\ wire'[t] = Tail(wire[t]))
            BY <1>1, <1>2, <1>3, <1>9, ReadIsGone
        <3> QED BY <1>5, <1>6, <1>7, <2>1, <3>1
    <2>2. CASE New(m, x) /\ ~Carried(m, x)
        <3>1. state[m][n] = "none" /\ state'[m][n] = "open"
            BY <2>2 DEF New, Command
        <3> QED BY <1>5, <1>7, <1>8, <2>2, <3>1
    <2> QED BY <1>3, <1>9, <2>1, <2>2, CarriedStep
<1>10. state'[m][n] = "none" => state'[t][n] = "none"
    BY <1>5, <1>6, <1>7, <1>8
<1> QED BY <1>1, <1>2, <1>3, <1>9, <1>10, OnceStep DEF AnnouncedOnce

\* An end that is taken, or closed, is not announced again.
LEMMA NotAgain ==
    ASSUME TypeOK, Origins, Announced, NEW s \in Sides, NEW n \in Subs,
           wire[s] # <<>>, Head(wire[s]) = Command("make", n)
    PROVE  s = Other(Maker[n]) /\ state[s][n] = "none" /\ state[Maker[n]][n] # "none"
<1>1. wire[s] \in Seq(Packets)
    BY Types
<1>2. Carried(Other(s), Command("make", n))
    BY <1>1, TailFacts, SideTypes DEF Carried
<1>3. Other(s) = Maker[n] /\ Other(Other(s)) = s
    BY <1>2, SideTypes DEF Origins
<1> QED BY <1>2, <1>3 DEF Announced, AnnouncedOnce

-----------------------------------------------------------------------------
(* The senders that wait *)

LEMMA HasStays ==
    ASSUME TypeOK, Origins, Announced, [Next]_vars, NEW s \in Sides, NEW c \in Channels, Has(s, c)
    PROVE  Has(s, c)'
BY StepStates, NotAgain DEF StateStep, Has

\* A sender begins to wait on a channel that the application has.
LEMMA WaitStep ==
    ASSUME TypeOK, [Next]_vars, NEW t \in Senders,
           pc'[t] \in {"stopped", "released", "queued"}
    PROVE  pc[t] \in {"stopped", "released", "queued"} \/ Has(At[t], On[t])
<1>1. t \in Tasks /\ t \notin Receivers
    BY ChannelAssumption DEF Tasks
<1>2. ASSUME NEW r \in Senders, SenderStep(r) PROVE pc[t] \in {"stopped", "released", "queued"} \/ Has(At[t], On[t])
    BY <1>1, <1>2 DEF SenderStep, SendPacket, GoOn, SendAsync, Submit, TypeOK
<1>3. ASSUME NEW r \in Receivers, ReceiverStep(r) PROVE pc[t] = pc'[t]
    BY <1>1, <1>3 DEF ReceiverStep, RecvPacket, Pop, RecvNothing, RecvFails, TypeOK
<1>4. ASSUME NEW u \in Sides, NEW D \in SUBSET Channels, End(u, D)
      PROVE  pc[t] \in {"stopped", "released", "queued"}
    BY <1>1, <1>4 DEF End
<1>5. ASSUME NEW u \in Sides, SideStep(u) PROVE pc[t] \in {"stopped", "released", "queued"}
    <2>1. CASE TakePacket(u) \/ CloserKilled(u) \/ HandleData(u) \/ HandleSlow(u) \/ HandleMake(u)
        BY <2>1 DEF TakePacket, CloserKilled, HandleData, HandleSlow, HandleMake
    <2>2. CASE WriteFails(u) \/ ReceiveFails(u) \/ KeepaliveTimeout(u) \/ UserClose(u)
        BY <2>2 DEF WriteFails, ReceiveFails, KeepaliveTimeout, UserClose, BeginClose
    <2>3. CASE Written(u)
        BY <1>1, <2>3 DEF Written, TypeOK
    <2>4. CASE HandleGo(u)
        BY <1>1, <2>4 DEF HandleGo
    <2>5. CASE FinishClose(u)
        BY <1>4, <2>5 DEF FinishClose
    <2>6. CASE HandleDestroy(u)
        <3>1. Head(wire[u]).ch \in Channels
            BY <2>6, ReadsFacts DEF HandleDestroy
        <3> QED BY <1>4, <2>6, <3>1 DEF HandleDestroy
    <2> QED BY <1>5, <2>1, <2>2, <2>3, <2>4, <2>5, <2>6 DEF SideStep, TaskStep, Handle
<1>6. ASSUME NEW n \in Subs, SubStep(n) PROVE pc[t] \in {"stopped", "released", "queued"}
    <2>1. {n} \in SUBSET Channels
        BY DEF Channels
    <2> QED BY <1>4, <1>6, <2>1 DEF SubStep, MakeChannel, TakeChannel, CloseSub, LowerCapacity
<1>7. CASE LinkFails \/ UNCHANGED vars
    BY <1>7 DEF LinkFails, vars
<1> QED BY <1>2, <1>3, <1>5, <1>6, <1>7 DEF Next

LEMMA HasEndStep ==
    ASSUME TypeOK, Origins, Announced, HasEnd, [Next]_vars
    PROVE  HasEnd'
<1> SUFFICES ASSUME NEW t \in Senders, pc'[t] \in {"stopped", "released", "queued"}
             PROVE  Has(At[t], On[t])'
    BY DEF HasEnd
<1>1. At[t] \in Sides /\ On[t] \in Channels
    BY TaskFacts DEF Tasks
<1>2. Has(At[t], On[t])
    BY WaitStep DEF HasEnd
<1> QED BY <1>1, <1>2, HasStays

-----------------------------------------------------------------------------
(* What a step does to the flow control of an end *)

Reading(s, x) == wire[s] # <<>> /\ Head(wire[s]) = x /\ wire'[s] = Tail(wire[s])

GoStep(s, c) ==
    \/ go'[s][c]
    \/ /\ go'[s][c] = go[s][c]
       /\ Listens(s, c) /\ closing'[s] = "no" /\ up' => ~Reading(s, Command("go", c))
    \/ Reading(s, Command("slow", c))

LEMMA NotReading ==
    ASSUME TypeOK, NEW s \in Sides, NEW x,
           wire'[s] = wire[s] \/ \E p \in Packets : wire'[s] = Append(wire[s], p)
    PROVE  ~Reading(s, x)
<1>1. wire[s] \in Seq(Packets)
    BY Types
<1> QED BY <1>1, SeqDiffers DEF Reading

LEMMA HandleGoes ==
    ASSUME TypeOK, NEW u \in Sides, Handle(u), NEW s \in Sides, NEW c \in Channels
    PROVE  GoStep(s, c)
<1>0. PICK k \in {"data", "slow", "go", "make", "destroy"} : Reads(u, k)
    BY DEF Handle, HandleData, HandleSlow, HandleGo, HandleMake, HandleDestroy
<1>1. PICK p \in Packets : p = Head(wire[u]) /\ p.ch \in Channels
    BY <1>0, ReadsFacts
<1>2. PICK d \in Channels : d = p.ch
    BY <1>1
<1>3. s # u => wire'[s] = wire[s]
    BY <1>0, ReadsFacts
<1>4. wire[u] # <<>> /\ wire'[u] = Tail(wire[u])
    BY <1>0, ReadsFacts
<1>9. ASSUME p # Command("go", c) PROVE ~Reading(s, Command("go", c))
    <2>1. CASE s = u
        BY <1>1, <1>9, <2>1 DEF Reading
    <2>2. CASE s # u
        BY <1>3, <2>2, NotReading
    <2> QED BY <2>1, <2>2
<1>5. CASE HandleData(u) \/ HandleMake(u)
    <2>1. go'[s][c] = go[s][c]
        BY <1>5 DEF HandleData, HandleMake, endVars
    <2>2. p.kind # "go"
        <3>1. Reads(u, "data") \/ Reads(u, "make")
            BY <1>5 DEF HandleData, HandleMake
        <3> QED BY <1>1, <3>1, ReadsFacts
    <2>3. ~Reading(s, Command("go", c))
        BY <1>9, <2>2 DEF Command
    <2> QED BY <2>1, <2>3 DEF GoStep
<1>6. CASE HandleSlow(u)
    <2>1. p = Command("slow", d)
        <3>1. Reads(u, "slow")
            BY <1>6 DEF HandleSlow
        <3>2. p.kind = "slow"
            BY <1>1, <3>1, ReadsFacts
        <3> QED BY <1>2, <3>2, PacketFields
    <2>2. ~Reading(s, Command("go", c))
        BY <1>9, <2>1 DEF Command
    <2>3. CASE s = u /\ c = d
        <3>1. Reading(s, Command("slow", c))
            BY <1>1, <1>4, <2>1, <2>3 DEF Reading
        <3> QED BY <3>1 DEF GoStep
    <2>4. CASE ~(s = u /\ c = d)
        <3>1. go' = [go EXCEPT ![u][d] = FALSE] \/ go' = go
            BY <1>1, <1>2, <1>6 DEF HandleSlow
        <3>2. go'[s][c] = go[s][c]
            <4>1. CASE go' = go
                BY <4>1
            <4>2. CASE go' = [go EXCEPT ![u][d] = FALSE]
                BY <2>4, <4>2, Types
            <4> QED BY <3>1, <4>1, <4>2
        <3> QED BY <2>2, <3>2 DEF GoStep
    <2> QED BY <2>3, <2>4
<1>7. CASE HandleGo(u)
    <2>1. p = Command("go", d)
        <3>1. Reads(u, "go")
            BY <1>7 DEF HandleGo
        <3>2. p.kind = "go"
            BY <1>1, <3>1, ReadsFacts
        <3> QED BY <1>2, <3>2, PacketFields
    <2>2. go' = IF Listens(u, d) THEN [go EXCEPT ![u][d] = TRUE] ELSE go
        BY <1>1, <1>2, <1>7 DEF HandleGo
    <2>3. CASE s = u /\ c = d
        <3>1. CASE Listens(u, d)
            <4>1. go'[s][c]
                BY <2>2, <2>3, <3>1, Types
            <4> QED BY <4>1 DEF GoStep
        <3>2. CASE ~Listens(u, d)
            BY <2>2, <2>3, <3>2 DEF GoStep
        <3> QED BY <3>1, <3>2
    <2>4. CASE ~(s = u /\ c = d)
        <3>1. go'[s][c] = go[s][c]
            <4>1. CASE Listens(u, d)
                BY <2>2, <2>4, <4>1, Types
            <4>2. CASE ~Listens(u, d)
                BY <2>2, <4>2
            <4> QED BY <4>1, <4>2
        <3>2. ~Reading(s, Command("go", c))
            <4>1. CASE s # u
                BY <1>3, <4>1, NotReading
            <4>2. CASE c # d
                BY <1>9, <2>1, <4>2, CommandsDiffer
            <4> QED BY <2>4, <4>1, <4>2
        <3> QED BY <3>1, <3>2 DEF GoStep
    <2> QED BY <2>3, <2>4
<1>8. CASE HandleDestroy(u)
    <2>1. p.kind # "go"
        BY <1>1, <1>8, ReadsFacts DEF HandleDestroy
    <2>2. ~Reading(s, Command("go", c))
        BY <1>9, <2>1 DEF Command
    <2>3. UNCHANGED go \/ End(u, {d})
        BY <1>1, <1>2, <1>8 DEF HandleDestroy
    <2>4. go'[s][c] \/ go'[s][c] = go[s][c]
        BY <2>3, EndFacts
    <2> QED BY <2>2, <2>4 DEF GoStep
<1> QED BY <1>5, <1>6, <1>7, <1>8 DEF Handle

LEMMA StepGoes ==
    ASSUME TypeOK, [Next]_vars, NEW s \in Sides, NEW c \in Channels
    PROVE  GoStep(s, c)
<1>1. ASSUME go' = go, wire'[s] = wire[s] PROVE GoStep(s, c)
    BY <1>1, NotReading DEF GoStep
<1>2. ASSUME NEW u \in Sides, NEW D \in SUBSET Channels, End(u, D), wire' = wire PROVE GoStep(s, c)
    <2>1. go'[s][c] \/ go'[s][c] = go[s][c]
        BY <1>2, EndFacts
    <2> QED BY <1>2, <2>1, NotReading DEF GoStep
<1>3. ASSUME NEW u \in Sides, BeginClose(u) PROVE GoStep(s, c)
    <2>1. CASE s = u
        <3>1. closing'[s] # "no" /\ go' = go
            BY <1>3, <2>1 DEF BeginClose, TypeOK
        <3> QED BY <3>1 DEF GoStep
    <2>2. CASE s # u
        BY <1>1, <1>3, <2>2, Types DEF BeginClose
    <2> QED BY <2>1, <2>2
<1>4. ASSUME NEW u \in Sides, SideStep(u) PROVE GoStep(s, c)
    <2>1. CASE TakePacket(u) \/ CloserKilled(u)
        BY <1>1, <2>1 DEF TakePacket, CloserKilled, endVars, socketVars
    <2>2. CASE Written(u)
        <3>1. writing[u] \in Packets
            BY <2>2, Types DEF Written
        <3>2. wire'[s] = wire[s] \/ wire'[s] = Append(wire[s], writing[u])
            BY <2>2, Types DEF Written
        <3> QED BY <2>2, <3>1, <3>2, NotReading DEF Written, endVars, GoStep
    <2>3. CASE WriteFails(u) \/ ReceiveFails(u) \/ KeepaliveTimeout(u) \/ UserClose(u)
        BY <1>3, <2>3 DEF WriteFails, ReceiveFails, KeepaliveTimeout, UserClose
    <2>4. CASE FinishClose(u)
        BY <1>2, <2>4 DEF FinishClose, socketVars
    <2> QED BY <1>4, <2>1, <2>2, <2>3, <2>4, HandleGoes DEF SideStep, TaskStep
<1>5. ASSUME NEW t \in Senders, SenderStep(t) PROVE GoStep(s, c)
    BY <1>1, <1>5 DEF SenderStep, SendPacket, GoOn, SendAsync, endVars
<1>6. ASSUME NEW t \in Receivers, ReceiverStep(t) PROVE GoStep(s, c)
    BY <1>1, <1>6 DEF ReceiverStep, RecvPacket, RecvNothing, RecvFails, endVars, socketVars
<1>7. ASSUME NEW n \in Subs, SubStep(n) PROVE GoStep(s, c)
    <2>1. {n} \in SUBSET Channels
        BY DEF Channels
    <2> QED BY <1>1, <1>2, <1>7, <2>1 DEF SubStep, MakeChannel, TakeChannel, CloseSub, LowerCapacity, socketVars
<1>8. CASE LinkFails
    BY <1>8 DEF LinkFails, endVars, GoStep
<1>9. CASE UNCHANGED vars
    BY <1>1, <1>9 DEF vars, endVars, socketVars
<1> QED BY <1>4, <1>5, <1>6, <1>7, <1>8, <1>9 DEF Next

-----------------------------------------------------------------------------
(* A virtual channel begins without flow control *)

Quiet(n) ==
    LET m == Maker[n]
        t == Other(m)
    IN
    /\ go[m][n] /\ go[t][n]
    /\ \A p \in Packets : p.ch = n /\ Carried(m, p) => p.kind # "slow"
    /\ \A p \in Packets : p.ch = n /\ Carried(t, p) => p.kind \notin {"slow", "data"}

\* Nothing but data for the channel is on its way to a side that does not know it yet.
Fresh == \A n \in Subs : state[Other(Maker[n])][n] = "none" => Quiet(n)

LEMMA ReadIsCarried ==
    ASSUME TypeOK, NEW s \in Sides, NEW x, Reading(s, x)
    PROVE  Carried(Other(s), x)
<1>1. wire[s] \in Seq(Packets)
    BY Types
<1> QED BY <1>1, TailFacts, SideTypes DEF Carried, Reading

LEMMA QuietStep ==
    ASSUME TypeOK, HasEnd, Fresh, [Next]_vars, NEW n \in Subs, state[Other(Maker[n])][n] = "none"
    PROVE  Quiet(n)'
<1>1. PICK m \in Sides : m = Maker[n]
    BY ChannelAssumption
<1>2. PICK t \in Sides : t = Other(m) /\ Other(t) = m
    BY SideTypes
<1>3. Quiet(n) /\ state[t][n] = "none" /\ n \in Channels
    BY <1>1, <1>2 DEF Fresh, Channels
<1>4. /\ go[m][n] /\ go[t][n]
      /\ \A p \in Packets : p.ch = n /\ Carried(m, p) => p.kind # "slow"
      /\ \A p \in Packets : p.ch = n /\ Carried(t, p) => p.kind \notin {"slow", "data"}
    BY <1>1, <1>2, <1>3 DEF Quiet
<1>5. ~Carried(m, Command("slow", n)) /\ ~Carried(t, Command("slow", n))
    BY <1>3, <1>4, PacketTypes DEF Command
<1>6. go'[m][n] /\ go'[t][n]
    <2>1. ~Reading(m, Command("slow", n)) /\ ~Reading(t, Command("slow", n))
        BY <1>2, <1>5, ReadIsCarried
    <2> QED BY <1>3, <1>4, <2>1, StepGoes DEF GoStep
<1>7. ASSUME NEW p \in Packets, p.ch = n, Carried(m, p)' PROVE p.kind # "slow"
    <2>1. ~New(m, Command("slow", n))
        BY <1>2, <1>4 DEF New, Command
    <2>2. p.kind = "slow" => p = Command("slow", n)
        BY <1>7, PacketFields
    <2> QED BY <1>4, <1>7, <2>1, <2>2, StepMoves, CarriedStep
<1>8. ASSUME NEW p \in Packets, p.ch = n, Carried(t, p)' PROVE p.kind \notin {"slow", "data"}
    <2>1. ~Has(t, n) /\ ~Listens(t, n)
        BY <1>3 DEF Has, Listens
    <2>2. New(t, p) => p.kind \notin {"slow", "data"}
        BY <1>8, <2>1 DEF New, Command
    <2> QED BY <1>4, <1>8, <2>2, StepMoves, CarriedStep
<1> QED BY <1>1, <1>2, <1>6, <1>7, <1>8 DEF Quiet

LEMMA FreshStep ==
    ASSUME TypeOK, HasEnd, Fresh, [Next]_vars
    PROVE  Fresh'
<1> SUFFICES ASSUME NEW n \in Subs, state'[Other(Maker[n])][n] = "none" PROVE Quiet(n)'
    BY DEF Fresh
<1>1. Other(Maker[n]) \in Sides /\ n \in Channels
    BY ChannelAssumption, SideTypes DEF Channels
<1>2. state[Other(Maker[n])][n] = "none"
    BY <1>1, StepStates DEF StateStep
<1> QED BY <1>2, QuietStep

-----------------------------------------------------------------------------
(* A sender is stopped for a reason *)

\* When all that is on its way to side s has been read, its senders are stopped.
Stops(s, c) ==
    LET o == Other(s)
        quiet == ~InSeq(queue[o], Command("go", c))
        silent == quiet /\ writing[o] # Command("go", c)
    IN
    \/ EndsSlow(queue[o], c)
    \/ quiet /\ writing[o] = Command("slow", c)
    \/ silent /\ EndsSlow(wire[s], c)
    \/ silent /\ ~InSeq(wire[s], Command("go", c)) /\ ~go[s][c]

Full(s, c) == Len(rx[s][c]) >= capacity[s][c]

StopsFull == \A s \in Sides, c \in Channels : Joined(c) /\ Stops(s, c) => Full(Other(s), c)

LEMMA QuietStops ==
    ASSUME NEW n \in Subs, Quiet(n)', NEW s \in Sides
    PROVE  ~Stops(s, n)'
<1>1. PICK m \in Sides : m = Maker[n]
    BY ChannelAssumption
<1>2. PICK t \in Sides : t = Other(m) /\ Other(t) = m
    BY SideTypes
<1>3. /\ go'[m][n] /\ go'[t][n]
      /\ ~Carried(m, Command("slow", n))' /\ ~Carried(t, Command("slow", n))'
    <2>1. /\ \A p \in Packets : p.ch = n /\ Carried(m, p)' => p.kind # "slow"
          /\ \A p \in Packets : p.ch = n /\ Carried(t, p)' => p.kind # "slow"
          /\ go'[m][n] /\ go'[t][n]
        BY <1>1, <1>2 DEF Quiet
    <2>2. Command("slow", n) \in Packets /\ Command("slow", n).ch = n /\ Command("slow", n).kind = "slow"
        BY PacketTypes DEF Command, Channels
    <2> QED BY <2>1, <2>2
<1>4. s \in {m, t} /\ Other(s) \in {m, t}
    BY <1>2 DEF Sides, Other
<1>5. go'[s][n] /\ ~Carried(Other(s), Command("slow", n))' /\ Other(Other(s)) = s
    BY <1>3, <1>4, SideTypes
<1>6. /\ ~InSeq(queue'[Other(s)], Command("slow", n)) /\ writing'[Other(s)] # Command("slow", n)
      /\ ~InSeq(wire'[s], Command("slow", n))
    BY <1>5 DEF Carried
<1>7. ~EndsSlow(queue'[Other(s)], n) /\ ~EndsSlow(wire'[s], n)
    BY <1>6 DEF EndsSlow, InSeq
<1> QED BY <1>5, <1>6, <1>7 DEF Stops

LEMMA UpStays ==
    ASSUME [Next]_vars, up'
    PROVE  up
<1>1. ASSUME NEW u \in Sides, SideStep(u) PROVE up
    BY <1>1 DEF SideStep, TaskStep, TakePacket, Written, CloserKilled, FinishClose, BeginClose,
            WriteFails, ReceiveFails, KeepaliveTimeout, UserClose, Handle, HandleData, HandleSlow,
            HandleGo, HandleMake, HandleDestroy, Reads
<1>2. ASSUME NEW t \in Senders, SenderStep(t) PROVE up
    BY <1>2 DEF SenderStep, SendPacket, GoOn, SendAsync
<1>3. ASSUME NEW t \in Receivers, ReceiverStep(t) PROVE up
    BY <1>3 DEF ReceiverStep, RecvPacket, RecvNothing, RecvFails
<1>4. ASSUME NEW n \in Subs, SubStep(n) PROVE up
    BY <1>4 DEF SubStep, MakeChannel, TakeChannel, CloseSub, LowerCapacity
<1>5. CASE LinkFails \/ UNCHANGED vars
    BY <1>5 DEF LinkFails, vars
<1> QED BY <1>1, <1>2, <1>3, <1>4, <1>5 DEF Next

\* A channel that has just been joined stops nobody.
LEMMA JoinedStep ==
    ASSUME TypeOK, HasEnd, Origins, Announced, Fresh, [Next]_vars,
           NEW s \in Sides, NEW c \in Channels, Joined(c)', Stops(s, c)'
    PROVE  Joined(c)
<1>1. up /\ \A u \in Sides : closing[u] = "no"
    BY UpStays, ClosingStays DEF Joined
<1>2. ASSUME NEW u \in Sides, ~Listens(u, c) PROVE FALSE
    <2>1. Listens(u, c)' /\ StateStep(u, c)
        BY StepStates DEF Joined
    <2>2. /\ c \in Subs
          /\ \/ u = Maker[c] /\ state[u][c] = "none"
             \/ wire[u] # <<>> /\ Head(wire[u]) = Command("make", c)
        BY <1>2, <2>1 DEF StateStep, Listens
    <2>3. state[Other(Maker[c])][c] = "none"
        BY <2>2, NotAgain DEF Announced, AnnouncedOnce
    <2> QED BY <2>2, <2>3, QuietStep, QuietStops
<1> QED BY <1>1, <1>2 DEF Joined

\* Who empties a full queue below the capacity lets the sender go.
LEMMA FullStep ==
    ASSUME TypeOK, MainOpen, Origins, Announced, [Next]_vars,
           NEW s \in Sides, NEW c \in Channels, Joined(c), Full(s, c)
    PROVE  Full(s, c)' \/ queue'[s] = Append(queue[s], Command("go", c))
<1>1. /\ rx[s][c] \in Seq(Nat \ {0}) /\ capacity[s][c] \in Nat
      /\ Len(rx[s][c]) \in Nat /\ Len(rx[s][c]) >= capacity[s][c]
    <2>1. rx[s][c] \in Seq(Nat \ {0}) /\ capacity[s][c] \in {Low, High}
        BY Types
    <2> QED BY <2>1, ChannelAssumption DEF Full
<1>2. state[s][c] # "none" /\ IsOk(s, c)
    BY DEF Joined, Listens, MainOpen, IsOk
<1>3. ASSUME rx'[s][c] = rx[s][c], capacity'[s][c] = capacity[s][c] PROVE Full(s, c)'
    BY <1>1, <1>3 DEF Full
<1>4. ASSUME NEW t \in Receivers, RecvPacket(t)
      PROVE  Full(s, c)' \/ queue'[s] = Append(queue[s], Command("go", c))
    <2>1. PICK u \in Sides, d \in Channels : u = At[t] /\ d = On[t]
        BY TaskFacts DEF Tasks
    <2>2. /\ rx' = [rx EXCEPT ![u][d] = Tail(@)] /\ capacity' = capacity
          /\ Len(rx[u][d]) = capacity[u][d] => Put(u, d, Command("go", d))
          /\ rx[u][d] # <<>>
        BY <1>4, <2>1 DEF RecvPacket, Pop, endVars
    <2>3. CASE u = s /\ d = c
        <3>1. CASE Len(rx[s][c]) = capacity[s][c]
            BY <1>2, <2>2, <2>3, <3>1, PutFacts, PacketTypes
        <3>2. CASE Len(rx[s][c]) # capacity[s][c]
            <4>1. rx'[s][c] = Tail(rx[s][c])
                BY <2>2, <2>3, Types
            <4>2. \A q \in Seq(Nat \ {0}) : q # <<>> => Len(Tail(q)) = Len(q) - 1
                OBVIOUS
            <4>3. Len(rx'[s][c]) = Len(rx[s][c]) - 1
                BY <1>1, <2>2, <2>3, <4>1, <4>2
            <4> QED BY <1>1, <2>2, <3>2, <4>3 DEF Full
        <3> QED BY <3>1, <3>2
    <2>4. CASE ~(u = s /\ d = c)
        <3>1. rx'[s][c] = rx[s][c]
            BY <2>2, <2>4, Types
        <3> QED BY <1>3, <2>2, <3>1
    <2> QED BY <2>3, <2>4
<1>5. ASSUME NEW u \in Sides, Handle(u) PROVE Full(s, c)'
    <2>1. PICK p \in Packets, d \in Channels : p = Head(wire[u]) /\ d = p.ch
        BY <1>5, ReadsFacts DEF Handle, HandleData, HandleSlow, HandleGo, HandleMake, HandleDestroy
    <2>2. CASE HandleData(u)
        <3>1. capacity' = capacity
            BY <2>2 DEF HandleData, endVars
        <3>2. rx' = rx \/ (rx' = [rx EXCEPT ![u][d] = Append(@, p.num)] /\ p.kind = "data")
            BY <2>1, <2>2, ReadsFacts DEF HandleData
        <3>3. CASE rx' = rx
            BY <1>3, <3>1, <3>3
        <3>4. CASE rx' = [rx EXCEPT ![u][d] = Append(@, p.num)] /\ p.kind = "data"
            <4>1. CASE u = s /\ d = c
                <5>1. p.num \in Nat \ {0}
                    BY <2>1, <3>4, PacketFields
                <5>2. rx'[s][c] = Append(rx[s][c], p.num)
                    BY <3>4, <4>1, Types
                <5>3. Len(rx'[s][c]) = Len(rx[s][c]) + 1
                    BY <1>1, <5>1, <5>2
                <5> QED BY <1>1, <3>1, <5>3 DEF Full
            <4>2. CASE ~(u = s /\ d = c)
                <5>1. rx'[s][c] = rx[s][c]
                    BY <3>4, <4>2, Types
                <5> QED BY <1>3, <3>1, <5>1
            <4> QED BY <4>1, <4>2
        <3> QED BY <3>2, <3>3, <3>4
    <2>3. CASE HandleMake(u)
        <3>0. p.kind = "make" /\ wire[u] # <<>>
            BY <2>1, <2>3, ReadsFacts DEF HandleMake
        <3>1. p = Command("make", d) /\ d \in Subs
            BY <2>1, <3>0, PacketFields
        <3>2. state[u][d] = "none"
            BY <2>1, <3>0, <3>1, NotAgain
        <3>3. capacity' = [capacity EXCEPT ![u][d] = capacity[u][Main]] /\ rx' = rx
            BY <2>1, <2>3 DEF HandleMake, dataVars
        <3>4. capacity'[s][c] = capacity[s][c]
            BY <1>2, <3>2, <3>3, Types
        <3> QED BY <1>3, <3>3, <3>4
    <2>4. CASE HandleSlow(u) \/ HandleGo(u) \/ HandleDestroy(u)
        BY <1>3, <2>4 DEF HandleSlow, HandleGo, HandleDestroy, dataVars
    <2> QED BY <1>5, <2>2, <2>3, <2>4 DEF Handle
<1>6. ASSUME NEW n \in Subs, SubStep(n) PROVE Full(s, c)'
    <2>1. rx' = rx
        BY <1>6 DEF SubStep, MakeChannel, TakeChannel, CloseSub, LowerCapacity, dataVars
    <2>2. CASE MakeChannel(n)
        <3>1. PICK m \in Sides : m = Maker[n]
            BY ChannelAssumption
        <3>2. capacity' = [capacity EXCEPT ![m][n] = capacity[m][Main]] /\ state[m][n] = "none"
            BY <2>2, <3>1 DEF MakeChannel
        <3>3. capacity'[s][c] = capacity[s][c]
            BY <1>2, <3>2, Types
        <3> QED BY <1>3, <2>1, <3>3
    <2>3. ASSUME NEW u \in Sides, LowerCapacity(n, u) PROVE Full(s, c)'
        <3>1. capacity' = [capacity EXCEPT ![u][n] = Low] /\ capacity[u][n] = High
            BY <2>3 DEF LowerCapacity
        <3>2. capacity'[s][c] = capacity[s][c] \/ (capacity'[s][c] = Low /\ capacity[s][c] = High)
            BY <3>1, Types
        <3> QED BY <1>1, <2>1, <3>2, ChannelAssumption DEF Full
    <2>4. CASE TakeChannel(n) \/ \E u \in Sides : CloseSub(n, u)
        BY <1>3, <2>1, <2>4 DEF TakeChannel, CloseSub
    <2> QED BY <1>6, <2>2, <2>3, <2>4 DEF SubStep
<1>7. ASSUME NEW u \in Sides, SideStep(u), ~Handle(u) PROVE Full(s, c)'
    BY <1>3, <1>7 DEF SideStep, TaskStep, TakePacket, Written, CloserKilled, FinishClose, BeginClose,
            WriteFails, ReceiveFails, KeepaliveTimeout, UserClose, endVars, dataVars
<1>8. ASSUME NEW t \in Senders, SenderStep(t) PROVE Full(s, c)'
    BY <1>3, <1>8 DEF SenderStep, SendPacket, GoOn, SendAsync, endVars
<1>9. ASSUME NEW t \in Receivers, RecvNothing(t) \/ RecvFails(t) PROVE Full(s, c)'
    BY <1>3, <1>9 DEF RecvNothing, RecvFails, endVars, dataVars
<1>10. CASE LinkFails \/ UNCHANGED vars
    BY <1>3, <1>10 DEF LinkFails, vars, endVars, dataVars
<1> QED BY <1>4, <1>5, <1>6, <1>7, <1>8, <1>9, <1>10 DEF Next, ReceiverStep

\* Only a slow-down command that is put for a full queue makes a channel stop.
LEMMA StopsBack ==
    ASSUME TypeOK, [Next]_vars, NEW s \in Sides, NEW c \in Channels, NEW o \in Sides, o = Other(s),
           Moves(o), Joined(c), Joined(c)', Stops(s, c)'
    PROVE  Stops(s, c) \/ Full(o, c)'
<1> DEFINE slow == Command("slow", c)
           going == Command("go", c)
<1>1. /\ queue[o] \in Seq(Packets) /\ wire[s] \in Seq(Packets)
      /\ writing[o] \in Packets \cup {NoPacket}
      /\ slow \in Packets /\ going \in Packets /\ slow # going
      /\ slow # NoPacket /\ going # NoPacket /\ Other(o) = s
    BY SideTypes, Types, PacketTypes, PacketAssumption DEF Command
<1>2. /\ Listens(s, c) /\ Listens(o, c)' /\ closing[s] = "no" /\ up
      /\ closing'[s] = "no" /\ closing'[o] = "no" /\ up'
    BY DEF Joined
<1>3. \/ EndsSlow(queue'[o], c)
      \/ ~InSeq(queue'[o], going) /\ writing'[o] = slow
      \/ ~InSeq(queue'[o], going) /\ writing'[o] # going /\ EndsSlow(wire'[s], c)
      \/ /\ ~InSeq(queue'[o], going) /\ writing'[o] # going
         /\ ~InSeq(wire'[s], going) /\ ~go'[s][c]
    BY DEF Stops
<1>4. \/ go'[s][c]
      \/ go'[s][c] = go[s][c] /\ ~Reading(s, going)
      \/ Reading(s, slow)
    BY <1>2, StepGoes DEF GoStep
<1>5. Stops(s, c) <=>
        \/ EndsSlow(queue[o], c)
        \/ ~InSeq(queue[o], going) /\ writing[o] = slow
        \/ ~InSeq(queue[o], going) /\ writing[o] # going /\ EndsSlow(wire[s], c)
        \/ /\ ~InSeq(queue[o], going) /\ writing[o] # going
           /\ ~InSeq(wire[s], going) /\ ~go[s][c]
    BY DEF Stops
<1> HIDE DEF slow, going
\* The queue is as it was, as far as the commands for this channel go.
<1>6. ASSUME EndsSlow(queue'[o], c) <=> EndsSlow(queue[o], c),
             InSeq(queue'[o], going) <=> InSeq(queue[o], going),
             WritingStays(o), WireStays(o)
      PROVE  Stops(s, c)
    <2>1. ~Reading(s, slow)
        BY <1>1, <1>6, NotReading DEF WireStays
    <2>2. ~go'[s][c] => ~go[s][c]
        BY <1>4, <2>1
    <2> QED BY <1>1, <1>3, <1>5, <1>6, <2>2 DEF WritingStays, WireStays
<1>7. ASSUME NEW x, New(o, x), queue'[o] = Append(queue[o], x), WritingStays(o), WireStays(o)
      PROVE  Stops(s, c) \/ Full(o, c)'
    <2>1. /\ x \in Packets
          /\ EndsSlow(queue'[o], c) <=> x = slow \/ (x # going /\ EndsSlow(queue[o], c))
          /\ InSeq(queue'[o], going) <=> InSeq(queue[o], going) \/ x = going
        BY <1>1, <1>7, AppendFacts DEF New, slow, going
    <2>2. CASE x = slow
        <3>1. Len(rx'[o][c]) >= capacity'[o][c]
            BY <1>7, <2>2 DEF New, Command, slow
        <3> QED BY <3>1 DEF Full
    <2>3. CASE x = going
        BY <1>1, <1>3, <2>1, <2>3
    <2>4. CASE x # slow /\ x # going
        BY <1>6, <1>7, <2>1, <2>4
    <2> QED BY <2>2, <2>3, <2>4
<1>8. ASSUME NEW n \in Subs, ~Listens(o, n)', NEW q \in Seq(Packets),
             EndsSlow(q, c) <=> EndsSlow(queue[o], c), InSeq(q, going) <=> InSeq(queue[o], going),
             queue'[o] \in Cleaned(n, q), WritingStays(o), WireStays(o)
      PROVE  Stops(s, c)
    <2>1. c # n
        BY <1>2, <1>8
    <2>2. ~Within(n, going)
        BY <2>1 DEF going, Within, Command
    <2>3. /\ EndsSlow(queue'[o], c) <=> EndsSlow(q, c)
          /\ InSeq(queue'[o], going) <=> InSeq(q, going)
        BY <1>8, <2>1, <2>2, CleanedFacts
    <2> QED BY <1>6, <1>8, <2>3
<1>9. ASSUME NEW n \in Subs, ~Listens(o, n)', WritingStays(o), WireStays(o),
             queue'[o] \in Cleaned(n, Append(queue[o], Command("destroy", n)))
      PROVE  Stops(s, c)
    <2> DEFINE x == Command("destroy", n)
               q == Append(queue[o], x)
    <2>1. x \in Packets /\ x # slow /\ x # going
        BY PacketTypes DEF slow, going, Command
    <2>2. /\ q \in Seq(Packets)
          /\ EndsSlow(q, c) <=> EndsSlow(queue[o], c)
          /\ InSeq(q, going) <=> InSeq(queue[o], going)
        <3> HIDE DEF x
        <3> QED BY <1>1, <2>1, AppendFacts DEF slow, going
    <2> HIDE DEF q
    <2> QED BY <1>8, <1>9, <2>2 DEF q
<1>10. CASE /\ queue[o] # <<>> /\ writing[o] = NoPacket
            /\ queue'[o] = Tail(queue[o]) /\ writing'[o] = Head(queue[o]) /\ WireStays(o)
    <2>1. ~go'[s][c] => ~go[s][c]
        <3>1. ~Reading(s, slow)
            BY <1>1, <1>10, NotReading DEF WireStays
        <3> QED BY <1>4, <3>1
    <2>2. /\ InSeq(queue[o], going) <=> Head(queue[o]) = going \/ InSeq(Tail(queue[o]), going)
          /\ EndsSlow(queue[o], c) <=>
               \/ EndsSlow(Tail(queue[o]), c)
               \/ Head(queue[o]) = slow /\ ~InSeq(Tail(queue[o]), going)
        BY <1>1, <1>10, TailFacts DEF slow, going
    <2> QED BY <1>1, <1>3, <1>5, <1>10, <2>1, <2>2 DEF WireStays
<1>11. CASE /\ writing[o] # NoPacket /\ writing'[o] = NoPacket /\ QueueStays(o)
            /\ wire'[s] = Append(wire[s], writing[o])
    <2>1. ~go'[s][c] => ~go[s][c]
        <3>1. ~Reading(s, slow)
            BY <1>1, <1>11, NotReading
        <3> QED BY <1>4, <3>1
    <2>2. /\ InSeq(wire'[s], going) <=> InSeq(wire[s], going) \/ writing[o] = going
          /\ EndsSlow(wire'[s], c) <=>
               \/ writing[o] = slow
               \/ writing[o] # going /\ EndsSlow(wire[s], c)
        BY <1>1, <1>11, AppendFacts DEF slow, going
    <2> QED BY <1>1, <1>3, <1>5, <1>11, <2>1, <2>2 DEF QueueStays
<1>12. CASE /\ wire[s] # <<>> /\ wire'[s] = Tail(wire[s])
            /\ QueueStays(o) /\ WritingStays(o)
    <2>1. /\ InSeq(wire[s], going) <=> Head(wire[s]) = going \/ InSeq(wire'[s], going)
          /\ EndsSlow(wire[s], c) <=>
               \/ EndsSlow(wire'[s], c)
               \/ Head(wire[s]) = slow /\ ~InSeq(wire'[s], going)
        BY <1>1, <1>12, TailFacts DEF slow, going
    <2>2. /\ Reading(s, going) <=> Head(wire[s]) = going
          /\ Reading(s, slow) <=> Head(wire[s]) = slow
        BY <1>12 DEF Reading
    <2> QED BY <1>1, <1>3, <1>4, <1>5, <1>12, <2>1, <2>2 DEF QueueStays, WritingStays
<1>13. CASE QueueStays(o) /\ WritingStays(o) /\ WireStays(o)
    BY <1>6, <1>13 DEF QueueStays
<1> QED BY <1>1, <1>2, <1>7, <1>8, <1>9, <1>10, <1>11, <1>12, <1>13 DEF Moves

LEMMA StopsFullStep ==
    ASSUME TypeOK, HasEnd, MainOpen, Origins, Announced, Fresh, StopsFull, [Next]_vars
    PROVE  StopsFull'
<1> SUFFICES ASSUME NEW s \in Sides, NEW c \in Channels, Joined(c)', Stops(s, c)'
             PROVE  Full(Other(s), c)'
    BY DEF StopsFull
<1>1. PICK o \in Sides : o = Other(s) /\ Other(o) = s
    BY SideTypes
<1>2. Joined(c) /\ Moves(o)
    BY JoinedStep, StepMoves
<1>3. Stops(s, c) \/ Full(o, c)'
    BY <1>1, <1>2, StopsBack
<1>4. ASSUME Stops(s, c) PROVE Full(o, c)'
    <2>1. Full(o, c)
        BY <1>1, <1>2, <1>4 DEF StopsFull
    <2>2. ASSUME queue'[o] = Append(queue[o], Command("go", c)) PROVE FALSE
        <3>1. queue[o] \in Seq(Packets) /\ Command("go", c) \in Packets /\ Command("go", c) # Command("slow", c)
            BY Types, PacketTypes DEF Command
        <3>2. InSeq(queue'[o], Command("go", c)) /\ ~EndsSlow(queue'[o], c)
            BY <2>2, <3>1, AppendFacts
        <3> QED BY <1>1, <3>2 DEF Stops
    <2> QED BY <1>2, <2>1, <2>2, FullStep
<1>5. Full(o, c)'
    BY <1>3, <1>4
<1> QED BY <1>1, <1>5

-----------------------------------------------------------------------------
(* The packet that a sender waits for *)

\* A packet names its sender truly.
Signed ==
    \A s \in Sides, t \in Senders, p \in Packets :
        Carried(s, p) /\ p.by = t => At[t] = s /\ On[t] = p.ch

LEMMA SignedStep ==
    ASSUME TypeOK, HasEnd, Signed, [Next]_vars
    PROVE  Signed'
<1> SUFFICES ASSUME NEW s \in Sides, NEW t \in Senders, NEW p \in Packets, Carried(s, p)', p.by = t
             PROVE  At[t] = s /\ On[t] = p.ch
    BY DEF Signed
<1>1. CASE Carried(s, p)
    BY <1>1 DEF Signed
<1>2. CASE New(s, p)
    <2>1. p.by # Nobody
        BY ChannelAssumption
    <2> QED BY <1>2, <2>1 DEF New, Command
<1> QED BY <1>1, <1>2, StepMoves, CarriedStep

\* The packet waits, or is being written.
Waits(s, t) == \E p \in Packets : p.by = t /\ (InSeq(queue[s], p) \/ writing[s] = p)

WaitsInv ==
    \A t \in Senders :
        pc[t] = "queued" /\ closing[At[t]] = "no" /\ Listens(At[t], On[t]) => Waits(At[t], t)

LEMMA SubmitQueued ==
    ASSUME TypeOK, NEW r \in Senders, Submit(r), NEW t \in Senders, pc'[t] = "queued", pc[t] # "queued"
    PROVE  Waits(At[t], t)'
<1>1. PICK s \in Sides, c \in Channels : s = At[t] /\ c = On[t]
    BY TaskFacts DEF Tasks
<1>2. t = r /\ IsOk(s, c)
    BY <1>1 DEF Submit, TypeOK, Tasks
<1>3. sent[s][c] + 1 \in Nat \ {0}
    BY Types
<1>4. PICK p \in Packets : p = Data(c, sent[s][c] + 1, t)
    BY <1>3, PacketTypes
<1>5. Put(s, c, p) /\ p.by = t
    BY <1>1, <1>2, <1>4 DEF Submit, Data
<1>6. queue'[s] = Append(queue[s], p) /\ queue[s] \in Seq(Packets)
    BY <1>2, <1>5, PutFacts, Types
<1>7. InSeq(queue'[s], p)
    BY <1>6, AppendFacts
<1> QED BY <1>1, <1>5, <1>7 DEF Waits

\* A sender begins to wait when its packet is put into the queue.
LEMMA QueuedStep ==
    ASSUME TypeOK, [Next]_vars, NEW t \in Senders, pc'[t] = "queued", pc[t] # "queued"
    PROVE  Waits(At[t], t)'
<1>1. t \in Tasks /\ t \notin Receivers
    BY ChannelAssumption DEF Tasks
<1>2. ASSUME NEW r \in Senders, SenderStep(r) PROVE Waits(At[t], t)'
    <2>1. CASE Submit(r)
        BY <2>1, SubmitQueued
    <2>2. CASE pc' = [pc EXCEPT ![r] = "stopped"] \/ UNCHANGED pc
        BY <1>1, <2>2 DEF TypeOK
    <2> QED BY <1>2, <2>1, <2>2 DEF SenderStep, SendPacket, GoOn, SendAsync
<1>3. ASSUME NEW r \in Receivers, ReceiverStep(r) PROVE FALSE
    BY <1>1, <1>3 DEF ReceiverStep, RecvPacket, Pop, RecvNothing, RecvFails, TypeOK
<1>4. ASSUME NEW u \in Sides, NEW D \in SUBSET Channels, End(u, D) PROVE FALSE
    BY <1>1, <1>4 DEF End
<1>5. ASSUME NEW u \in Sides, SideStep(u) PROVE FALSE
    <2>1. CASE TakePacket(u) \/ CloserKilled(u) \/ HandleData(u) \/ HandleSlow(u) \/ HandleMake(u)
        BY <2>1 DEF TakePacket, CloserKilled, HandleData, HandleSlow, HandleMake
    <2>2. CASE WriteFails(u) \/ ReceiveFails(u) \/ KeepaliveTimeout(u) \/ UserClose(u)
        BY <2>2 DEF WriteFails, ReceiveFails, KeepaliveTimeout, UserClose, BeginClose
    <2>3. CASE Written(u)
        BY <1>1, <2>3 DEF Written, TypeOK
    <2>4. CASE HandleGo(u)
        BY <1>1, <2>4 DEF HandleGo
    <2>5. CASE FinishClose(u)
        BY <1>4, <2>5 DEF FinishClose
    <2>6. CASE HandleDestroy(u)
        <3>1. Head(wire[u]).ch \in Channels
            BY <2>6, ReadsFacts DEF HandleDestroy
        <3> QED BY <1>4, <2>6, <3>1 DEF HandleDestroy
    <2> QED BY <1>5, <2>1, <2>2, <2>3, <2>4, <2>5, <2>6 DEF SideStep, TaskStep, Handle
<1>6. ASSUME NEW n \in Subs, SubStep(n) PROVE FALSE
    <2>1. {n} \in SUBSET Channels
        BY DEF Channels
    <2> QED BY <1>4, <1>6, <2>1 DEF SubStep, MakeChannel, TakeChannel, CloseSub, LowerCapacity
<1>7. CASE LinkFails \/ UNCHANGED vars
    BY <1>7 DEF LinkFails, vars
<1> QED BY <1>2, <1>3, <1>5, <1>6, <1>7 DEF Next

\* What waits stays until it is written, unless its channel ends.
LEMMA WaitsStay ==
    ASSUME TypeOK, NEW s \in Sides, Moves(s), closing'[s] = "no", NEW t \in Senders,
           pc'[t] = "queued", NEW p \in Packets, p.by = t, Listens(s, p.ch)',
           InSeq(queue[s], p) \/ writing[s] = p
    PROVE  InSeq(queue'[s], p) \/ writing'[s] = p
<1>1. queue[s] \in Seq(Packets) /\ p # NoPacket
    BY Types, PacketAssumption
<1>2. CASE QueueStays(s) /\ WritingStays(s)
    BY <1>2 DEF QueueStays, WritingStays
<1>3. ASSUME NEW x, New(s, x), queue'[s] = Append(queue[s], x), WritingStays(s)
      PROVE  InSeq(queue'[s], p) \/ writing'[s] = p
    BY <1>1, <1>3, AppendFacts DEF New, WritingStays
<1>4. CASE /\ queue[s] # <<>> /\ writing[s] = NoPacket
           /\ queue'[s] = Tail(queue[s]) /\ writing'[s] = Head(queue[s])
    BY <1>1, <1>4, TailFacts
<1>5. CASE /\ QueueStays(s)
           /\ \A r \in Senders : writing[s].by = r => pc'[r] # "queued"
    BY <1>5 DEF QueueStays
<1>6. ASSUME NEW n \in Subs, ~Listens(s, n)', NEW q \in Seq(Packets),
             InSeq(queue[s], p) => InSeq(q, p),
             queue'[s] \in Cleaned(n, q), WritingStays(s)
      PROVE  InSeq(queue'[s], p) \/ writing'[s] = p
    <2>1. ~Within(n, p)
        BY <1>6 DEF Within
    <2> QED BY <1>6, <2>1, CleanedFacts DEF WritingStays
<1>7. ASSUME NEW n \in Subs, ~Listens(s, n)', WritingStays(s),
             queue'[s] \in Cleaned(n, Append(queue[s], Command("destroy", n)))
      PROVE  InSeq(queue'[s], p) \/ writing'[s] = p
    <2> DEFINE q == Append(queue[s], Command("destroy", n))
    <2>1. q \in Seq(Packets) /\ (InSeq(queue[s], p) => InSeq(q, p))
        BY <1>1, PacketTypes, AppendFacts
    <2> HIDE DEF q
    <2> QED BY <1>6, <1>7, <2>1 DEF q
<1>8. ASSUME NEW n \in Subs, ~Listens(s, n)', WritingStays(s), queue'[s] \in Cleaned(n, queue[s])
      PROVE  InSeq(queue'[s], p) \/ writing'[s] = p
    BY <1>1, <1>6, <1>8
<1> QED BY <1>2, <1>3, <1>4, <1>5, <1>7, <1>8 DEF Moves

LEMMA WaitsStep ==
    ASSUME TypeOK, HasEnd, Origins, Announced, Signed, WaitsInv, [Next]_vars
    PROVE  WaitsInv'
<1> SUFFICES ASSUME NEW t \in Senders, pc'[t] = "queued", closing'[At[t]] = "no",
                    Listens(At[t], On[t])'
             PROVE  Waits(At[t], t)'
    BY DEF WaitsInv
<1>1. PICK s \in Sides, c \in Channels : s = At[t] /\ c = On[t]
    BY TaskFacts DEF Tasks
<1>2. CASE pc[t] # "queued"
    BY <1>2, QueuedStep
<1>3. CASE pc[t] = "queued"
    <2>1. closing[s] = "no" /\ Has(s, c)
        BY <1>1, <1>3, ClosingStays DEF HasEnd
    <2>2. StateStep(s, c) /\ Listens(s, c)'
        BY <1>1, StepStates
    <2>3. Listens(s, c)
        BY <2>1, <2>2, NotAgain DEF Has, Listens, StateStep
    <2>4. PICK p \in Packets : p.by = t /\ (InSeq(queue[s], p) \/ writing[s] = p)
        BY <1>1, <1>3, <2>1, <2>3 DEF WaitsInv, Waits
    <2>5. p.ch = c
        BY <1>1, <2>4 DEF Signed, Carried
    <2>6. InSeq(queue'[s], p) \/ writing'[s] = p
        BY <1>1, <2>2, <2>4, <2>5, StepMoves, WaitsStay
    <2> QED BY <1>1, <2>4, <2>6 DEF Waits
<1> QED BY <1>2, <1>3

-----------------------------------------------------------------------------
(* The sequences of the properties *)

LEMMA ConcatFacts ==
    ASSUME NEW q \in Seq(Packets), NEW r \in Seq(Packets), NEW p, InSeq(q, p) \/ InSeq(r, p)
    PROVE  q \o r \in Seq(Packets) /\ InSeq(q \o r, p)
<1>1. /\ Len(q \o r) = Len(q) + Len(r) /\ Len(q) \in Nat /\ Len(r) \in Nat
      /\ DOMAIN q = 1 .. Len(q) /\ DOMAIN r = 1 .. Len(r) /\ DOMAIN (q \o r) = 1 .. Len(q) + Len(r)
      /\ \A i \in 1 .. Len(q) : (q \o r)[i] = q[i]
      /\ q \o r \in Seq(Packets)
    OBVIOUS
<1>2. ASSUME NEW i \in 1 .. Len(r) PROVE (q \o r)[Len(q) + i] = r[i]
    OBVIOUS
<1>3. CASE InSeq(q, p)
    BY <1>1, <1>3 DEF InSeq
<1>4. CASE InSeq(r, p)
    <2>1. PICK i \in 1 .. Len(r) : r[i] = p
        BY <1>1, <1>4 DEF InSeq
    <2>2. (q \o r)[Len(q) + i] = p /\ Len(q) + i \in 1 .. Len(q) + Len(r)
        BY <1>1, <1>2, <2>1
    <2> QED BY <1>1, <2>2 DEF InSeq
<1> QED BY <1>3, <1>4

LEMMA SendingFacts ==
    ASSUME TypeOK, NEW s \in Sides
    PROVE  /\ Sending(s) \in Seq(Packets)
           /\ \A p \in Packets : InSeq(queue[s], p) \/ writing[s] = p => InSeq(Sending(s), p)
<1> DEFINE w == IF writing[s] = NoPacket THEN <<>> ELSE <<writing[s]>>
<1>1. queue[s] \in Seq(Packets) /\ writing[s] \in Packets \cup {NoPacket}
    BY Types
<1>2. w \in Seq(Packets) /\ Sending(s) = w \o queue[s]
    BY <1>1 DEF Sending
<1>3. ASSUME NEW p \in Packets, writing[s] = p PROVE InSeq(w, p)
    <2>1. w = <<p>> /\ 1 \in DOMAIN <<p>> /\ <<p>>[1] = p
        BY <1>3, PacketAssumption
    <2> QED BY <2>1 DEF InSeq
<1>4. Sending(s) \in Seq(Packets)
    <2> HIDE DEF w
    <2> QED BY <1>1, <1>2
<1> HIDE DEF w
<1> QED BY <1>1, <1>2, <1>3, <1>4, ConcatFacts

LEMMA PassingFacts ==
    ASSUME TypeOK, NEW s \in Sides, NEW p \in Packets, Carried(s, p)
    PROVE  \E i \in 1 .. Len(Passing(s)) : Passing(s)[i] = p
<1>1. wire[Other(s)] \in Seq(Packets) /\ Sending(s) \in Seq(Packets)
    BY SideTypes, SendingFacts, Types
<1>2. Passing(s) \in Seq(Packets) /\ InSeq(Passing(s), p)
    BY <1>1, SendingFacts, ConcatFacts DEF Carried, Passing
<1>3. DOMAIN Passing(s) = 1 .. Len(Passing(s))
    BY <1>2
<1> QED BY <1>2, <1>3 DEF InSeq

-----------------------------------------------------------------------------
(* The invariant and the theorems *)

Inv ==
    /\ TypeOK /\ HasEnd /\ MainOpen /\ Origins /\ Announced /\ Fresh
    /\ StopsFull /\ Signed /\ WaitsInv

LEMMA InitInv == Init => Inv
<1> SUFFICES ASSUME Init PROVE Inv
    OBVIOUS
<1>1. /\ \A s \in Sides : queue[s] = <<>> /\ wire[s] = <<>> /\ writing[s] = NoPacket
      /\ \A s \in Sides, c \in Channels :
            go[s][c] = TRUE /\ rx[s][c] = <<>> /\ capacity[s][c] = High
      /\ \A t \in Tasks : pc[t] = "ready"
      /\ \A s \in Sides, c \in Channels : state[s][c] = IF c = Main THEN "open" ELSE "none"
    BY DEF Init, ForEach
<1>2. TypeOK
    <2>1. <<>> \in Seq(Packets) /\ <<>> \in Seq(Nat \ {0})
        OBVIOUS
    <2>2. \A s \in Sides, c \in Channels : state[s][c] \in EndStates(s, c)
        BY <1>1, ChannelAssumption DEF EndStates
    <2>3. \A s \in Sides, c \in Channels : sent[s][c] <= MaxPackets[c]
        BY ChannelAssumption DEF Init, ForEach
    <2>4. /\ state \in [Sides -> [Channels -> {"none", "pending", "open", "closed", "dropped"}]]
          /\ closing \in [Sides -> {"no", "begun", "done", "never"}]
          /\ capacity \in [Sides -> [Channels -> {Low, High}]]
          /\ go \in [Sides -> [Channels -> BOOLEAN]]
          /\ pc \in [Tasks -> {"ready", "stopped", "released", "queued", "getting", "failed"}]
          /\ sent \in [Sides -> [Channels -> Nat]] /\ got \in [Sides -> [Channels -> Nat]]
          /\ writing \in [Sides -> Packets \cup {NoPacket}]
          /\ up \in BOOLEAN
        BY DEF Init, ForEach
    <2>5. /\ rx \in [Sides -> [Channels -> Seq(Nat \ {0})]]
          /\ queue \in [Sides -> Seq(Packets)] /\ wire \in [Sides -> Seq(Packets)]
        BY <2>1 DEF Init, ForEach
    <2> QED BY <2>2, <2>3, <2>4, <2>5 DEF TypeOK
<1>3. ASSUME NEW s \in Sides, NEW p \in Packets PROVE ~Carried(s, p)
    BY <1>1, EmptyFacts, SideTypes, PacketAssumption DEF Carried
<1>4. HasEnd
    BY <1>1 DEF HasEnd, Tasks
<1>5. MainOpen
    BY <1>1 DEF MainOpen, Channels
<1>6. Origins
    BY <1>3, PacketTypes DEF Origins
<1>7. Announced
    <2> SUFFICES ASSUME NEW n \in Subs PROVE AnnouncedOnce(n)
        BY DEF Announced
    <2>1. /\ Maker[n] \in Sides /\ Other(Maker[n]) \in Sides /\ n \in Channels /\ n # Main
          /\ Command("make", n) \in Packets /\ Command("make", n) # NoPacket
        BY ChannelAssumption, SideTypes, PacketTypes, PacketAssumption DEF Channels
    <2> QED BY <1>1, <1>3, <2>1, EmptyFacts DEF AnnouncedOnce
<1>8. Fresh
    <2> SUFFICES ASSUME NEW n \in Subs PROVE Quiet(n)
        BY DEF Fresh
    <2>1. Maker[n] \in Sides /\ Other(Maker[n]) \in Sides /\ n \in Channels
        BY ChannelAssumption, SideTypes DEF Channels
    <2> QED BY <1>1, <1>3, <2>1 DEF Quiet
<1>9. StopsFull
    <2> SUFFICES ASSUME NEW s \in Sides, NEW c \in Channels PROVE ~Stops(s, c)
        BY DEF StopsFull
    <2>1. /\ queue[Other(s)] = <<>> /\ wire[s] = <<>> /\ go[s][c]
          /\ writing[Other(s)] = NoPacket /\ NoPacket # Command("slow", c)
        BY <1>1, SideTypes, PacketTypes, PacketAssumption
    <2> QED BY <2>1, EmptyFacts DEF Stops
<1>10. Signed
    BY <1>3 DEF Signed
<1>11. WaitsInv
    BY <1>1 DEF WaitsInv, Tasks
<1> QED BY <1>2, <1>4, <1>5, <1>6, <1>7, <1>8, <1>9, <1>10, <1>11 DEF Inv

LEMMA StepInv == Inv /\ [Next]_vars => Inv'
<1> SUFFICES ASSUME Inv, [Next]_vars PROVE Inv'
    OBVIOUS
<1>1. TypeOK' /\ HasEnd' /\ MainOpen' /\ Origins' /\ Announced'
    BY TypeStep, HasEndStep, MainOpenStep, OriginsStep, AnnouncedStep DEF Inv
<1>2. Fresh' /\ StopsFull' /\ Signed' /\ WaitsInv'
    BY FreshStep, StopsFullStep, SignedStep, WaitsStep DEF Inv
<1> QED BY <1>1, <1>2 DEF Inv

LEMMA Invariant == Spec => []Inv
    BY InitInv, StepInv, PTL DEF Spec

\* Every variable keeps its type: no end of a virtual channel is in a state of the other end,
\* since a channel is announced once, by its maker, to a side that has no such channel
\* (network.py 264-268, 295-301).
THEOREM TypeCorrect == Spec => []TypeOK
<1>1. Inv => TypeOK
    BY DEF Inv
<1> QED BY <1>1, Invariant, PTL

\* A sender is stopped for a reason: whatever the capacities, and wherever they are lowered,
\* either the queue of the other side is full or the command that lets the sender go is on
\* its way (network.py 223-226, 247-250, 316-323).
THEOREM FlowControl == Spec => []StoppedHasReason
<1>1. Inv => StoppedHasReason
    <2> SUFFICES ASSUME Inv, NEW s \in Sides, NEW c \in Channels, Joined(c), ~go[s][c],
                        ~Full(Other(s), c)
                 PROVE  \E i \in 1 .. Len(Passing(Other(s))) :
                            Passing(Other(s))[i] = Command("go", c)
        BY DEF StoppedHasReason, Full
    <2>1. Other(s) \in Sides /\ Other(Other(s)) = s /\ Command("go", c) \in Packets
        BY SideTypes, PacketTypes
    <2>2. ~Stops(s, c)
        BY DEF Inv, StopsFull
    <2>3. Carried(Other(s), Command("go", c))
        BY <2>1, <2>2 DEF Stops, Carried
    <2> QED BY <2>1, <2>3, PassingFacts DEF Inv
<1> QED BY <1>1, Invariant, PTL

\* A sender that waits for its packet to be written has a packet in the queue or in
\* sendall(), until its virtual channel or the connection ends (network.py 498-501, 548-549,
\* 605-625).
THEOREM SendersWaitForPackets == Spec => []QueuedHasPacket
<1>1. Inv => QueuedHasPacket
    <2> SUFFICES ASSUME Inv, NEW t \in Senders, pc[t] = "queued", closing[At[t]] = "no",
                        Listens(At[t], On[t])
                 PROVE  \E i \in 1 .. Len(Sending(At[t])) : Sending(At[t])[i].by = t
        BY DEF QueuedHasPacket
    <2>1. PICK s \in Sides : s = At[t]
        BY TaskFacts DEF Tasks
    <2>2. PICK p \in Packets : p.by = t /\ (InSeq(queue[s], p) \/ writing[s] = p)
        BY <2>1 DEF Inv, WaitsInv, Waits
    <2>3. Sending(s) \in Seq(Packets) /\ InSeq(Sending(s), p)
        BY <2>2, SendingFacts DEF Inv
    <2>4. DOMAIN Sending(s) = 1 .. Len(Sending(s))
        BY <2>3
    <2> QED BY <2>1, <2>2, <2>3, <2>4 DEF InSeq
<1> QED BY <1>1, Invariant, PTL
=============================================================================
