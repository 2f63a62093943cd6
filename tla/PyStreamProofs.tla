---------------------------- MODULE PyStreamProofs ----------------------------
(***************************************************************************)
(* Proofs about PyStream, for files and blocks of any size: the types, the *)
(* file that is received, and what the success of the sender means.        *)
(***************************************************************************)
EXTENDS PyStream, TLAPS, FiniteSetTheorems, SequenceTheorems

Blocks == {Block(m, n) : m, n \in Nat}
Messages == Blocks \cup {Make, Announce, Destroy}

InSeq(q, p) == \E i \in DOMAIN q : q[i] = p

\* No element of q is a block.
Plain(q) == \A i \in DOMAIN q : q[i].kind # "block"

\* The blocks of q hold the bytes of the file from m to n, in order.
Runs(q, m, n) ==
    \E cut \in [0 .. Len(q) -> 0 .. n] :
        /\ cut[0] = m /\ cut[Len(q)] = n
        /\ \A i \in 1 .. Len(q) :
              IF q[i].kind = "block"
              THEN cut[i - 1] < cut[i] /\ q[i] = Block(cut[i - 1], cut[i])
              ELSE cut[i] = cut[i - 1]

\* The one block of q holds the bytes from m to n.
OneBlock(q, m, n) ==
    \E i \in DOMAIN q :
        q[i] = Block(m, n) /\ \A j \in DOMAIN q : j # i => q[j].kind # "block"

\* The channel is made once, before anything else is sent on it.
FirstIsMake(q) == q # <<>> /\ Head(q) = Make /\ ~InSeq(Tail(q), Make)

-----------------------------------------------------------------------------
(* Lemmas about messages and sequences of them *)

LEMMA BytesFacts ==
    ASSUME NEW m \in Nat, NEW n \in Nat, m <= n
    PROVE  /\ Bytes(m, n) \in Seq(Nat) /\ Len(Bytes(m, n)) = n - m
           /\ Bytes(0, m) \o Bytes(m, n) = Bytes(0, n)
<1>1. ASSUME NEW j \in Nat, NEW k \in Nat, j <= k
      PROVE  Bytes(j, k) \in Seq(Nat) /\ Len(Bytes(j, k)) = k - j
    <2>1. k - j \in Nat /\ Bytes(j, k) \in [1 .. k - j -> Nat]
        BY <1>1 DEF Bytes
    <2>2. DOMAIN Bytes(j, k) = 1 .. k - j
        BY DEF Bytes
    <2>3. Bytes(j, k) \in Seq(Nat)
        BY <2>1, SeqDef
    <2> QED BY <2>1, <2>2, <2>3, LenProperties
<1>2. /\ Bytes(0, m) \in Seq(Nat) /\ Len(Bytes(0, m)) = m
      /\ Bytes(m, n) \in Seq(Nat) /\ Len(Bytes(m, n)) = n - m
      /\ Bytes(0, n) \in Seq(Nat) /\ Len(Bytes(0, n)) = n
    <2>1. 0 \in Nat /\ 0 <= m /\ 0 <= n /\ m - 0 = m /\ n - 0 = n
        OBVIOUS
    <2>2. Bytes(0, m) \in Seq(Nat) /\ Len(Bytes(0, m)) = m
        BY <1>1, <2>1
    <2>3. Bytes(m, n) \in Seq(Nat) /\ Len(Bytes(m, n)) = n - m
        BY <1>1
    <2>4. Bytes(0, n) \in Seq(Nat) /\ Len(Bytes(0, n)) = n
        BY <1>1, <2>1
    <2> QED BY <2>2, <2>3, <2>4
<1>3. /\ \A i \in 1 .. m : Bytes(0, m)[i] = i
      /\ \A i \in 1 .. n - m : Bytes(m, n)[i] = m + i
      /\ \A i \in 1 .. n : Bytes(0, n)[i] = i
    BY DEF Bytes
<1> DEFINE b == Bytes(0, m)  c == Bytes(m, n)  d == Bytes(0, n)
<1>4. b \o c = d
    <2>1. b \o c \in Seq(Nat) /\ Len(b \o c) = n
        BY <1>2
    <2>2. ASSUME NEW i \in 1 .. n PROVE (b \o c)[i] = d[i]
        <3>1. (b \o c)[i] = IF i <= m THEN b[i] ELSE c[i - m]
            BY <1>2
        <3>2. i <= m => i \in 1 .. m
            OBVIOUS
        <3>3. ~(i <= m) => i - m \in 1 .. n - m /\ m + (i - m) = i
            OBVIOUS
        <3> QED BY <1>3, <3>1, <3>2, <3>3
    <2> HIDE DEF b, c, d
    <2> QED BY <1>2, <2>1, <2>2, SeqEqual DEF b, c, d
<1> QED BY <1>2, <1>4

LEMMA MessageKinds ==
    /\ Make # Announce /\ Make # Destroy /\ Announce # Destroy
    /\ Make.kind # "block" /\ Announce.kind # "block" /\ Destroy.kind # "block"
    /\ \A m, n : /\ Block(m, n).kind = "block" /\ Block(m, n).bytes = Bytes(m, n)
                 /\ Block(m, n) # Make /\ Block(m, n) # Announce /\ Block(m, n) # Destroy
    /\ \A p \in Messages : p.kind = "block" <=> p \in Blocks
    /\ Make \in Messages /\ Announce \in Messages /\ Destroy \in Messages
    /\ \A m, n \in Nat : Block(m, n) \in Blocks /\ Block(m, n) \in Messages
    BY DEF Make, Announce, Destroy, Message, Block, Messages, Blocks

LEMMA InSeqFacts ==
    ASSUME NEW S, NEW q \in Seq(S)
    PROVE  /\ \A x \in S : Append(q, x) \in Seq(S)
           /\ \A x \in S : \A p : InSeq(Append(q, x), p) <=> InSeq(q, p) \/ x = p
           /\ q # <<>> => /\ Head(q) \in S /\ Tail(q) \in Seq(S)
                          /\ \A p : InSeq(q, p) <=> Head(q) = p \/ InSeq(Tail(q), p)
           /\ \A p : ~InSeq(<<>>, p)
<1>1. ASSUME NEW x \in S
      PROVE  /\ Append(q, x) \in Seq(S)
             /\ \A p : InSeq(Append(q, x), p) <=> InSeq(q, p) \/ x = p
    <2> DEFINE r == Append(q, x)  n == Len(q)
    <2>1. /\ r \in Seq(S) /\ n \in Nat
          /\ DOMAIN q = 1 .. n /\ DOMAIN r = 1 .. n + 1
          /\ \A i \in 1 .. n : r[i] = q[i]
          /\ r[n + 1] = x
        OBVIOUS
    <2> HIDE DEF r, n
    <2>2. \A i \in 1 .. n + 1 : i \in 1 .. n \/ i = n + 1
        BY <2>1
    <2>3. ASSUME NEW p, InSeq(r, p) PROVE InSeq(q, p) \/ x = p
        BY <2>1, <2>2, <2>3 DEF InSeq
    <2>4. ASSUME NEW p, InSeq(q, p) PROVE InSeq(r, p)
        <3>1. PICK i \in 1 .. n : q[i] = p
            BY <2>1, <2>4 DEF InSeq
        <3>2. i \in 1 .. n + 1 /\ r[i] = p
            BY <2>1, <3>1
        <3> QED BY <2>1, <3>2 DEF InSeq
    <2>5. InSeq(r, x)
        <3>1. n + 1 \in 1 .. n + 1
            BY <2>1
        <3> QED BY <2>1, <3>1 DEF InSeq
    <2> QED BY <2>1, <2>3, <2>4, <2>5 DEF r
<1>2. ASSUME q # <<>>
      PROVE  /\ Head(q) \in S /\ Tail(q) \in Seq(S)
             /\ \A p : InSeq(q, p) <=> Head(q) = p \/ InSeq(Tail(q), p)
    <2> DEFINE r == Tail(q)  n == Len(r)
    <2>1. /\ Head(q) \in S /\ r \in Seq(S) /\ n \in Nat
          /\ DOMAIN q = 1 .. n + 1 /\ DOMAIN r = 1 .. n
          /\ \A i \in 1 .. n : r[i] = q[i + 1]
          /\ q[1] = Head(q)
        BY <1>2
    <2> HIDE DEF r, n
    <2>2. ASSUME NEW p, InSeq(q, p) PROVE Head(q) = p \/ InSeq(r, p)
        <3>1. PICK i \in 1 .. n + 1 : q[i] = p
            BY <2>1, <2>2 DEF InSeq
        <3>2. i = 1 \/ (i - 1 \in 1 .. n /\ r[i - 1] = p)
            BY <2>1, <3>1
        <3> QED BY <2>1, <3>1, <3>2 DEF InSeq
    <2>3. ASSUME NEW p, InSeq(r, p) PROVE InSeq(q, p)
        <3>1. PICK i \in 1 .. n : r[i] = p
            BY <2>1, <2>3 DEF InSeq
        <3>2. i + 1 \in 1 .. n + 1 /\ q[i + 1] = p
            BY <2>1, <3>1
        <3> QED BY <2>1, <3>2 DEF InSeq
    <2>4. InSeq(q, Head(q))
        <3>1. 1 \in 1 .. n + 1
            BY <2>1
        <3> QED BY <2>1, <3>1 DEF InSeq
    <2> QED BY <2>1, <2>2, <2>3, <2>4 DEF r
<1>3. \A p : ~InSeq(<<>>, p)
    BY DEF InSeq
<1> QED BY <1>1, <1>2, <1>3

\* What a message at the end of a sequence adds.
LEMMA AppendFacts ==
    ASSUME NEW q \in Seq(Messages), NEW x \in Messages
    PROVE  /\ Plain(q) /\ x.kind # "block" => Plain(Append(q, x))
           /\ FirstIsMake(q) /\ x # Make => FirstIsMake(Append(q, x))
           /\ q = <<>> /\ x = Make => FirstIsMake(Append(q, x))
           /\ \A m, n : OneBlock(q, m, n) /\ x.kind # "block" => OneBlock(Append(q, x), m, n)
           /\ \A m, n : Plain(q) /\ x = Block(m, n) => OneBlock(Append(q, x), m, n)
<1> DEFINE r == Append(q, x)
           n == Len(q)
<1>1. /\ r \in Seq(Messages) /\ n \in Nat
      /\ DOMAIN q = 1 .. n /\ DOMAIN r = 1 .. n + 1
      /\ \A i \in 1 .. n : r[i] = q[i]
      /\ r[n + 1] = x
    OBVIOUS
<1>2. FirstIsMake(q) /\ x # Make => FirstIsMake(r)
    <2>1. q # <<>> => r # <<>> /\ Head(r) = Head(q) /\ Tail(r) = Append(Tail(q), x) /\ Tail(q) \in Seq(Messages)
        BY HeadTailAppend, InSeqFacts
    <2>2. ASSUME NEW t \in Seq(Messages)
          PROVE  InSeq(Append(t, x), Make) <=> InSeq(t, Make) \/ x = Make
        BY InSeqFacts
    <2> HIDE DEF r
    <2> QED BY <2>1, <2>2 DEF FirstIsMake
<1>3. q = <<>> /\ x = Make => FirstIsMake(r)
    <2>1. q = <<>> => r # <<>> /\ Head(r) = x /\ Tail(r) = <<>>
        OBVIOUS
    <2>2. ~InSeq(<<>>, Make)
        BY DEF InSeq
    <2> HIDE DEF r
    <2> QED BY <2>1, <2>2 DEF FirstIsMake
<1> HIDE DEF r, n
<1>4. \A i \in 1 .. n + 1 : i \in 1 .. n \/ i = n + 1
    BY <1>1
<1>5. n + 1 \in 1 .. n + 1 /\ \A i \in 1 .. n : i \in 1 .. n + 1 /\ i # n + 1
    BY <1>1
<1>6. Plain(q) /\ x.kind # "block" => Plain(r)
    BY <1>1, <1>4 DEF Plain
<1>7. ASSUME NEW a, NEW b, OneBlock(q, a, b), x.kind # "block" PROVE OneBlock(r, a, b)
    <2>1. PICK i \in 1 .. n : q[i] = Block(a, b) /\ \A j \in 1 .. n : j # i => q[j].kind # "block"
        BY <1>1, <1>7 DEF OneBlock
    <2>2. i \in 1 .. n + 1 /\ r[i] = Block(a, b)
        BY <1>1, <1>5, <2>1
    <2>3. \A j \in 1 .. n + 1 : j # i => r[j].kind # "block"
        BY <1>1, <1>4, <1>7, <2>1
    <2> QED BY <1>1, <2>2, <2>3 DEF OneBlock
<1>8. ASSUME NEW a, NEW b, Plain(q), x = Block(a, b) PROVE OneBlock(r, a, b)
    <2>1. \A j \in 1 .. n + 1 : j # n + 1 => r[j].kind # "block"
        BY <1>1, <1>4, <1>8 DEF Plain
    <2> QED BY <1>1, <1>5, <1>8, <2>1 DEF OneBlock
<1> QED BY <1>2, <1>3, <1>6, <1>7, <1>8 DEF r

\* What a message at the head of a sequence leaves.
LEMMA TailFacts ==
    ASSUME NEW q \in Seq(Messages), q # <<>>
    PROVE  /\ Plain(q) => Plain(Tail(q)) /\ Head(q).kind # "block"
           /\ \A m, n : OneBlock(q, m, n) =>
                 IF Head(q).kind = "block" THEN Head(q) = Block(m, n) /\ Plain(Tail(q))
                 ELSE OneBlock(Tail(q), m, n)
<1> DEFINE r == Tail(q)
           n == Len(r)
<1>1. /\ r \in Seq(Messages) /\ n \in Nat
      /\ DOMAIN q = 1 .. n + 1 /\ DOMAIN r = 1 .. n
      /\ \A i \in 1 .. n : r[i] = q[i + 1]
      /\ q[1] = Head(q)
    OBVIOUS
<1> HIDE DEF r, n
<1>2. 1 \in 1 .. n + 1 /\ \A i \in 1 .. n : i + 1 \in 1 .. n + 1 /\ i + 1 # 1
    BY <1>1
<1>3. \A i \in 1 .. n + 1 : i = 1 \/ (i - 1 \in 1 .. n /\ r[i - 1] = q[i])
    BY <1>1
<1>4. Plain(q) => Plain(r) /\ Head(q).kind # "block"
    BY <1>1, <1>2 DEF Plain
<1>5. ASSUME NEW a, NEW b, OneBlock(q, a, b)
      PROVE  IF Head(q).kind = "block" THEN Head(q) = Block(a, b) /\ Plain(r) ELSE OneBlock(r, a, b)
    <2>1. PICK i \in 1 .. n + 1 : q[i] = Block(a, b) /\ \A j \in 1 .. n + 1 : j # i => q[j].kind # "block"
        BY <1>1, <1>5 DEF OneBlock
    <2>2. q[i].kind = "block"
        BY <2>1, MessageKinds
    <2>3. CASE i = 1
        <3>1. \A j \in 1 .. n : r[j].kind # "block"
            BY <1>1, <1>2, <2>1, <2>3
        <3> QED BY <1>1, <2>1, <2>2, <2>3, <3>1 DEF Plain
    <2>4. CASE i # 1
        <3>1. i - 1 \in 1 .. n /\ r[i - 1] = Block(a, b) /\ Head(q).kind # "block"
            BY <1>1, <1>2, <1>3, <2>1, <2>4
        <3>2. \A j \in 1 .. n : j # i - 1 => r[j].kind # "block"
            BY <1>1, <1>2, <2>1
        <3> QED BY <1>1, <3>1, <3>2 DEF OneBlock
    <2> QED BY <2>3, <2>4
<1> QED BY <1>4, <1>5 DEF r

LEMMA RunsAppend ==
    ASSUME NEW q \in Seq(Messages), NEW x \in Messages, NEW m \in Nat, NEW n \in Nat, Runs(q, m, n)
    PROVE  /\ x.kind # "block" => Runs(Append(q, x), m, n)
           /\ \A k \in Nat : n < k /\ x = Block(n, k) => Runs(Append(q, x), m, k)
<1> DEFINE r == Append(q, x)
           l == Len(q)
<1>1. /\ r \in Seq(Messages) /\ l \in Nat /\ Len(r) = l + 1
      /\ \A i \in 1 .. l : r[i] = q[i]
      /\ r[l + 1] = x
    OBVIOUS
<1>2. PICK cut \in [0 .. l -> 0 .. n] :
         /\ cut[0] = m /\ cut[l] = n
         /\ \A i \in 1 .. l :
               IF q[i].kind = "block"
               THEN cut[i - 1] < cut[i] /\ q[i] = Block(cut[i - 1], cut[i])
               ELSE cut[i] = cut[i - 1]
    BY DEF Runs
<1> HIDE DEF r, l
<1>3. ASSUME NEW k \in Nat, n <= k,
             IF x.kind = "block" THEN n < k /\ x = Block(n, k) ELSE k = n
      PROVE  Runs(r, m, k)
    <2> DEFINE more == [i \in 0 .. l + 1 |-> IF i = l + 1 THEN k ELSE cut[i]]
    <2>1. \A i \in 0 .. l + 1 : i = l + 1 \/ i \in 0 .. l
        BY <1>1
    <2>2. \A i \in 0 .. l : cut[i] \in 0 .. k
        BY <1>2, <1>3
    <2>3. more \in [0 .. l + 1 -> 0 .. k]
        BY <1>3, <2>1, <2>2
    <2>4. /\ more[l + 1] = k
          /\ \A i \in 0 .. l : more[i] = cut[i]
        BY <1>1
    <2> HIDE DEF more
    <2>5. more[0] = m
        BY <1>1, <1>2, <2>4
    <2>6. ASSUME NEW i \in 1 .. l + 1
          PROVE  IF r[i].kind = "block"
                 THEN more[i - 1] < more[i] /\ r[i] = Block(more[i - 1], more[i])
                 ELSE more[i] = more[i - 1]
        <3>1. CASE i = l + 1
            <4>1. i - 1 = l /\ l \in 0 .. l
                BY <1>1, <3>1
            <4> QED BY <1>1, <1>2, <1>3, <2>4, <3>1, <4>1
        <3>2. CASE i # l + 1
            <4>1. i \in 1 .. l /\ i \in 0 .. l /\ i - 1 \in 0 .. l
                BY <1>1, <3>2
            <4> QED BY <1>1, <1>2, <2>4, <4>1
        <3> QED BY <3>1, <3>2
    <2>7. \E c \in [0 .. l + 1 -> 0 .. k] :
             /\ c[0] = m /\ c[l + 1] = k
             /\ \A i \in 1 .. l + 1 :
                   IF r[i].kind = "block"
                   THEN c[i - 1] < c[i] /\ r[i] = Block(c[i - 1], c[i])
                   ELSE c[i] = c[i - 1]
        <3> WITNESS more \in [0 .. l + 1 -> 0 .. k]
        <3> QED BY <2>4, <2>5, <2>6
    <2> QED BY <1>1, <2>7 DEF Runs
<1>4. ASSUME x.kind # "block" PROVE Runs(r, m, n)
    BY <1>3, <1>4
<1>5. ASSUME NEW k \in Nat, n < k, x = Block(n, k) PROVE Runs(r, m, k)
    BY <1>3, <1>5, MessageKinds
<1> QED BY <1>4, <1>5 DEF r

LEMMA RunsTail ==
    ASSUME NEW q \in Seq(Messages), q # <<>>, NEW m \in Nat, NEW n \in Nat, Runs(q, m, n)
    PROVE  IF Head(q).kind = "block"
           THEN \E k \in m + 1 .. n : Head(q) = Block(m, k) /\ Runs(Tail(q), k, n)
           ELSE Runs(Tail(q), m, n)
<1> DEFINE r == Tail(q)
           l == Len(r)
<1>1. /\ r \in Seq(Messages) /\ l \in Nat /\ Len(r) = l /\ Len(q) = l + 1
      /\ \A i \in 1 .. l : r[i] = q[i + 1]
      /\ q[1] = Head(q)
    OBVIOUS
<1>2. PICK cut \in [0 .. l + 1 -> 0 .. n] :
         /\ cut[0] = m /\ cut[l + 1] = n
         /\ \A i \in 1 .. l + 1 :
               IF q[i].kind = "block"
               THEN cut[i - 1] < cut[i] /\ q[i] = Block(cut[i - 1], cut[i])
               ELSE cut[i] = cut[i - 1]
    BY <1>1 DEF Runs
<1> HIDE DEF r, l
<1> DEFINE less == [i \in 0 .. l |-> cut[i + 1]]
<1>3. \A i \in 0 .. l : i + 1 \in 0 .. l + 1
    BY <1>1
<1>4. less \in [0 .. l -> 0 .. n]
    BY <1>2, <1>3
<1>5. 0 \in 0 .. l /\ l \in 0 .. l /\ 1 \in 1 .. l + 1 /\ 1 \in 0 .. l + 1
    BY <1>1
<1>6. less[0] = cut[1] /\ less[l] = n
    BY <1>2, <1>5
<1>7. ASSUME NEW i \in 1 .. l
      PROVE  IF r[i].kind = "block"
             THEN less[i - 1] < less[i] /\ r[i] = Block(less[i - 1], less[i])
             ELSE less[i] = less[i - 1]
    <2>1. i \in 0 .. l /\ i - 1 \in 0 .. l /\ i + 1 \in 1 .. l + 1 /\ (i - 1) + 1 = i /\ (i + 1) - 1 = i
        BY <1>1
    <2>2. less[i] = cut[i + 1] /\ less[i - 1] = cut[i]
        BY <2>1
    <2> HIDE DEF less
    <2> QED BY <1>1, <1>2, <2>1, <2>2
<1> HIDE DEF less
<1>8. Runs(r, cut[1], n)
    BY <1>1, <1>4, <1>6, <1>7 DEF Runs
<1>9. IF Head(q).kind = "block" THEN cut[1] \in m + 1 .. n /\ Head(q) = Block(m, cut[1])
      ELSE cut[1] = m
    <2>1. cut[1] \in 0 .. n /\ 1 - 1 = 0
        BY <1>2, <1>5
    <2>2. IF q[1].kind = "block" THEN cut[0] < cut[1] /\ q[1] = Block(cut[0], cut[1])
          ELSE cut[1] = cut[0]
        BY <1>2, <1>5, <2>1
    <2> QED BY <1>1, <1>2, <2>1, <2>2
<1> QED BY <1>8, <1>9 DEF r

LEMMA RunsEmpty ==
    ASSUME NEW m \in Nat
    PROVE  Runs(<<>>, m, m)
<1> DEFINE cut == [i \in 0 .. 0 |-> m]
<1>1. cut \in [0 .. 0 -> 0 .. m] /\ cut[0] = m /\ Len(<<>>) = 0 /\ 1 .. 0 = {}
    OBVIOUS
<1> HIDE DEF cut
<1> QED BY <1>1 DEF Runs

\* What is not a block stays, in order.
LEMMA WithoutBlocksFacts ==
    ASSUME NEW q \in Seq(Messages), NEW r \in WithoutBlocks(q)
    PROVE  /\ r \in Seq(Messages) /\ Plain(r)
           /\ \A p : InSeq(r, p) => InSeq(q, p)
           /\ FirstIsMake(q) => FirstIsMake(r)
           /\ q = <<>> => r = <<>>
<1> DEFINE kept == {i \in DOMAIN q : q[i].kind # "block"}
           m == Cardinality(kept)
<1>1. PICK f \in Bijection(1 .. m, kept) :
         /\ \A i, j \in DOMAIN f : i < j => f[i] < f[j]
         /\ r = [i \in DOMAIN f |-> q[f[i]]]
    BY DEF WithoutBlocks, Kept
<1>2. /\ DOMAIN f = 1 .. m /\ \A i \in 1 .. m : f[i] \in kept
      /\ \A k \in kept : \E i \in 1 .. m : f[i] = k
    BY DEF Bijection, Injection, Surjection
<1>3. m \in Nat
    <2>1. IsFiniteSet(DOMAIN q)
        <3>1. DOMAIN q = 1 .. Len(q) /\ 1 \in Int /\ Len(q) \in Int
            OBVIOUS
        <3>2. IsFiniteSet(1 .. Len(q))
            BY <3>1, FS_Interval
        <3> QED BY <3>1, <3>2
    <2> QED BY <2>1, FS_Subset, FS_CardinalityType
<1>4. /\ DOMAIN r = 1 .. m
      /\ \A i \in 1 .. m : r[i] = q[f[i]] /\ f[i] \in DOMAIN q /\ r[i].kind # "block"
      /\ \A i, j \in 1 .. m : i < j => f[i] < f[j]
      /\ \A k \in DOMAIN q : q[k].kind = "block" \/ \E i \in 1 .. m : f[i] = k
    BY <1>1, <1>2
<1>5. \A k \in DOMAIN q : q[k] \in Messages /\ k \in Nat /\ k >= 1
    OBVIOUS
<1>6. r \in Seq(Messages) /\ Len(r) = m
    <2>1. r \in [1 .. m -> Messages]
        BY <1>1, <1>2, <1>4, <1>5
    <2> HIDE DEF m
    <2>2. r \in Seq(Messages)
        BY <1>3, <2>1, SeqDef
    <2> QED BY <1>3, <1>4, <2>2, LenProperties
<1> HIDE DEF kept, m
<1>7. \A p : InSeq(r, p) => InSeq(q, p)
    BY <1>4 DEF InSeq
<1>8. q = <<>> => r = <<>>
    <2>1. q = <<>> => m = 0
        <3>1. q = <<>> => DOMAIN q = {}
            OBVIOUS
        <3>2. m # 0 => 1 \in 1 .. m
            BY <1>3
        <3> QED BY <1>4, <3>1, <3>2
    <2> QED BY <1>6, <2>1
<1>9. ASSUME FirstIsMake(q) PROVE FirstIsMake(r)
    <2>1. 1 \in DOMAIN q /\ q[1] = Make /\ q[1].kind # "block"
        BY <1>9, MessageKinds DEF FirstIsMake
    <2>2. PICK i \in 1 .. m : f[i] = 1
        BY <1>4, <2>1
    <2>3. i = 1
        <3>1. ASSUME i > 1 PROVE FALSE
            <4>1. 1 \in 1 .. m /\ 1 < i /\ f[1] < f[i]
                BY <1>3, <1>4, <3>1
            <4>2. f[1] >= 1 /\ f[1] \in Nat
                BY <1>4, <1>5, <4>1
            <4> QED BY <2>2, <4>1, <4>2
        <3> QED BY <1>3, <3>1
    <2>4. r # <<>> /\ Head(r) = Make /\ Tail(r) \in Seq(Messages) /\ Len(Tail(r)) = m - 1
          /\ \A j \in 1 .. m - 1 : Tail(r)[j] = r[j + 1]
        BY <1>3, <1>4, <1>6, <2>1, <2>2, <2>3
    <2>5. ASSUME NEW j \in 1 .. m - 1, Tail(r)[j] = Make PROVE FALSE
        <3>1. j + 1 \in 1 .. m /\ 1 \in 1 .. m /\ 1 < j + 1 /\ r[j + 1] = Make
            BY <1>3, <2>4, <2>5
        <3>2. f[j + 1] \in DOMAIN q /\ f[1] < f[j + 1] /\ f[1] = 1 /\ q[f[j + 1]] = Make
            BY <1>4, <2>2, <2>3, <3>1
        <3>3. f[j + 1] - 1 \in DOMAIN Tail(q) /\ Tail(q)[f[j + 1] - 1] = Make
            <4> DEFINE k == f[j + 1]
            <4>1. k \in 1 .. Len(q) /\ k > 1 /\ q[k] = Make /\ q # <<>>
                BY <1>5, <3>2
            <4> HIDE DEF k
            <4>2. k - 1 \in DOMAIN Tail(q) /\ Tail(q)[k - 1] = q[k]
                BY <4>1
            <4> QED BY <4>1, <4>2 DEF k
        <3> QED BY <1>9, <3>3 DEF FirstIsMake, InSeq
    <2>6. DOMAIN Tail(r) = 1 .. m - 1
        BY <2>4
    <2> QED BY <2>4, <2>5, <2>6 DEF FirstIsMake, InSeq
<1> QED BY <1>4, <1>6, <1>7, <1>8, <1>9 DEF Plain

-----------------------------------------------------------------------------
(* The inductive invariant *)

Pipes ==
    /\ queue \in Seq(Messages) /\ wire \in Seq(Messages) /\ rx \in Seq(Blocks)
    /\ ~up => wire = <<>> /\ back = <<>>

\* Nothing comes to the taker before the channel does.
MadeFirst ==
    /\ mk = "idle" <=> me = "none"
    /\ me = "none" => queue = <<>> /\ wire = <<>> /\ te = "none"
    /\ up /\ me # "none" /\ te = "none" =>
          \/ FirstIsMake(wire) /\ ~InSeq(queue, Make)
          \/ wire = <<>> /\ FirstIsMake(queue)
    /\ up /\ te # "none" => ~InSeq(wire, Make) /\ ~InSeq(queue, Make)

\* The bytes up to the in-th were received, and up to the out-th they were written.
Flow(in, out) ==
    /\ receiver # "full" => Runs(rx, Len(got), in)
    /\ up /\ te \in {"none", "pending", "open"} => Runs(wire, in, out)
    /\ sender # "killed" => out = count
    /\ \/ Plain(queue)
       \/ /\ sender \in {"queued", "killed"}
          /\ \E n \in out + 1 .. file.bytes : OneBlock(queue, out, n)
    /\ sender = "queued" => ~Plain(queue)
Contiguous == \E in, out \in 0 .. file.bytes : Flow(in, out)

\* The receiver is done, with all of the file or because of an error of its own.
Done ==
    \/ receiver \in {"full", "killed"}
    \/ receiver \in {"ok", "failed"} /\ Len(got) >= file.size

\* The maker dropped the stream without success.
Over == me = "closed" /\ sender \notin Sending \cup {"ok"}

Excused == Done \/ Over \/ file.size = 0

\* What may tell one side that the other is done.
Ended ==
    \/ me = "closed" \/ te = "closed"
    \/ InSeq(wire, Destroy) \/ InSeq(queue, Destroy) \/ InSeq(back, "destroy")
    \/ sender = "ok" \/ receiver = "failed"

Confirmations ==
    /\ up /\ Ended => Excused
    /\ tk = "done" => receiver \notin {"idle", "receiving"}
    /\ receiver # "idle" => tk \in {"taken", "done"}

Received ==
    /\ got = Bytes(0, Len(got))
    /\ receiver = "idle" => got = <<>>
    /\ receiver = "receiving" => file.size # 0
    /\ receiver = "ok" => Len(got) = file.size /\ (file.size = 0 \/ file.hash # "wrong")

IInv == TypeOK /\ Pipes /\ MadeFirst /\ Contiguous /\ Confirmations /\ Received

-----------------------------------------------------------------------------
(* The steps *)

LEMMA FileFacts ==
    ASSUME TypeOK
    PROVE  file.bytes \in Nat /\ file.size \in Nat /\ count \in Nat
    BY StreamAssumption DEF TypeOK, Files

LEMMA Steps ==
    ASSUME [Next]_vars
    PROVE  \/ MakeStream \/ CannotPack \/ InterruptCall \/ Take \/ Reject \/ InterruptWaiter
           \/ MethodEnds \/ Written \/ MakerReceives \/ TakerReceives \/ MakerDrops \/ TakerDrops
           \/ SenderStarts \/ SenderReady \/ SendBlock \/ SendingEnds \/ Confirmed \/ KillSender
           \/ ReceiveBlock \/ DiskFull \/ ReceivingEnds \/ KillReceiver
           \/ LinkFails \/ MakerLoses \/ TakerLoses \/ UNCHANGED vars
    BY DEF Next, PeerStep, ChannelStep, SenderStep, ReceiverStep, LossStep,
           MakeArgument, MakeResult, TakeArgument, TakeResult

\* A block in a sequence that holds one is the one that follows what was sent.
LEMMA OneIsNotPlain ==
    ASSUME NEW q, NEW m, NEW n, OneBlock(q, m, n)
    PROVE  ~Plain(q)
    BY MessageKinds DEF OneBlock, Plain

\* The block at the head of the sending queue.
LEMMA HeadBlock ==
    ASSUME IInv, queue # <<>>, Head(queue).kind = "block"
    PROVE  /\ Plain(Tail(queue))
           /\ \E out \in Nat, n \in 0 .. file.bytes :
                 /\ out < n /\ Head(queue) = Block(out, n)
                 /\ Len(Head(queue).bytes) = n - out
                 /\ sender # "killed" => out = count /\ sender = "queued"
<1>1. PICK in \in 0 .. file.bytes, out \in 0 .. file.bytes : Flow(in, out)
    BY DEF IInv, Contiguous
<1>2. queue \in Seq(Messages) /\ ~Plain(queue)
    BY TailFacts DEF IInv, Pipes
<1>3. PICK n \in out + 1 .. file.bytes : OneBlock(queue, out, n)
    BY <1>1, <1>2 DEF Flow
<1>4. Head(queue) = Block(out, n) /\ Plain(Tail(queue))
    BY <1>2, <1>3, TailFacts
<1>5. out \in Nat /\ n \in 0 .. file.bytes /\ out < n /\ n \in Nat
    BY FileFacts DEF IInv
<1>6. Len(Head(queue).bytes) = n - out
    <2>1. Head(queue).bytes = Bytes(out, n)
        BY <1>4, MessageKinds
    <2>2. out <= n
        BY <1>5
    <2>3. Len(Bytes(out, n)) = n - out
        BY <1>5, <2>2, BytesFacts
    <2> QED BY <2>1, <2>3
<1>7. sender # "killed" => out = count /\ sender = "queued"
    BY <1>1, <1>2 DEF Flow
<1> QED BY <1>4, <1>5, <1>6, <1>7

\* The block at the head of the receiving queue is the next one of the file.
LEMMA NextBlock ==
    ASSUME IInv, receiver = "receiving", rx # <<>>
    PROVE  /\ Tail(rx) \in Seq(Blocks) /\ got \o Head(rx).bytes = Bytes(0, Len(got \o Head(rx).bytes))
           /\ \A in \in 0 .. file.bytes : Runs(rx, Len(got), in) =>
                 /\ Len(got \o Head(rx).bytes) \in 0 .. in
                 /\ Runs(Tail(rx), Len(got \o Head(rx).bytes), in)
<1> DEFINE more == got \o Head(rx).bytes
<1>1. PICK a \in 0 .. file.bytes, out \in 0 .. file.bytes : Flow(a, out)
    BY DEF IInv, Contiguous
<1>2. rx \in Seq(Blocks) /\ rx \in Seq(Messages)
    BY SeqMonotonic DEF IInv, Pipes, Messages
<1>3. Head(rx) \in Blocks /\ Head(rx) \in Messages /\ Tail(rx) \in Seq(Blocks)
    BY <1>2, InSeqFacts
<1>4. Head(rx).kind = "block"
    BY <1>3, MessageKinds
<1>5. Len(got) \in Nat /\ got = Bytes(0, Len(got))
    <2>1. got = Bytes(0, Len(got))
        BY DEF IInv, Received
    <2>2. Runs(rx, Len(got), a)
        BY <1>1 DEF Flow
    <2>3. Len(got) \in 0 .. a
        <3>1. PICK cut \in [0 .. Len(rx) -> 0 .. a] : cut[0] = Len(got)
            BY <2>2 DEF Runs
        <3>2. 0 \in 0 .. Len(rx)
            BY <1>2
        <3> QED BY <3>1, <3>2
    <2> QED BY <2>1, <2>3
<1>6. ASSUME NEW in \in 0 .. file.bytes, Runs(rx, Len(got), in)
      PROVE  Len(more) \in 0 .. in /\ Runs(Tail(rx), Len(more), in) /\ more = Bytes(0, Len(more))
    <2>1. in \in Nat
        BY FileFacts DEF IInv
    <2>2. PICK k \in Len(got) + 1 .. in : Head(rx) = Block(Len(got), k) /\ Runs(Tail(rx), k, in)
        BY <1>2, <1>4, <1>5, <1>6, <2>1, RunsTail
    <2>3. k \in Nat /\ Len(got) <= k /\ k \in 0 .. in
        BY <1>5, <2>1
    <2>4. Head(rx).bytes = Bytes(Len(got), k)
        BY <2>2, MessageKinds
    <2>5. Bytes(0, Len(got)) \o Bytes(Len(got), k) = Bytes(0, k)
        BY <1>5, <2>3, BytesFacts
    <2>6. more = Bytes(0, k)
        BY <1>5, <2>4, <2>5
    <2>7. Len(Bytes(0, k)) = k
        <3>1. 0 \in Nat /\ 0 <= k /\ k - 0 = k
            BY <2>3
        <3> QED BY <2>3, <3>1, BytesFacts
    <2> HIDE DEF more
    <2> QED BY <2>2, <2>3, <2>6, <2>7
<1>7. more = Bytes(0, Len(more))
    <2>1. Runs(rx, Len(got), a)
        BY <1>1 DEF Flow
    <2> QED BY <1>6, <2>1
<1> QED BY <1>3, <1>6, <1>7

LEMMA PipesStep ==
    ASSUME IInv, [Next]_vars
    PROVE  Pipes'
<1> USE DEF Pipes
<1>0. /\ queue \in Seq(Messages) /\ wire \in Seq(Messages) /\ rx \in Seq(Blocks)
      /\ ~up => wire = <<>> /\ back = <<>>
    BY DEF IInv
<1>1. CASE MakeStream \/ CannotPack
    <2>1. Make \in Messages /\ Announce \in Messages
        BY MessageKinds
    <2>2. queue \o <<Make, Announce>> \in Seq(Messages) /\ Append(queue, Make) \in Seq(Messages)
        BY <1>0, <2>1
    <2> QED BY <1>0, <1>1, <2>2 DEF MakeStream, CannotPack, fileVars, envVars
<1>2. CASE InterruptCall \/ Take \/ Reject \/ InterruptWaiter \/ SenderStarts \/ SenderReady
           \/ SendingEnds \/ Confirmed \/ KillSender \/ ReceivingEnds \/ KillReceiver
    BY <1>0, <1>2 DEF InterruptCall, Take, Reject, InterruptWaiter, SenderStarts, SenderReady,
       SendingEnds, Confirmed, KillSender, ReceivingEnds, KillReceiver,
       peerVars, chanVars, netVars, fileVars, envVars
<1>3. CASE MethodEnds \/ TakerDrops
    BY <1>0, <1>3 DEF MethodEnds, TakerDrops, peerVars, chanVars, fileVars, envVars
<1>4. CASE Written
    <2>1. Head(queue) \in Messages /\ Tail(queue) \in Seq(Messages)
        BY <1>0, <1>4, InSeqFacts DEF Written
    <2>2. Append(wire, Head(queue)) \in Seq(Messages)
        BY <1>0, <2>1
    <2> QED BY <1>0, <1>4, <2>1, <2>2 DEF Written, chanVars, envVars
<1>5. CASE MakerReceives
    <2>1. queue' \in Seq(Messages)
        BY <1>0, <1>5, WithoutBlocksFacts DEF MakerReceives, DropBlocks
    <2> QED BY <1>0, <1>5, <2>1 DEF MakerReceives, envVars
<1>6. CASE TakerReceives
    <2>1. Head(wire) \in Messages /\ Tail(wire) \in Seq(Messages)
        BY <1>0, <1>6, InSeqFacts DEF TakerReceives
    <2>2. Head(wire).kind = "block" => Append(rx, Head(wire)) \in Seq(Blocks)
        BY <1>0, <2>1, MessageKinds
    <2>3. rx' \in Seq(Blocks)
        BY <1>0, <1>6, <2>2 DEF TakerReceives
    <2> QED BY <1>0, <1>6, <2>1, <2>3 DEF TakerReceives, fileVars, envVars
<1>7. CASE MakerDrops
    <2>1. PICK q \in WithoutBlocks(queue) : queue' = Append(q, Destroy)
        BY <1>7 DEF MakerDrops
    <2>2. queue' \in Seq(Messages)
        BY <1>0, <2>1, WithoutBlocksFacts, MessageKinds, InSeqFacts
    <2> QED BY <1>0, <1>7, <2>2 DEF MakerDrops, fileVars, envVars
<1>8. CASE SendBlock
    <2>1. PICK n \in Nat : queue' = Append(queue, Block(count, n))
        BY <1>8, FileFacts, StreamAssumption DEF SendBlock, IInv
    <2>2. queue' \in Seq(Messages)
        BY <1>0, <2>1, MessageKinds, FileFacts, InSeqFacts DEF IInv
    <2> QED BY <1>0, <1>8, <2>2 DEF SendBlock, chanVars, envVars
<1>9. CASE ReceiveBlock \/ DiskFull
    <2>1. Tail(rx) \in Seq(Blocks)
        BY <1>0, <1>9, InSeqFacts DEF ReceiveBlock, DiskFull
    <2> QED BY <1>0, <1>9, <2>1 DEF ReceiveBlock, DiskFull, netVars, envVars
<1>10. CASE LinkFails \/ MakerLoses \/ TakerLoses
    <2>1. CASE LinkFails
        BY <1>0, <2>1 DEF LinkFails, chanVars, fileVars
    <2>2. CASE MakerLoses
        BY <1>0, <2>2 DEF MakerLoses
    <2>3. CASE TakerLoses
        BY <1>0, <2>3 DEF TakerLoses, netVars
    <2> QED BY <1>10, <2>1, <2>2, <2>3
<1>11. CASE UNCHANGED vars
    BY <1>0, <1>11 DEF vars, chanVars, netVars, envVars
<1> QED BY <1>1, <1>2, <1>3, <1>4, <1>5, <1>6, <1>7, <1>8, <1>9, <1>10, <1>11, Steps

LEMMA TypesStep ==
    ASSUME IInv, [Next]_vars
    PROVE  TypeOK'
<1>0. TypeOK
    BY DEF IInv
<1>1. CASE MakeStream
    BY <1>0, <1>1 DEF TypeOK, MakeStream, fileVars, envVars
<1>14. CASE CannotPack
    BY <1>0, <1>14 DEF TypeOK, CannotPack, fileVars, envVars
<1>15. CASE InterruptCall
    BY <1>0, <1>15 DEF TypeOK, InterruptCall, chanVars, netVars, fileVars, envVars
<1>2. CASE Take
    BY <1>0, <1>2 DEF TypeOK, Take, Abandoned, netVars, envVars
<1>16. CASE Reject
    BY <1>0, <1>16 DEF TypeOK, Reject, Abandoned, chanVars, netVars, fileVars, envVars
<1>17. CASE InterruptWaiter
    BY <1>0, <1>17 DEF TypeOK, InterruptWaiter, Abandoned, chanVars, netVars, fileVars, envVars
<1>3. CASE MethodEnds \/ TakerDrops
    <2>1. \A x \in {"answer", "destroy"} : Append(back, x) \in Seq({"answer", "destroy"})
        BY <1>0 DEF TypeOK
    <2>2. back' \in Seq({"answer", "destroy"})
        BY <1>0, <1>3, <2>1 DEF TypeOK, MethodEnds, TakerDrops
    <2>3. CASE MethodEnds
        BY <1>0, <2>2, <2>3 DEF TypeOK, MethodEnds, chanVars, fileVars, envVars
    <2>4. CASE TakerDrops
        BY <1>0, <2>2, <2>4 DEF TypeOK, TakerDrops, peerVars, fileVars, envVars
    <2> QED BY <1>3, <2>3, <2>4
<1>4. CASE Written
    <2>1. count' \in 0 .. file.bytes
        BY <1>0, <1>4, HeadBlock, FileFacts DEF TypeOK, Written
    <2>2. sender' \in {sender, "reading"} /\ mk' \in {mk, "waiting", "done"}
        BY <1>4 DEF Written
    <2>3. /\ ready' \in BOOLEAN
          /\ ready' <=> mk' \notin {"idle", "sending", "unwoken"}
        BY <1>0, <1>4 DEF TypeOK, Written
    <2> QED BY <1>0, <1>4, <2>1, <2>2, <2>3 DEF TypeOK, Written, Sending, chanVars, envVars
<1>5. CASE MakerReceives
    <2>1. back' \in Seq({"answer", "destroy"})
        BY <1>0, <1>5 DEF TypeOK, MakerReceives
    <2>2. /\ mk' = mk \/ (mk = "waiting" /\ mk' = "done")
          /\ me' = me \/ me' = "closed"
          /\ sender' = sender \/ sender' = "unwoken"
        BY <1>5 DEF MakerReceives, DropBlocks
    <2> QED BY <1>0, <1>5, <2>1, <2>2 DEF TypeOK, MakerReceives, envVars
<1>6. CASE TakerReceives
    <2>1. te' \in {"none", "pending", "open", "closed", "dropped"}
        BY <1>0, <1>6 DEF TypeOK, TakerReceives
    <2> QED BY <1>0, <1>6, <2>1 DEF TypeOK, TakerReceives, fileVars, envVars
<1>7. CASE MakerDrops
    BY <1>0, <1>7 DEF TypeOK, MakerDrops, peerVars, fileVars, envVars
<1>8. CASE SenderStarts \/ SenderReady \/ SendBlock \/ SendingEnds \/ Confirmed \/ KillSender
    <2>1. sender' \in Sending \cup {"ok", "failed", "killed"}
        BY <1>8 DEF Sending, SenderStarts, SenderReady, SendBlock, SendingEnds, Confirmed, KillSender
    <2>2. UNCHANGED <<peerVars, chanVars, back, receiver, count, got, envVars>>
        BY <1>8 DEF SenderStarts, SenderReady, SendBlock, SendingEnds, Confirmed, KillSender, netVars
    <2> QED BY <1>0, <2>1, <2>2 DEF TypeOK, Sending, peerVars, chanVars, envVars
<1>9. CASE ReceiveBlock
    <2>1. Len(got') <= file.bytes
        <3>1. PICK in \in 0 .. file.bytes, out \in 0 .. file.bytes : Flow(in, out)
            BY DEF IInv, Contiguous
        <3>2. Runs(rx, Len(got), in)
            BY <1>9, <3>1 DEF Flow, ReceiveBlock
        <3>3. Len(got') \in 0 .. in
            BY <1>9, <3>2, NextBlock DEF ReceiveBlock
        <3> QED BY <1>0, <3>3, FileFacts
    <2>2. receiver' \in {"ok", "failed", "receiving"}
        BY <1>9 DEF ReceiveBlock, Verdict
    <2> QED BY <1>0, <1>9, <2>1, <2>2 DEF TypeOK, ReceiveBlock, peerVars, netVars, envVars
<1>10. CASE DiskFull \/ ReceivingEnds \/ KillReceiver
    <2>1. receiver' \in {"ok", "failed", "full", "killed"}
        BY <1>10 DEF DiskFull, ReceivingEnds, KillReceiver, Verdict
    <2>2. UNCHANGED <<peerVars, me, te, back, sender, count, got, envVars>>
        BY <1>10 DEF DiskFull, ReceivingEnds, KillReceiver, netVars, chanVars
    <2> QED BY <1>0, <2>1, <2>2 DEF TypeOK, peerVars, envVars
<1>11. CASE LinkFails
    BY <1>0, <1>11 DEF TypeOK, LinkFails, peerVars, chanVars, fileVars
<1>12. CASE MakerLoses \/ TakerLoses
    <2>1. /\ mk' = mk \/ (mk = "sending" /\ mk' = "unwoken") \/ (mk = "waiting" /\ mk' = "gone")
          /\ me' = me \/ me' = "closed"
          /\ sender' = sender \/ sender' = "unwoken"
          /\ te' = te \/ te' \in {"dropped", "closed"}
          /\ tk' = tk \/ tk' = "gone"
        BY <1>12 DEF MakerLoses, TakerLoses, netVars, fileVars
    <2>2. lost' \subseteq {"maker", "taker"} /\ ~up'
        BY <1>0, <1>12 DEF TypeOK, MakerLoses, TakerLoses
    <2> QED BY <1>0, <1>12, <2>1, <2>2 DEF TypeOK, MakerLoses, TakerLoses, Abandoned, netVars, fileVars
<1>13. CASE UNCHANGED vars
    BY <1>0, <1>13 DEF TypeOK, vars, peerVars, chanVars, netVars, fileVars, envVars
<1> QED BY <1>1, <1>2, <1>3, <1>4, <1>5, <1>6, <1>7, <1>8, <1>9, <1>10, <1>11, <1>12, <1>13,
           <1>14, <1>15, <1>16, <1>17, Steps

LEMMA MadeFirstStep ==
    ASSUME IInv, [Next]_vars
    PROVE  MadeFirst'
<1>0. /\ mk = "idle" <=> me = "none"
      /\ me = "none" => queue = <<>> /\ wire = <<>> /\ te = "none"
      /\ up /\ me # "none" /\ te = "none" =>
            \/ FirstIsMake(wire) /\ ~InSeq(queue, Make)
            \/ wire = <<>> /\ FirstIsMake(queue)
      /\ up /\ te # "none" => ~InSeq(wire, Make) /\ ~InSeq(queue, Make)
      /\ queue \in Seq(Messages) /\ wire \in Seq(Messages)
      /\ ~up => wire = <<>>
    BY DEF IInv, MadeFirst, Pipes
<1>1. CASE MakeStream \/ CannotPack
    <2>1. mk = "idle" /\ queue = <<>> /\ wire = <<>> /\ te = "none"
        BY <1>0, <1>1 DEF MakeStream, CannotPack
    <2>2. FirstIsMake(<<Make, Announce>>) /\ FirstIsMake(<<Make>>)
        <3>1. /\ <<Make, Announce>> # <<>> /\ Head(<<Make, Announce>>) = Make
              /\ Tail(<<Make, Announce>>) = <<Announce>>
              /\ <<Make>> # <<>> /\ Head(<<Make>>) = Make /\ Tail(<<Make>>) = <<>>
            OBVIOUS
        <3>2. ~InSeq(<<Announce>>, Make) /\ ~InSeq(<<>>, Make)
            BY MessageKinds DEF InSeq
        <3> QED BY <3>1, <3>2 DEF FirstIsMake
    <2>3. queue' = <<Make, Announce>> \/ queue' = <<Make>>
        BY <1>1, <2>1 DEF MakeStream, CannotPack
    <2>4. wire' = <<>> /\ me' = "open" /\ te' = "none" /\ mk' # "idle"
        BY <1>1, <2>1 DEF MakeStream, CannotPack
    <2> QED BY <2>2, <2>3, <2>4 DEF MadeFirst
<1>2. ASSUME UNCHANGED <<queue, wire, me, up>>, mk' = "idle" <=> mk = "idle", te' = "none" <=> te = "none"
      PROVE  MadeFirst'
    BY <1>0, <1>2 DEF MadeFirst
<1>3. CASE InterruptCall \/ Reject \/ InterruptWaiter \/ MethodEnds \/ SenderStarts \/ SenderReady
           \/ SendingEnds \/ Confirmed \/ KillSender \/ ReceivingEnds \/ KillReceiver
           \/ ReceiveBlock \/ DiskFull
    <2>1. UNCHANGED <<queue, wire, me, up, te>> /\ (mk' = "idle" <=> mk = "idle")
        BY <1>3 DEF InterruptCall, Reject, InterruptWaiter, MethodEnds, SenderStarts, SenderReady,
           SendingEnds, Confirmed, KillSender, ReceivingEnds, KillReceiver, ReceiveBlock, DiskFull,
           peerVars, chanVars, netVars, envVars
    <2> QED BY <1>2, <2>1
<1>4. CASE Take \/ TakerDrops
    <2>1. UNCHANGED <<queue, wire, me, up, mk>> /\ (te' = "none" <=> te = "none")
        BY <1>4 DEF Take, TakerDrops, peerVars, netVars, envVars
    <2> QED BY <1>2, <2>1
<1>5. CASE UNCHANGED vars
    BY <1>2, <1>5 DEF vars, peerVars, chanVars, netVars, envVars
<1>6. CASE Written
    <2>1. /\ queue # <<>> /\ queue' = Tail(queue)
          /\ wire' = IF up THEN Append(wire, Head(queue)) ELSE wire
          /\ UNCHANGED <<me, te, up>> /\ (mk' = "idle" <=> mk = "idle")
        BY <1>6 DEF Written, chanVars, envVars
    <2>2. /\ Head(queue) \in Messages
          /\ \A p : InSeq(queue, p) <=> Head(queue) = p \/ InSeq(Tail(queue), p)
        BY <1>0, <2>1, InSeqFacts
    <2>3. CASE ~up
        BY <1>0, <2>1, <2>3 DEF MadeFirst
    <2>4. CASE up /\ te # "none"
        <3>1. ~InSeq(wire', Make) /\ ~InSeq(queue', Make)
            BY <1>0, <2>1, <2>2, <2>4, InSeqFacts
        <3> QED BY <1>0, <2>1, <2>4, <3>1 DEF MadeFirst
    <2>5. CASE up /\ te = "none"
        <3>1. FirstIsMake(wire') /\ ~InSeq(queue', Make)
            <4>1. CASE FirstIsMake(wire) /\ ~InSeq(queue, Make)
                <5>1. Head(queue) # Make /\ ~InSeq(queue', Make)
                    BY <2>1, <2>2, <4>1
                <5> QED BY <1>0, <2>1, <2>2, <2>5, <4>1, <5>1, AppendFacts
            <4>2. CASE wire = <<>> /\ FirstIsMake(queue)
                <5>1. Head(queue) = Make /\ ~InSeq(queue', Make)
                    BY <2>1, <4>2 DEF FirstIsMake
                <5> QED BY <1>0, <2>1, <2>2, <2>5, <4>2, <5>1, AppendFacts
            <4> QED BY <1>0, <2>1, <2>5, <4>1, <4>2
        <3> QED BY <1>0, <2>1, <2>5, <3>1 DEF MadeFirst
    <2> QED BY <2>3, <2>4, <2>5
<1>7. ASSUME NEW q \in WithoutBlocks(queue), queue' = q \/ queue' = Append(q, Destroy),
             UNCHANGED <<wire, te, up>>, mk' = "idle" <=> mk = "idle", me # "none", me' # "none"
      PROVE  MadeFirst'
    <2>1. /\ q \in Seq(Messages) /\ (InSeq(q, Make) => InSeq(queue, Make))
          /\ FirstIsMake(queue) => FirstIsMake(q)
        BY <1>0, WithoutBlocksFacts
    <2>2. /\ InSeq(queue', Make) => InSeq(queue, Make)
          /\ FirstIsMake(queue) => FirstIsMake(queue')
        <3>1. CASE queue' = q
            BY <2>1, <3>1
        <3>2. CASE queue' = Append(q, Destroy)
            <4>1. Destroy \in Messages /\ Destroy # Make
                BY MessageKinds
            <4>2. InSeq(Append(q, Destroy), Make) => InSeq(q, Make)
                BY <2>1, <4>1, InSeqFacts
            <4>3. FirstIsMake(q) => FirstIsMake(Append(q, Destroy))
                BY <2>1, <4>1, AppendFacts
            <4> QED BY <2>1, <3>2, <4>2, <4>3
        <3> QED BY <1>7, <3>1, <3>2
    <2> QED BY <1>0, <1>7, <2>2 DEF MadeFirst
<1>8. CASE MakerReceives
    <2>1. UNCHANGED <<wire, te, up>> /\ (mk' = "idle" <=> mk = "idle")
        BY <1>8 DEF MakerReceives, envVars
    <2>2. CASE UNCHANGED <<me, queue>>
        BY <1>2, <2>1, <2>2
    <2>3. CASE ~UNCHANGED <<me, queue>>
        <3>1. me = "open" /\ me' = "closed" /\ queue' \in WithoutBlocks(queue)
            BY <1>8, <2>3 DEF MakerReceives, DropBlocks
        <3> QED BY <1>7, <2>1, <3>1
    <2> QED BY <2>2, <2>3
<1>9. CASE MakerDrops
    <2>1. PICK q \in WithoutBlocks(queue) : queue' = Append(q, Destroy)
        BY <1>9 DEF MakerDrops
    <2>2. UNCHANGED <<wire, te, up, mk>> /\ me # "none" /\ me' # "none"
        BY <1>9 DEF MakerDrops, peerVars, envVars
    <2> QED BY <1>7, <2>1, <2>2
<1>10. CASE TakerReceives
    <2>1. /\ wire # <<>> /\ wire' = Tail(wire) /\ up /\ me # "none"
          /\ UNCHANGED <<me, mk, queue, up>>
          /\ Head(wire) = Make => te' = "pending"
          /\ te' = "none" => te = "none"
        <3>1. /\ wire # <<>> /\ wire' = Tail(wire)
              /\ UNCHANGED <<me, mk, queue, up>>
              /\ te' = CASE Head(wire) = Make -> "pending"
                         [] Head(wire) = Destroy -> IF te = "pending" THEN "dropped" ELSE "closed"
                         [] OTHER -> te
            BY <1>10 DEF TakerReceives, fileVars, envVars
        <3>2. Make # Destroy
            BY MessageKinds
        <3>3. /\ Head(wire) = Make => te' = "pending"
              /\ te' = "none" => te = "none"
            BY <3>1, <3>2
        <3> QED BY <1>0, <3>1, <3>3
    <2>2. \A p : InSeq(wire, p) <=> Head(wire) = p \/ InSeq(Tail(wire), p)
        BY <1>0, <2>1, InSeqFacts
    <2>3. te' # "none" /\ ~InSeq(wire', Make) /\ ~InSeq(queue', Make)
        <3>1. CASE te = "none"
            BY <1>0, <2>1, <3>1 DEF FirstIsMake
        <3>2. CASE te # "none"
            BY <1>0, <2>1, <2>2, <3>2
        <3> QED BY <3>1, <3>2
    <2> QED BY <1>0, <2>1, <2>3 DEF MadeFirst
<1>11. CASE SendBlock
    <2>1. PICK n \in Nat : queue' = Append(queue, Block(count, n))
        BY <1>11, FileFacts, StreamAssumption DEF SendBlock, IInv
    <2>2. UNCHANGED <<wire, te, up, mk, me>> /\ me # "none"
        BY <1>11 DEF SendBlock, peerVars, chanVars, envVars
    <2>3. Block(count, n) \in Messages /\ Block(count, n) # Make
        BY MessageKinds, FileFacts DEF IInv
    <2>4. /\ InSeq(queue', Make) => InSeq(queue, Make)
          /\ FirstIsMake(queue) => FirstIsMake(queue')
        BY <1>0, <2>1, <2>3, InSeqFacts, AppendFacts
    <2> QED BY <1>0, <2>2, <2>4 DEF MadeFirst
<1>12. CASE LinkFails
    BY <1>0, <1>12 DEF MadeFirst, LinkFails, peerVars, chanVars
<1>13. CASE MakerLoses
    BY <1>0, <1>13 DEF MadeFirst, MakerLoses
<1>14. CASE TakerLoses
    BY <1>0, <1>14 DEF MadeFirst, TakerLoses, netVars
<1> QED BY <1>1, <1>3, <1>4, <1>5, <1>6, <1>8, <1>9, <1>10, <1>11, <1>12, <1>13, <1>14, Steps

LEMMA ContiguousStep ==
    ASSUME IInv, [Next]_vars
    PROVE  Contiguous'
<1>0. PICK in \in 0 .. file.bytes, out \in 0 .. file.bytes : Flow(in, out)
    BY DEF IInv, Contiguous
<1>1. /\ receiver # "full" => Runs(rx, Len(got), in)
      /\ up /\ te \in {"none", "pending", "open"} => Runs(wire, in, out)
      /\ sender # "killed" => out = count
      /\ \/ Plain(queue)
         \/ /\ sender \in {"queued", "killed"}
            /\ \E n \in out + 1 .. file.bytes : OneBlock(queue, out, n)
      /\ sender = "queued" => ~Plain(queue)
    BY <1>0 DEF Flow
<1>2. /\ queue \in Seq(Messages) /\ wire \in Seq(Messages) /\ rx \in Seq(Blocks) /\ rx \in Seq(Messages)
      /\ ~up => wire = <<>>
      /\ in \in Nat /\ out \in Nat /\ count \in Nat /\ file.bytes \in Nat
    <2>1. rx \in Seq(Blocks) => rx \in Seq(Messages)
        BY SeqMonotonic DEF Messages
    <2> QED BY <2>1, FileFacts DEF IInv, Pipes
\* The steps that move no bytes.
<1>3. ASSUME UNCHANGED <<rx, got, wire, queue, up, count, file>>,
             receiver' # "full" => receiver # "full",
             te' \in {"none", "pending", "open"} => te \in {"none", "pending", "open"},
             \/ sender' = sender
             \/ /\ sender # "killed" /\ sender' # "queued"
                /\ sender = "queued" => sender' = "killed"
      PROVE  Contiguous'
    <2>1. Flow(in, out)'
        BY <1>1, <1>3 DEF Flow
    <2> QED BY <1>3, <2>1 DEF Contiguous
<1>4. CASE InterruptCall \/ Take \/ Reject \/ InterruptWaiter \/ MethodEnds \/ TakerDrops
           \/ ReceivingEnds \/ KillReceiver \/ TakerLoses \/ UNCHANGED vars
    <2>1. UNCHANGED <<rx, got, wire, queue, up, count, file, sender>>
        BY <1>4 DEF InterruptCall, Take, Reject, InterruptWaiter, MethodEnds, TakerDrops,
           ReceivingEnds, KillReceiver, TakerLoses, vars, peerVars, chanVars, netVars, fileVars, envVars
    <2>2. /\ receiver' # "full" => receiver # "full"
          /\ te' \in {"none", "pending", "open"} => te \in {"none", "pending", "open"}
        <3>1. CASE Take \/ ReceivingEnds \/ KillReceiver
            <4>1. CASE ReceivingEnds \/ KillReceiver
                BY <4>1 DEF ReceivingEnds, KillReceiver, chanVars
            <4>2. CASE Take
                <5>1. receiver = "idle"
                    BY <4>2 DEF Take, IInv, Confirmations
                <5> QED BY <4>2, <5>1 DEF Take
            <4> QED BY <3>1, <4>1, <4>2
        <3>2. CASE ~(Take \/ ReceivingEnds \/ KillReceiver)
            BY <1>4, <3>2 DEF InterruptCall, Reject, InterruptWaiter, MethodEnds, TakerDrops,
               TakerLoses, vars, chanVars, fileVars
        <3> QED BY <3>1, <3>2
    <2> QED BY <1>3, <2>1, <2>2
<1>5. CASE SenderStarts \/ SenderReady \/ SendingEnds \/ Confirmed \/ KillSender
    <2>1. UNCHANGED <<rx, got, wire, queue, up, count, file, receiver, te>>
        BY <1>5 DEF SenderStarts, SenderReady, SendingEnds, Confirmed, KillSender,
           peerVars, chanVars, netVars, envVars
    <2>2. /\ sender # "killed" /\ sender' # "queued"
          /\ sender = "queued" => sender' = "killed"
        BY <1>5 DEF SenderStarts, SenderReady, SendingEnds, Confirmed, KillSender, Sending
    <2> QED BY <1>3, <2>1, <2>2
<1>6. CASE MakeStream \/ CannotPack
    <2>1. queue = <<>>
        BY <1>6 DEF MakeStream, CannotPack, IInv, MadeFirst
    <2>2. Plain(queue')
        <3>1. queue' = <<Make, Announce>> \/ queue' = <<Make>>
            BY <1>6, <2>1 DEF MakeStream, CannotPack
        <3>2. Plain(<<Make, Announce>>) /\ Plain(<<Make>>)
            BY MessageKinds DEF Plain
        <3> QED BY <3>1, <3>2
    <2>3. sender # "queued"
        BY <1>1, <2>1 DEF Plain
    <2>4. UNCHANGED <<rx, got, wire, up, count, file, receiver, te, sender>>
        BY <1>6 DEF MakeStream, CannotPack, fileVars, envVars
    <2>5. Flow(in, out)'
        BY <1>1, <2>2, <2>3, <2>4 DEF Flow
    <2> QED BY <2>4, <2>5 DEF Contiguous
<1>7. CASE Written
    <2>1. /\ queue # <<>> /\ queue' = Tail(queue)
          /\ wire' = IF up THEN Append(wire, Head(queue)) ELSE wire
          /\ UNCHANGED <<te, up, rx, got, receiver, file>>
          /\ IF Head(queue).kind = "block" /\ sender = "queued"
             THEN sender' = "reading" /\ count' = count + Len(Head(queue).bytes)
             ELSE UNCHANGED <<sender, count>>
        BY <1>7 DEF Written, chanVars, envVars
    <2>2. Head(queue) \in Messages
        BY <1>2, <2>1, InSeqFacts
    <2>3. CASE Head(queue).kind # "block"
        <3>1. up /\ te \in {"none", "pending", "open"} => Runs(wire', in, out)
            BY <1>1, <1>2, <2>1, <2>2, <2>3, RunsAppend
        <3>2. /\ Plain(queue) => Plain(queue')
              /\ \A n : OneBlock(queue, out, n) => OneBlock(queue', out, n)
            BY <1>2, <2>1, <2>3, TailFacts
        <3>3. sender = "queued" => ~Plain(queue')
            BY <1>1, <3>2, OneIsNotPlain
        <3>4. Flow(in, out)'
            BY <1>1, <2>1, <2>3, <3>1, <3>2, <3>3 DEF Flow
        <3> QED BY <2>1, <3>4 DEF Contiguous
    <2>4. CASE Head(queue).kind = "block"
        <3>1. PICK n \in out + 1 .. file.bytes : OneBlock(queue, out, n)
            BY <1>1, <1>2, <2>1, <2>4, TailFacts
        <3>2. Head(queue) = Block(out, n) /\ Plain(queue') /\ sender \in {"queued", "killed"}
            BY <1>1, <1>2, <2>1, <2>4, <3>1, TailFacts
        <3>3. n \in Nat /\ out < n /\ out <= n /\ n \in 0 .. file.bytes
            BY <1>2
        <3>4. up /\ te \in {"none", "pending", "open"} => Runs(wire', in, n)
            BY <1>1, <1>2, <2>1, <2>2, <3>2, <3>3, RunsAppend
        <3>5. sender' # "killed" => n = count'
            <4>1. ASSUME sender = "queued" PROVE n = count'
                <5>1. Len(Head(queue).bytes) = n - out
                    <6>1. Head(queue).bytes = Bytes(out, n)
                        BY <3>2, MessageKinds
                    <6>2. Len(Bytes(out, n)) = n - out
                        BY <1>2, <3>3, BytesFacts
                    <6> QED BY <6>1, <6>2
                <5>2. out = count /\ count' = count + Len(Head(queue).bytes)
                    BY <1>1, <2>1, <2>4, <4>1
                <5> QED BY <1>2, <3>3, <5>1, <5>2
            <4> QED BY <2>1, <3>2, <4>1
        <3>6. sender' # "queued"
            BY <2>1, <2>4
        <3>7. Flow(in, n)'
            BY <1>1, <2>1, <3>2, <3>4, <3>5, <3>6 DEF Flow
        <3> QED BY <2>1, <3>3, <3>7 DEF Contiguous
    <2> QED BY <2>3, <2>4
<1>8. ASSUME UNCHANGED <<rx, got, wire, up, count, file, receiver, te>>,
             Plain(queue'), sender' # "queued", sender' # "killed" => sender # "killed"
      PROVE  Contiguous'
    <2>1. Flow(in, out)'
        BY <1>1, <1>8 DEF Flow
    <2> QED BY <1>8, <2>1 DEF Contiguous
<1>9. CASE MakerReceives
    <2>1. UNCHANGED <<rx, got, wire, up, count, file, receiver, te>>
        BY <1>9 DEF MakerReceives, envVars
    <2>2. CASE UNCHANGED <<queue, sender>>
        BY <1>3, <2>1, <2>2
    <2>3. CASE ~UNCHANGED <<queue, sender>>
        <3>1. /\ queue' \in WithoutBlocks(queue)
              /\ sender' = IF sender = "queued" THEN "unwoken" ELSE sender
            BY <1>9, <2>3 DEF MakerReceives, DropBlocks
        <3>2. Plain(queue')
            BY <1>2, <3>1, WithoutBlocksFacts
        <3> QED BY <1>8, <2>1, <3>1, <3>2
    <2> QED BY <2>2, <2>3
<1>10. CASE MakerDrops
    <2>1. PICK q \in WithoutBlocks(queue) : queue' = Append(q, Destroy)
        BY <1>10 DEF MakerDrops
    <2>2. Plain(queue')
        BY <1>2, <2>1, WithoutBlocksFacts, AppendFacts, MessageKinds
    <2>3. UNCHANGED <<rx, got, wire, up, count, file, receiver, te, sender>> /\ sender # "queued"
        BY <1>10 DEF MakerDrops, fileVars, envVars, Sending
    <2> QED BY <1>8, <2>2, <2>3
<1>11. CASE MakerLoses
    <2>1. Plain(queue')
        BY <1>11 DEF MakerLoses, Plain
    <2>2. UNCHANGED <<rx, got, wire, up, count, file, receiver, te>>
        BY <1>11 DEF MakerLoses
    <2>3. sender' # "queued" /\ (sender' # "killed" => sender # "killed")
        BY <1>11 DEF MakerLoses
    <2> QED BY <1>8, <2>1, <2>2, <2>3
<1>12. CASE TakerReceives
    <2>1. /\ wire # <<>> /\ wire' = Tail(wire)
          /\ UNCHANGED <<queue, sender, receiver, count, got, file, up>>
          /\ te' \in {"none", "pending", "open"} => te \in {"none", "pending", "open"} \/ Head(wire) = Make
          /\ rx' = IF te \in {"pending", "open"} /\ Head(wire).kind = "block" THEN Append(rx, Head(wire)) ELSE rx
        BY <1>12 DEF TakerReceives, fileVars, envVars
    <2>2. Head(wire) \in Messages /\ up /\ InSeq(wire, Head(wire))
        BY <1>2, <2>1, InSeqFacts
    <2>3. te = "none" => Head(wire) = Make
        BY <2>1, <2>2 DEF IInv, MadeFirst, FirstIsMake
    <2>4. Head(wire) = Make => te = "none"
        BY <2>2 DEF IInv, MadeFirst
    <2>5. CASE te \in {"pending", "open"} /\ Head(wire).kind = "block"
        <3>1. PICK k \in in + 1 .. out : Head(wire) = Block(in, k) /\ Runs(Tail(wire), k, out)
            BY <1>1, <1>2, <2>1, <2>2, <2>5, RunsTail
        <3>2. k \in Nat /\ in < k /\ k \in 0 .. file.bytes
            BY <1>2
        <3>3. receiver # "full" => Runs(rx', Len(got), k)
            <4>1. ASSUME receiver # "full" PROVE Runs(rx', Len(got), k)
                <5>1. Runs(rx, Len(got), in) /\ Len(got) \in Nat
                    BY <1>1, <4>1 DEF IInv, TypeOK, Received, Runs
                <5> QED BY <1>2, <2>1, <2>2, <2>5, <3>1, <3>2, <5>1, RunsAppend
            <4> QED BY <4>1
        <3>4. Flow(k, out)'
            BY <1>1, <2>1, <3>1, <3>3 DEF Flow
        <3> QED BY <2>1, <3>2, <3>4 DEF Contiguous
    <2>6. CASE ~(te \in {"pending", "open"} /\ Head(wire).kind = "block")
        <3>1. up /\ te' \in {"none", "pending", "open"} => Runs(wire', in, out)
            <4>1. ASSUME te' \in {"none", "pending", "open"} PROVE Runs(wire', in, out)
                <5>1. te \in {"none", "pending", "open"}
                    BY <2>1, <2>4, <4>1
                <5>2. Head(wire).kind # "block"
                    BY <2>3, <2>6, <5>1, MessageKinds
                <5> QED BY <1>1, <1>2, <2>1, <2>2, <5>1, <5>2, RunsTail
            <4> QED BY <4>1
        <3>2. Flow(in, out)'
            BY <1>1, <2>1, <2>6, <3>1 DEF Flow
        <3> QED BY <2>1, <3>2 DEF Contiguous
    <2> QED BY <2>5, <2>6
<1>13. CASE SendBlock
    <2>1. PICK n \in count + 1 .. file.bytes : queue' = Append(queue, Block(count, n))
        BY <1>2, <1>13, StreamAssumption DEF SendBlock
    <2>2. /\ UNCHANGED <<rx, got, wire, up, count, file, receiver, te>>
          /\ sender = "reading" /\ sender' = "queued"
        BY <1>13 DEF SendBlock, peerVars, chanVars, envVars
    <2>3. out = count /\ Plain(queue)
        BY <1>1, <2>2
    <2>4. n \in Nat /\ Block(count, n) \in Messages
        BY <1>2, MessageKinds
    <2>5. OneBlock(queue', out, n)
        BY <1>2, <2>1, <2>3, <2>4, AppendFacts
    <2>6. ~Plain(queue')
        BY <2>5, OneIsNotPlain
    <2>7. Flow(in, out)'
        BY <1>1, <2>1, <2>2, <2>3, <2>5, <2>6 DEF Flow
    <2> QED BY <2>2, <2>7 DEF Contiguous
<1>14. CASE ReceiveBlock
    <2>1. /\ receiver = "receiving" /\ rx # <<>> /\ rx' = Tail(rx)
          /\ got' = got \o Head(rx).bytes
          /\ UNCHANGED <<wire, up, count, file, te, sender, queue>>
        BY <1>14 DEF ReceiveBlock, netVars, envVars
    <2>2. Runs(rx', Len(got'), in)
        BY <1>1, <2>1, NextBlock
    <2>3. Flow(in, out)'
        BY <1>1, <2>1, <2>2 DEF Flow
    <2> QED BY <2>1, <2>3 DEF Contiguous
<1>15. CASE DiskFull
    <2>1. UNCHANGED <<wire, up, count, file, te, sender, queue>> /\ receiver' = "full"
        BY <1>15 DEF DiskFull, netVars, envVars
    <2>2. Flow(in, out)'
        BY <1>1, <2>1 DEF Flow
    <2> QED BY <2>1, <2>2 DEF Contiguous
<1>16. CASE LinkFails
    <2>1. UNCHANGED <<rx, got, queue, count, file, te, sender, receiver>> /\ ~up'
        BY <1>16 DEF LinkFails, chanVars, fileVars
    <2>2. Flow(in, out)'
        BY <1>1, <2>1 DEF Flow
    <2> QED BY <2>1, <2>2 DEF Contiguous
<1> QED BY <1>4, <1>5, <1>6, <1>7, <1>9, <1>10, <1>11, <1>12, <1>13, <1>14, <1>15, <1>16, Steps

LEMMA ReceivedStep ==
    ASSUME IInv, [Next]_vars
    PROVE  Received'
<1>0. /\ got = Bytes(0, Len(got))
      /\ receiver = "idle" => got = <<>>
      /\ receiver = "receiving" => file.size # 0
      /\ receiver = "ok" => Len(got) = file.size /\ (file.size = 0 \/ file.hash # "wrong")
    BY DEF IInv, Received
<1>1. CASE UNCHANGED <<got, receiver, file>>
    BY <1>0, <1>1 DEF Received
<1>2. CASE Take
    <2>1. receiver = "idle" /\ got = <<>>
        BY <1>0, <1>2 DEF Take, IInv, Confirmations
    <2>2. UNCHANGED <<got, file>> /\ receiver' \in {"idle", IF file.size = 0 THEN "ok" ELSE "receiving"}
        BY <1>2, <2>1 DEF Take, envVars
    <2> QED BY <1>0, <2>1, <2>2 DEF Received
<1>3. CASE ReceiveBlock
    <2>1. got' = got \o Head(rx).bytes /\ got' = Bytes(0, Len(got')) /\ UNCHANGED file
        BY <1>3, NextBlock DEF ReceiveBlock, envVars
    <2>2. /\ receiver' \in {"ok", "failed", "receiving"}
          /\ receiver' = "ok" => Len(got') = file.size /\ file.hash # "wrong"
        BY <1>3 DEF ReceiveBlock, Verdict
    <2>3. file.size # 0
        BY <1>0, <1>3 DEF ReceiveBlock
    <2> QED BY <2>1, <2>2, <2>3 DEF Received
<1>4. CASE DiskFull \/ ReceivingEnds \/ KillReceiver
    <2>1. UNCHANGED <<got, file>>
        BY <1>4 DEF DiskFull, ReceivingEnds, KillReceiver, envVars
    <2>2. /\ receiver' \in {"ok", "failed", "full", "killed"}
          /\ receiver' = "ok" => Len(got) = file.size /\ file.hash # "wrong"
        BY <1>4 DEF DiskFull, ReceivingEnds, KillReceiver, Verdict
    <2> QED BY <1>0, <2>1, <2>2 DEF Received
<1>5. CASE ~(Take \/ ReceiveBlock \/ DiskFull \/ ReceivingEnds \/ KillReceiver)
    <2>1. UNCHANGED <<got, receiver, file>>
        <3>1. CASE \/ MakeStream \/ CannotPack \/ InterruptCall \/ Reject \/ InterruptWaiter
                   \/ MethodEnds \/ Written \/ MakerReceives \/ TakerReceives \/ MakerDrops \/ TakerDrops
            BY <3>1 DEF MakeStream, CannotPack, InterruptCall, Reject, InterruptWaiter, MethodEnds,
               Written, MakerReceives, TakerReceives, MakerDrops, TakerDrops, fileVars, envVars
        <3>2. CASE \/ SenderStarts \/ SenderReady \/ SendBlock \/ SendingEnds \/ Confirmed \/ KillSender
                   \/ LinkFails \/ MakerLoses \/ TakerLoses \/ UNCHANGED vars
            BY <3>2 DEF SenderStarts, SenderReady, SendBlock, SendingEnds, Confirmed, KillSender,
               LinkFails, MakerLoses, TakerLoses, vars, fileVars, envVars
        <3> QED BY <1>5, <3>1, <3>2, Steps
    <2> QED BY <1>1, <2>1
<1> QED BY <1>2, <1>3, <1>4, <1>5

\* An excuse stays one.
LEMMA ExcusedStays ==
    ASSUME IInv, [Next]_vars, Excused
    PROVE  Excused'
<1>1. CASE Done
    <2>1. CASE UNCHANGED <<receiver, got, file>>
        BY <1>1, <2>1 DEF Done, Excused
    <2>2. receiver \notin {"idle", "receiving"}
        BY <1>1 DEF Done
    <2>3. UNCHANGED <<receiver, got, file>>
        <3>1. ~Take /\ ~ReceiveBlock /\ ~DiskFull /\ ~ReceivingEnds /\ ~KillReceiver
            BY <2>2 DEF Take, ReceiveBlock, DiskFull, ReceivingEnds, KillReceiver, IInv, Confirmations
        <3>2. CASE \/ MakeStream \/ CannotPack \/ InterruptCall \/ Reject \/ InterruptWaiter
                   \/ MethodEnds \/ Written \/ MakerReceives \/ TakerReceives \/ MakerDrops \/ TakerDrops
            BY <3>2 DEF MakeStream, CannotPack, InterruptCall, Reject, InterruptWaiter, MethodEnds,
               Written, MakerReceives, TakerReceives, MakerDrops, TakerDrops, fileVars, envVars
        <3>3. CASE \/ SenderStarts \/ SenderReady \/ SendBlock \/ SendingEnds \/ Confirmed \/ KillSender
                   \/ LinkFails \/ MakerLoses \/ TakerLoses \/ UNCHANGED vars
            BY <3>3 DEF SenderStarts, SenderReady, SendBlock, SendingEnds, Confirmed, KillSender,
               LinkFails, MakerLoses, TakerLoses, vars, fileVars, envVars
        <3> QED BY <3>1, <3>2, <3>3, Steps
    <2> QED BY <2>1, <2>3
<1>2. CASE Over
    <2>1. me = "closed" /\ sender \notin {"waiting", "reading", "queued", "confirming", "ok"}
        BY <1>2 DEF Over, Sending
    <2>2. UNCHANGED <<me, sender>>
        <3>1. CASE \/ CannotPack \/ MakeStream \/ SenderStarts \/ SenderReady \/ SendBlock \/ SendingEnds
                   \/ Confirmed \/ KillSender \/ MakerDrops
            <4>1. mk # "idle"
                BY <2>1 DEF IInv, MadeFirst
            <4> QED BY <2>1, <3>1, <4>1 DEF CannotPack, MakeStream, SenderStarts, SenderReady, SendBlock,
                       SendingEnds, Confirmed, KillSender, MakerDrops, Sending
        <3>2. CASE \/ InterruptCall \/ Take \/ Reject \/ InterruptWaiter \/ MethodEnds
                   \/ TakerReceives \/ TakerDrops \/ ReceiveBlock \/ DiskFull \/ ReceivingEnds
                   \/ KillReceiver \/ LinkFails \/ TakerLoses \/ UNCHANGED vars
            BY <3>2 DEF InterruptCall, Take, Reject, InterruptWaiter, MethodEnds, TakerReceives, TakerDrops,
               ReceiveBlock, DiskFull, ReceivingEnds, KillReceiver, LinkFails, TakerLoses,
               vars, peerVars, chanVars, fileVars, envVars
        <3>3. CASE Written \/ MakerReceives \/ MakerLoses
            BY <2>1, <3>3 DEF Written, MakerReceives, MakerLoses, chanVars
        <3> QED BY <3>1, <3>2, <3>3, Steps
    <2> QED BY <1>2, <2>2 DEF Over, Excused
<1>3. CASE file.size = 0
    <2>1. UNCHANGED file
        <3>1. CASE \/ MakeStream \/ CannotPack \/ InterruptCall \/ Reject \/ InterruptWaiter \/ Take
                   \/ MethodEnds \/ Written \/ MakerReceives \/ TakerReceives \/ MakerDrops \/ TakerDrops
            BY <3>1 DEF MakeStream, CannotPack, InterruptCall, Reject, InterruptWaiter, MethodEnds, Take,
               Written, MakerReceives, TakerReceives, MakerDrops, TakerDrops, envVars
        <3>2. CASE \/ SenderStarts \/ SenderReady \/ SendBlock \/ SendingEnds \/ Confirmed \/ KillSender
                   \/ ReceiveBlock \/ DiskFull \/ ReceivingEnds \/ KillReceiver
                   \/ LinkFails \/ MakerLoses \/ TakerLoses \/ UNCHANGED vars
            BY <3>2 DEF SenderStarts, SenderReady, SendBlock, SendingEnds, Confirmed, KillSender,
               ReceiveBlock, DiskFull, ReceivingEnds, KillReceiver,
               LinkFails, MakerLoses, TakerLoses, vars, envVars
        <3> QED BY <3>1, <3>2, Steps
    <2> QED BY <1>3, <2>1 DEF Excused
<1> QED BY <1>1, <1>2, <1>3 DEF Excused


\* What first tells one side that the other is done comes with an excuse.
LEMMA FirstEnd ==
    ASSUME IInv, [Next]_vars, up', ~Ended, Ended'
    PROVE  Excused'
<1>0. /\ queue \in Seq(Messages) /\ wire \in Seq(Messages) /\ back \in Seq({"answer", "destroy"})
      /\ receiver \in {"idle", "receiving", "ok", "failed", "full", "killed"}
      /\ file.size \in Nat
      /\ me # "closed" /\ te # "closed" /\ sender # "ok" /\ receiver # "failed"
      /\ ~InSeq(wire, Destroy) /\ ~InSeq(queue, Destroy) /\ ~InSeq(back, "destroy")
    BY FileFacts DEF IInv, TypeOK, Pipes, Ended
<1>1. ASSUME me' # "closed", te' # "closed", sender' # "ok", receiver' # "failed",
             ~InSeq(wire', Destroy), ~InSeq(queue', Destroy), ~InSeq(back', "destroy")
      PROVE  FALSE
    BY <1>1 DEF Ended
<1>2. CASE MakeStream \/ CannotPack
    <2>1. UNCHANGED <<te, sender, receiver, wire, back>> /\ me' = "open"
        BY <1>2 DEF MakeStream, CannotPack, fileVars
    <2>2. queue' = <<Make, Announce>> \/ queue' = <<Make>>
        <3>1. queue = <<>>
            BY <1>2 DEF MakeStream, CannotPack, IInv, MadeFirst
        <3> QED BY <1>2, <3>1 DEF MakeStream, CannotPack
    <2>3. ~InSeq(<<Make, Announce>>, Destroy) /\ ~InSeq(<<Make>>, Destroy)
        BY MessageKinds DEF InSeq
    <2> QED BY <1>0, <1>1, <2>1, <2>2, <2>3
<1>3. CASE \/ InterruptCall \/ Take \/ Reject \/ InterruptWaiter \/ SenderReady \/ SendingEnds
           \/ KillSender \/ DiskFull \/ KillReceiver \/ UNCHANGED vars
    <2>1. UNCHANGED <<me, queue, wire, back>>
        BY <1>3 DEF InterruptCall, Take, Reject, InterruptWaiter, SenderReady, SendingEnds, KillSender,
           DiskFull, KillReceiver, vars, chanVars, netVars
    <2>2. te' \in {te, "open"}
        BY <1>3 DEF InterruptCall, Take, Reject, InterruptWaiter, SenderReady, SendingEnds, KillSender,
           DiskFull, KillReceiver, vars, chanVars
    <2>3. sender' # "ok"
        BY <1>0, <1>3 DEF InterruptCall, Take, Reject, InterruptWaiter, SenderReady, SendingEnds,
           KillSender, DiskFull, KillReceiver, vars, fileVars
    <2>4. receiver' # "failed"
        BY <1>0, <1>3 DEF InterruptCall, Take, Reject, InterruptWaiter, SenderReady, SendingEnds,
           KillSender, DiskFull, KillReceiver, vars, fileVars
    <2> QED BY <1>0, <1>1, <2>1, <2>2, <2>3, <2>4
<1>4. CASE SenderStarts
    <2>1. UNCHANGED <<me, te, receiver, wire, queue, back, file>>
        BY <1>4 DEF SenderStarts, chanVars, netVars, envVars
    <2>2. sender' = "ok" => file.size = 0
        BY <1>4 DEF SenderStarts
    <2> QED BY <1>0, <1>1, <2>1, <2>2 DEF Excused
<1>5. CASE MethodEnds
    <2>1. UNCHANGED <<me, te, sender, receiver, wire, queue>> /\ back' \in {back, Append(back, "answer")}
        BY <1>5 DEF MethodEnds, chanVars, fileVars
    <2>2. ~InSeq(Append(back, "answer"), "destroy")
        <3> DEFINE S == {"answer", "destroy"}
        <3>1. back \in Seq(S) /\ "answer" \in S
            BY <1>0
        <3> HIDE DEF S
        <3> QED BY <1>0, <3>1, InSeqFacts
    <2> QED BY <1>0, <1>1, <2>1, <2>2
<1>6. CASE SendBlock
    <2>1. PICK n \in Nat : queue' = Append(queue, Block(count, n))
        BY <1>6, FileFacts, StreamAssumption DEF SendBlock, IInv
    <2>2. UNCHANGED <<me, te, receiver, wire, back>> /\ sender' = "queued"
        BY <1>6 DEF SendBlock, chanVars
    <2>3. Block(count, n) \in Messages /\ Block(count, n) # Destroy
        BY FileFacts, MessageKinds DEF IInv
    <2>4. ~InSeq(queue', Destroy)
        BY <1>0, <2>1, <2>3, InSeqFacts
    <2> QED BY <1>0, <1>1, <2>2, <2>4
<1>7. CASE Written
    <2>1. /\ queue # <<>> /\ queue' = Tail(queue)
          /\ wire' \in {wire, Append(wire, Head(queue))}
          /\ sender' \in {sender, "reading"}
          /\ UNCHANGED <<me, te, receiver, back>>
        BY <1>7 DEF Written, chanVars
    <2>2. Head(queue) \in Messages /\ Head(queue) # Destroy /\ ~InSeq(queue', Destroy)
        BY <1>0, <2>1, InSeqFacts
    <2>3. ~InSeq(Append(wire, Head(queue)), Destroy)
        BY <1>0, <2>2, InSeqFacts
    <2> QED BY <1>0, <1>1, <2>1, <2>2, <2>3
<1>8. CASE MakerReceives
    <2>1. back # <<>> /\ back' = Tail(back) /\ UNCHANGED <<te, wire, receiver>>
        BY <1>8 DEF MakerReceives
    <2>2. Head(back) = "answer" /\ ~InSeq(back', "destroy")
        BY <1>0, <2>1, InSeqFacts
    <2>3. UNCHANGED <<me, queue, sender>>
        BY <1>8, <2>2 DEF MakerReceives
    <2> QED BY <1>0, <1>1, <2>1, <2>2, <2>3
<1>9. CASE TakerReceives
    <2>1. wire # <<>> /\ wire' = Tail(wire) /\ UNCHANGED <<me, queue, back, sender, receiver>>
        BY <1>9 DEF TakerReceives, fileVars
    <2>2. Head(wire) # Destroy /\ ~InSeq(wire', Destroy)
        BY <1>0, <2>1, InSeqFacts
    <2>3. te' # "closed"
        BY <1>0, <1>9, <2>2 DEF TakerReceives
    <2> QED BY <1>0, <1>1, <2>1, <2>2, <2>3
<1>10. CASE MakerDrops
    <2>1. me' = "closed" /\ sender' = sender /\ sender \notin Sending
        BY <1>10 DEF MakerDrops, fileVars
    <2> QED BY <1>0, <2>1 DEF Excused, Over
<1>11. CASE TakerDrops
    <2>1. tk = "done" /\ UNCHANGED <<receiver, got, file>>
        BY <1>11 DEF TakerDrops, fileVars, envVars
    <2>2. receiver \in {"ok", "full", "killed"}
        BY <1>0, <2>1 DEF IInv, Confirmations
    <2>3. receiver = "ok" => Len(got) >= file.size
        BY <1>0 DEF IInv, Received
    <2> QED BY <2>1, <2>2, <2>3 DEF Excused, Done
<1>12. CASE ReceiveBlock
    <2>1. UNCHANGED <<me, te, queue, wire, back, sender, file>>
        BY <1>12 DEF ReceiveBlock, netVars, envVars
    <2>2. receiver' = "failed" => Len(got') >= file.size
        BY <1>12 DEF ReceiveBlock
    <2> QED BY <1>0, <1>1, <2>1, <2>2 DEF Excused, Done
<1>13. CASE Confirmed \/ ReceivingEnds \/ LinkFails \/ MakerLoses \/ TakerLoses
    <2>1. ~Confirmed /\ ~ReceivingEnds
        BY <1>0 DEF Confirmed, ReceivingEnds
    <2>2. ~LinkFails /\ ~MakerLoses /\ ~TakerLoses
        BY DEF LinkFails, MakerLoses, TakerLoses
    <2> QED BY <1>13, <2>1, <2>2
<1> QED BY <1>2, <1>3, <1>4, <1>5, <1>6, <1>7, <1>8, <1>9, <1>10, <1>11, <1>12, <1>13, Steps

LEMMA UpStays ==
    ASSUME [Next]_vars, up'
    PROVE  up
<1>1. CASE \/ MakeStream \/ CannotPack \/ InterruptCall \/ Reject \/ InterruptWaiter \/ Take
           \/ MethodEnds \/ Written \/ MakerReceives \/ TakerReceives \/ MakerDrops \/ TakerDrops
    BY <1>1 DEF MakeStream, CannotPack, InterruptCall, Reject, InterruptWaiter, MethodEnds, Take,
       Written, MakerReceives, TakerReceives, MakerDrops, TakerDrops, envVars
<1>2. CASE \/ SenderStarts \/ SenderReady \/ SendBlock \/ SendingEnds \/ Confirmed \/ KillSender
           \/ ReceiveBlock \/ DiskFull \/ ReceivingEnds \/ KillReceiver
           \/ LinkFails \/ MakerLoses \/ TakerLoses \/ UNCHANGED vars
    BY <1>2 DEF SenderStarts, SenderReady, SendBlock, SendingEnds, Confirmed, KillSender,
       ReceiveBlock, DiskFull, ReceivingEnds, KillReceiver,
       LinkFails, MakerLoses, TakerLoses, vars, envVars
<1> QED BY <1>1, <1>2, Steps

LEMMA ConfirmationsStep ==
    ASSUME IInv, [Next]_vars
    PROVE  Confirmations'
<1>0. /\ up /\ Ended => Excused
      /\ tk = "done" => receiver \notin {"idle", "receiving"}
      /\ receiver # "idle" => tk \in {"taken", "done"}
    BY DEF IInv, Confirmations
<1>1. up' /\ Ended' => Excused'
    BY <1>0, UpStays, FirstEnd, ExcusedStays
<1>2. /\ tk' = "done" => receiver' \notin {"idle", "receiving"}
      /\ receiver' # "idle" => tk' \in {"taken", "done"}
    <2>1. CASE UNCHANGED <<tk, receiver>>
        BY <1>0, <2>1
    <2>2. CASE Take
        <3>1. receiver' \in {receiver, "ok", "receiving"} /\ tk = "told"
            BY <2>2 DEF Take
        <3>2. (tk' = "taken") \/ (tk' = "refused" /\ receiver' = receiver)
            BY <2>2 DEF Take
        <3> QED BY <1>0, <3>1, <3>2
    <2>3. CASE Reject \/ InterruptWaiter \/ TakerLoses \/ TakerReceives
        <3>1. tk' # "done" \/ tk' = tk
            BY <2>3 DEF Reject, InterruptWaiter, TakerLoses, TakerReceives
        <3>2. tk' = tk \/ tk \notin {"taken", "done"}
            BY <2>3 DEF Reject, InterruptWaiter, TakerLoses, TakerReceives
        <3>3. receiver' = receiver
            BY <2>3 DEF Reject, InterruptWaiter, TakerLoses, TakerReceives, fileVars
        <3> QED BY <1>0, <3>1, <3>2, <3>3
    <2>4. CASE MethodEnds
        BY <2>4 DEF MethodEnds, fileVars
    <2>5. CASE ReceiveBlock \/ DiskFull \/ ReceivingEnds \/ KillReceiver
        <3>1. receiver = "receiving" /\ tk' = tk
            BY <2>5 DEF ReceiveBlock, DiskFull, ReceivingEnds, KillReceiver, peerVars
        <3> QED BY <1>0, <3>1
    <2>6. CASE \/ MakeStream \/ CannotPack \/ InterruptCall \/ Written \/ MakerReceives \/ MakerDrops
               \/ TakerDrops \/ SenderStarts \/ SenderReady \/ SendBlock \/ SendingEnds \/ Confirmed
               \/ KillSender \/ LinkFails \/ MakerLoses \/ UNCHANGED vars
        <3>1. UNCHANGED <<tk, receiver>>
            BY <2>6 DEF MakeStream, CannotPack, InterruptCall, Written, MakerReceives, MakerDrops,
               TakerDrops, SenderStarts, SenderReady, SendBlock, SendingEnds, Confirmed, KillSender,
               LinkFails, MakerLoses, vars, peerVars, fileVars
        <3> QED BY <2>1, <3>1
    <2> QED BY <2>2, <2>3, <2>4, <2>5, <2>6, Steps
<1> QED BY <1>1, <1>2 DEF Confirmations

LEMMA InitInv ==
    ASSUME Init
    PROVE  IInv
<1>1. TypeOK
    <2>1. <<>> \in Seq({"answer", "destroy"}) /\ Len(<<>>) = 0
        OBVIOUS
    <2>2. file.bytes \in Nat
        BY StreamAssumption DEF Init, Files
    <2>3. count \in 0 .. file.bytes /\ Len(got) <= file.bytes
        BY <2>1, <2>2 DEF Init
    <2>4. back \in Seq({"answer", "destroy"}) /\ (ready <=> mk \notin {"idle", "sending", "unwoken"})
        BY <2>1 DEF Init
    <2> QED BY <2>3, <2>4 DEF Init, TypeOK
<1>2. Pipes
    BY DEF Init, Pipes
<1>3. MadeFirst
    BY DEF Init, MadeFirst
<1>4. Contiguous
    <2>1. 0 \in 0 .. file.bytes
        BY <1>1, FileFacts
    <2>2. Flow(0, 0)
        BY RunsEmpty DEF Init, Flow, Plain
    <2> QED BY <2>1, <2>2 DEF Contiguous
<1>5. Received
    <2>1. Bytes(0, 0) = <<>>
        <3>1. Bytes(0, 0) \in Seq(Nat) /\ Len(Bytes(0, 0)) = 0
            BY BytesFacts
        <3> QED BY <3>1
    <2> QED BY <2>1 DEF Init, Received
<1>6. Confirmations
    <2>1. \A p : ~InSeq(<<>>, p)
        BY DEF InSeq
    <2> QED BY <2>1 DEF Init, Confirmations, Ended
<1> QED BY <1>1, <1>2, <1>3, <1>4, <1>5, <1>6 DEF IInv

\* The inductive invariant of the stream: what is on its way is the file, in order, and
\* nobody is told of the end of the other side without an excuse.
THEOREM Inductive == Spec => []IInv
<1>1. IInv /\ [Next]_vars => IInv'
    BY TypesStep, PipesStep, MadeFirstStep, ContiguousStep, ConfirmationsStep, ReceivedStep DEF IInv
<1> QED BY <1>1, InitInv, PTL DEF Spec

-----------------------------------------------------------------------------
(* The theorems *)

\* For files and blocks of any size, every variable keeps its type: no more is counted as
\* sent or written than the file holds, and the stream is ready exactly when it was
\* announced or can never be (sendfile.py 92-156, base.py 50-52).
THEOREM TypeCorrect == Spec => []TypeOK
<1>1. IInv => TypeOK
    BY DEF IInv
<1> QED BY <1>1, Inductive, PTL

\* For files and blocks of any size, a receiver that succeeds has written the announced
\* number of bytes, in the order of the file, and an announced hash fits, however early
\* the blocks came and whenever the channel was closed (sendfile.py 92-114).
THEOREM FileIsReceived == Spec => []ReceivedIsFile
<1>1. IInv => ReceivedIsFile
    <2>1. ASSUME IInv, receiver = "ok", got # <<>>
          PROVE  file.hash # "wrong"
        <3>1. got = Bytes(0, Len(got)) /\ Len(got) = file.size /\ (file.size = 0 \/ file.hash # "wrong")
            BY <2>1 DEF IInv, Received
        <3>2. Len(Bytes(0, 0)) = 0 /\ Bytes(0, 0) \in Seq(Nat)
            BY BytesFacts
        <3>3. file.size # 0
            BY <2>1, <3>1, <3>2
        <3> QED BY <3>1, <3>3
    <2> QED BY <2>1 DEF IInv, Received, ReceivedIsFile
<1> QED BY <1>1, Inductive, PTL

\* For files and blocks of any size, a sender that succeeds while the connection holds
\* waited until the receiver was done with the whole file, unless the receiver was killed
\* or could not write (sendfile.py 152-156, "ensure all data sent").
THEOREM SendingIsConfirmed == Spec => []ConfirmedIsReceived
<1>1. IInv => ConfirmedIsReceived
    <2>1. ASSUME IInv, sender = "ok", up, file.size > 0, receiver \notin {"full", "killed"}
          PROVE  receiver \in {"ok", "failed"} /\ Len(got) >= file.size
        <3>1. Excused
            BY <2>1 DEF IInv, Confirmations, Ended
        <3>2. ~Over /\ file.size # 0
            BY <2>1, FileFacts DEF Over, IInv
        <3> QED BY <2>1, <3>1, <3>2 DEF Excused, Done
    <2> QED BY <2>1 DEF ConfirmedIsReceived
<1> QED BY <1>1, Inductive, PTL
=============================================================================
