------------------------- MODULE PyChannelDataProofs -------------------------
(***************************************************************************)
(* Proofs about PyChannel: while both ends of a channel are there, no      *)
(* packet of it is lost, repeated or overtaken.                            *)
(***************************************************************************)
EXTENDS PyChannelProofs

\* No data of channel n is in q, or the channel is made before it comes.
NoData(q, n) == \A i \in DOMAIN q : ~IsData(q[i], n)
MadeFirst(q, n) ==
    \E i \in DOMAIN q :
        q[i] = Command("make", n) /\ \A j \in DOMAIN q : j < i => ~IsData(q[j], n)

-----------------------------------------------------------------------------
(* Lemmas about sequences of packets *)

\* What it takes that the data of a sequence continue from m to n, one packet at a time.
Goes(q, c, m, n) ==
    /\ m <= n
    /\ \A i \in DOMAIN q : IsData(q[i], c) => q[i].num \in m + 1 .. n
    /\ \A k \in m + 1 .. n : \E i \in DOMAIN q : IsData(q[i], c) /\ q[i].num = k
    /\ \A i, j \in DOMAIN q : IsData(q[i], c) /\ IsData(q[j], c) /\ i < j => q[i].num < q[j].num

LEMMA ContinuesFacts ==
    ASSUME NEW q, NEW c, NEW m, NEW n
    PROVE  Continues(q, c, m, n) <=> Goes(q, c, m, n)
<1> DEFINE data == {i \in DOMAIN q : IsData(q[i], c)}
           nums == {q[i].num : i \in data}
<1>1. nums = m + 1 .. n <=>
         /\ \A i \in data : q[i].num \in m + 1 .. n
         /\ \A k \in m + 1 .. n : \E i \in data : q[i].num = k
    <2> HIDE DEF data
    <2> QED OBVIOUS
<1> QED BY <1>1 DEF Continues, Goes

LEMMA ContinuesEmpty ==
    ASSUME NEW c, NEW m \in Nat
    PROVE  Continues(<<>>, c, m, m)
<1>1. DOMAIN <<>> = {} /\ m + 1 .. m = {} /\ m <= m
    OBVIOUS
<1>2. Goes(<<>>, c, m, m)
    BY <1>1 DEF Goes
<1> QED BY <1>2, ContinuesFacts

LEMMA ContinuesAppend ==
    ASSUME NEW q \in Seq(Packets), NEW x \in Packets, NEW c, NEW m \in Nat, NEW n \in Nat,
           Continues(q, c, m, n)
    PROVE  IF IsData(x, c)
           THEN x.num = n + 1 => Continues(Append(q, x), c, m, n + 1)
           ELSE Continues(Append(q, x), c, m, n)
<1> DEFINE r == Append(q, x)
           l == Len(q)
<1>1. /\ r \in Seq(Packets) /\ l \in Nat
      /\ DOMAIN q = 1 .. l /\ DOMAIN r = 1 .. l + 1
      /\ \A i \in 1 .. l : r[i] = q[i]
      /\ r[l + 1] = x
    OBVIOUS
<1> HIDE DEF r, l
<1>2. /\ m <= n
      /\ \A i \in 1 .. l : IsData(q[i], c) => q[i].num \in m + 1 .. n
      /\ \A k \in m + 1 .. n : \E i \in 1 .. l : IsData(q[i], c) /\ q[i].num = k
      /\ \A i, j \in 1 .. l : IsData(q[i], c) /\ IsData(q[j], c) /\ i < j => q[i].num < q[j].num
    BY <1>1, ContinuesFacts DEF Goes
<1>3. /\ \A i \in 1 .. l + 1 : i \in 1 .. l \/ i = l + 1
      /\ \A i \in 1 .. l : i \in 1 .. l + 1 /\ i < l + 1 /\ ~(l + 1 < i)
      /\ l + 1 \in 1 .. l + 1 /\ ~(l + 1 < l + 1)
    BY <1>1
<1>4. CASE ~IsData(x, c)
    <2>1. /\ \A i \in 1 .. l + 1 : IsData(r[i], c) => r[i].num \in m + 1 .. n
          /\ \A k \in m + 1 .. n : \E i \in 1 .. l + 1 : IsData(r[i], c) /\ r[i].num = k
        BY <1>1, <1>2, <1>3, <1>4
    <2>2. \A i, j \in 1 .. l + 1 : IsData(r[i], c) /\ IsData(r[j], c) /\ i < j => r[i].num < r[j].num
        <3>1. \A i \in 1 .. l + 1 : IsData(r[i], c) => i \in 1 .. l /\ r[i] = q[i]
            BY <1>1, <1>3, <1>4
        <3> QED BY <1>2, <3>1
    <2>3. Continues(r, c, m, n)
        BY <1>1, <1>2, <2>1, <2>2, ContinuesFacts DEF Goes
    <2> QED BY <1>4, <2>3 DEF r
<1>5. CASE IsData(x, c) /\ x.num = n + 1
    <2>1. \A i \in 1 .. l + 1 : IsData(r[i], c) => r[i].num \in m + 1 .. n + 1
        BY <1>1, <1>2, <1>3, <1>5
    <2>2. ASSUME NEW k \in m + 1 .. n + 1 PROVE \E i \in 1 .. l + 1 : IsData(r[i], c) /\ r[i].num = k
        <3>1. k = n + 1 \/ k \in m + 1 .. n
            OBVIOUS
        <3> QED BY <1>1, <1>2, <1>3, <1>5, <3>1
    <2>3. \A i, j \in 1 .. l + 1 : IsData(r[i], c) /\ IsData(r[j], c) /\ i < j => r[i].num < r[j].num
        <3>1. \A i \in 1 .. l : IsData(q[i], c) => q[i].num < n + 1
            BY <1>2
        <3> SUFFICES ASSUME NEW i \in 1 .. l + 1, NEW j \in 1 .. l + 1,
                            IsData(r[i], c), IsData(r[j], c), i < j
                     PROVE  r[i].num < r[j].num
            OBVIOUS
        <3>2. i \in 1 .. l /\ r[i] = q[i]
            BY <1>1, <1>3
        <3>3. CASE j \in 1 .. l
            BY <1>1, <1>2, <3>2, <3>3
        <3>4. CASE j = l + 1
            BY <1>1, <1>5, <3>1, <3>2, <3>4
        <3> QED BY <1>3, <3>3, <3>4
    <2>4. n + 1 \in Nat /\ m <= n + 1
        BY <1>2
    <2>5. Continues(r, c, m, n + 1)
        BY <1>1, <2>1, <2>2, <2>3, <2>4, ContinuesFacts DEF Goes
    <2> QED BY <1>5, <2>5 DEF r
<1> QED BY <1>4, <1>5

LEMMA ContinuesTail ==
    ASSUME NEW q \in Seq(Packets), q # <<>>, NEW c, NEW m \in Nat, NEW n \in Nat,
           Continues(q, c, m, n)
    PROVE  IF IsData(Head(q), c)
           THEN Head(q).num = m + 1 /\ Continues(Tail(q), c, m + 1, n)
           ELSE Continues(Tail(q), c, m, n)
<1> DEFINE r == Tail(q)
           l == Len(r)
<1>1. /\ r \in Seq(Packets) /\ l \in Nat
      /\ DOMAIN q = 1 .. l + 1 /\ DOMAIN r = 1 .. l
      /\ \A i \in 1 .. l : r[i] = q[i + 1]
      /\ q[1] = Head(q)
    OBVIOUS
<1> HIDE DEF r, l
<1>2. /\ m <= n
      /\ \A i \in 1 .. l + 1 : IsData(q[i], c) => q[i].num \in m + 1 .. n
      /\ \A k \in m + 1 .. n : \E i \in 1 .. l + 1 : IsData(q[i], c) /\ q[i].num = k
      /\ \A i, j \in 1 .. l + 1 : IsData(q[i], c) /\ IsData(q[j], c) /\ i < j => q[i].num < q[j].num
    BY <1>1, ContinuesFacts DEF Goes
<1>3. /\ \A i \in 1 .. l + 1 : i = 1 \/ (i - 1 \in 1 .. l /\ r[i - 1] = q[i] /\ 1 < i)
      /\ \A i \in 1 .. l : i + 1 \in 1 .. l + 1 /\ 1 < i + 1
      /\ \A i, j \in 1 .. l : i < j => i + 1 < j + 1
      /\ 1 \in 1 .. l + 1
    BY <1>1
<1>4. \A i, j \in 1 .. l : IsData(r[i], c) /\ IsData(r[j], c) /\ i < j => r[i].num < r[j].num
    <2> SUFFICES ASSUME NEW i \in 1 .. l, NEW j \in 1 .. l, IsData(r[i], c), IsData(r[j], c), i < j
                 PROVE  r[i].num < r[j].num
        OBVIOUS
    <2>1. r[i] = q[i + 1] /\ r[j] = q[j + 1]
        BY <1>1
    <2>2. i + 1 \in 1 .. l + 1 /\ j + 1 \in 1 .. l + 1 /\ i + 1 < j + 1
        BY <1>3
    <2> QED BY <1>2, <2>1, <2>2
<1>5. CASE ~IsData(Head(q), c)
    <2>1. \A i \in 1 .. l : IsData(r[i], c) => r[i].num \in m + 1 .. n
        BY <1>1, <1>2, <1>3
    <2>2. ASSUME NEW k \in m + 1 .. n PROVE \E i \in 1 .. l : IsData(r[i], c) /\ r[i].num = k
        <3>1. PICK i \in 1 .. l + 1 : IsData(q[i], c) /\ q[i].num = k
            BY <1>2
        <3>2. i # 1
            BY <1>1, <1>5, <3>1
        <3> QED BY <1>3, <3>1, <3>2
    <2>3. Continues(r, c, m, n)
        BY <1>1, <1>2, <1>4, <2>1, <2>2, ContinuesFacts DEF Goes
    <2> QED BY <1>5, <2>3 DEF r
<1>6. CASE IsData(Head(q), c)
    <2>1. q[1].num \in m + 1 .. n /\ \A i \in 2 .. l + 1 : IsData(q[i], c) => q[1].num < q[i].num
        BY <1>1, <1>2, <1>3, <1>6
    <2>2. m + 1 \in m + 1 .. n
        BY <2>1
    <2>3. PICK i \in 1 .. l + 1 : IsData(q[i], c) /\ q[i].num = m + 1
        BY <1>2, <2>2
    <2>4. q[1].num = m + 1
        <3>1. i = 1 \/ i \in 2 .. l + 1
            BY <1>1
        <3> QED BY <2>1, <2>3, <3>1
    <2>5. \A j \in 1 .. l : IsData(r[j], c) => r[j].num \in m + 2 .. n
        <3>1. ASSUME NEW j \in 1 .. l, IsData(r[j], c) PROVE r[j].num \in m + 2 .. n
            <4>1. j + 1 \in 1 .. l + 1 /\ j + 1 \in 2 .. l + 1 /\ IsData(q[j + 1], c) /\ r[j].num = q[j + 1].num
                BY <1>1, <3>1
            <4>2. q[j + 1].num \in m + 1 .. n /\ m + 1 < q[j + 1].num
                BY <1>2, <2>1, <2>4, <4>1
            <4> QED BY <4>1, <4>2
        <3> QED BY <3>1
    <2>6. ASSUME NEW k \in m + 2 .. n PROVE \E j \in 1 .. l : IsData(r[j], c) /\ r[j].num = k
        <3>1. k \in m + 1 .. n /\ k # m + 1
            OBVIOUS
        <3>2. PICK j \in 1 .. l + 1 : IsData(q[j], c) /\ q[j].num = k
            BY <1>2, <3>1
        <3>3. j # 1
            BY <2>4, <3>1, <3>2
        <3> QED BY <1>3, <3>2, <3>3
    <2>7. m + 1 \in Nat /\ m + 1 <= n /\ (m + 1) + 1 = m + 2
        BY <2>2
    <2>8. Continues(r, c, m + 1, n)
        BY <1>1, <1>4, <2>5, <2>6, <2>7, ContinuesFacts DEF Goes
    <2> QED BY <1>1, <1>6, <2>4, <2>8 DEF r
<1> QED BY <1>5, <1>6

LEMMA ContinuesConcat ==
    ASSUME NEW q \in Seq(Packets), NEW r \in Seq(Packets), NEW c,
           NEW k \in Nat, NEW m \in Nat, NEW n \in Nat,
           Continues(q, c, k, m), Continues(r, c, m, n)
    PROVE  Continues(q \o r, c, k, n)
<1> DEFINE s == q \o r
           a == Len(q)
           b == Len(r)
<1>1. /\ s \in Seq(Packets) /\ a \in Nat /\ b \in Nat
      /\ DOMAIN q = 1 .. a /\ DOMAIN r = 1 .. b /\ DOMAIN s = 1 .. a + b
      /\ \A i \in 1 .. a + b : s[i] = IF i <= a THEN q[i] ELSE r[i - a]
    OBVIOUS
<1> HIDE DEF s, a, b
<1>2. /\ k <= m
      /\ \A i \in 1 .. a : IsData(q[i], c) => q[i].num \in k + 1 .. m
      /\ \A l \in k + 1 .. m : \E i \in 1 .. a : IsData(q[i], c) /\ q[i].num = l
      /\ \A i, j \in 1 .. a : IsData(q[i], c) /\ IsData(q[j], c) /\ i < j => q[i].num < q[j].num
    BY <1>1, ContinuesFacts DEF Goes
<1>3. /\ m <= n
      /\ \A i \in 1 .. b : IsData(r[i], c) => r[i].num \in m + 1 .. n
      /\ \A l \in m + 1 .. n : \E i \in 1 .. b : IsData(r[i], c) /\ r[i].num = l
      /\ \A i, j \in 1 .. b : IsData(r[i], c) /\ IsData(r[j], c) /\ i < j => r[i].num < r[j].num
    BY <1>1, ContinuesFacts DEF Goes
<1>4. \A i \in 1 .. a + b : \/ i \in 1 .. a /\ s[i] = q[i]
                            \/ i > a /\ i - a \in 1 .. b /\ s[i] = r[i - a]
    BY <1>1
<1>5. /\ \A i \in 1 .. a : i \in 1 .. a + b /\ s[i] = q[i]
      /\ \A i \in 1 .. b : a + i \in 1 .. a + b /\ s[a + i] = r[i]
    <2>1. \A i \in 1 .. b : a + i \in 1 .. a + b /\ ~(a + i <= a) /\ (a + i) - a = i
        BY <1>1
    <2>2. \A i \in 1 .. a : i \in 1 .. a + b /\ i <= a
        BY <1>1
    <2> QED BY <1>1, <2>1, <2>2
<1>6. ASSUME NEW i \in 1 .. a + b, IsData(s[i], c) PROVE s[i].num \in k + 1 .. n
    <2>1. CASE i \in 1 .. a /\ s[i] = q[i]
        <3>1. q[i].num \in k + 1 .. m
            BY <1>2, <1>6, <2>1
        <3> QED BY <1>3, <2>1, <3>1
    <2>2. CASE i > a /\ i - a \in 1 .. b /\ s[i] = r[i - a]
        <3>1. r[i - a].num \in m + 1 .. n
            BY <1>3, <1>6, <2>2
        <3> QED BY <1>2, <2>2, <3>1
    <2> QED BY <1>4, <2>1, <2>2
<1>7. ASSUME NEW l \in k + 1 .. n PROVE \E i \in 1 .. a + b : IsData(s[i], c) /\ s[i].num = l
    <2>1. CASE l \in k + 1 .. m
        BY <1>2, <1>5, <2>1
    <2>2. CASE l \in m + 1 .. n
        <3>1. PICK i \in 1 .. b : IsData(r[i], c) /\ r[i].num = l
            BY <1>3, <2>2
        <3>2. a + i \in 1 .. a + b /\ s[a + i] = r[i]
            BY <1>5
        <3> QED BY <3>1, <3>2
    <2> QED BY <2>1, <2>2
<1>8. ASSUME NEW i \in 1 .. a + b, NEW j \in 1 .. a + b, IsData(s[i], c), IsData(s[j], c), i < j
      PROVE  s[i].num < s[j].num
    <2>1. CASE j \in 1 .. a
        <3>1. i \in 1 .. a /\ s[i] = q[i] /\ s[j] = q[j]
            BY <1>1, <1>5, <1>8, <2>1
        <3> QED BY <1>2, <1>8, <2>1, <3>1
    <2>2. CASE i \in 1 .. a /\ j > a
        <3>1. s[i] = q[i] /\ j - a \in 1 .. b /\ s[j] = r[j - a]
            BY <1>1, <1>4, <1>5, <2>2
        <3>2. q[i].num \in k + 1 .. m /\ r[j - a].num \in m + 1 .. n
            BY <1>2, <1>3, <1>8, <2>2, <3>1
        <3>3. \A x \in k + 1 .. m, y \in m + 1 .. n : x < y
            OBVIOUS
        <3> QED BY <3>1, <3>2, <3>3
    <2>3. CASE i > a
        <3>1. /\ i - a \in 1 .. b /\ j - a \in 1 .. b /\ i - a < j - a
              /\ s[i] = r[i - a] /\ s[j] = r[j - a]
            BY <1>1, <1>8, <2>3
        <3> QED BY <1>3, <1>8, <3>1
    <2> QED BY <1>1, <1>4, <2>1, <2>2, <2>3
<1>9. k <= n
    BY <1>2, <1>3
<1>10. Continues(s, c, k, n)
    BY <1>1, <1>6, <1>7, <1>8, <1>9, ContinuesFacts DEF Goes
<1> QED BY <1>10 DEF s

\* What the removal of the packets of another channel leaves.
LEMMA CleanedData ==
    ASSUME NEW q \in Seq(Packets), NEW n \in Subs, NEW r \in Cleaned(n, q), NEW c, c # n
    PROVE  /\ r \in Seq(Packets)
           /\ \A k, m \in Nat : Continues(q, c, k, m) => Continues(r, c, k, m)
           /\ NoData(q, c) => NoData(r, c)
           /\ MadeFirst(q, c) => MadeFirst(r, c)
<1> DEFINE kept == {i \in DOMAIN q : ~Within(n, q[i])}
           l == Cardinality(kept)
<1>1. PICK f \in Bijection(1 .. l, kept) :
         /\ \A i, j \in DOMAIN f : i < j => f[i] < f[j]
         /\ r = [i \in DOMAIN f |-> q[f[i]]]
    BY DEF Cleaned, Kept
<1>2. /\ DOMAIN f = 1 .. l /\ \A i \in 1 .. l : f[i] \in kept
      /\ \A k \in kept : \E i \in 1 .. l : f[i] = k
    BY DEF Bijection, Injection, Surjection
<1>3. /\ DOMAIN r = 1 .. l
      /\ \A i \in 1 .. l : r[i] = q[f[i]] /\ f[i] \in DOMAIN q
      /\ \A i, j \in 1 .. l : i < j => f[i] < f[j]
      /\ \A k \in DOMAIN q : Within(n, q[k]) \/ \E i \in 1 .. l : f[i] = k /\ r[i] = q[k]
    BY <1>1, <1>2
<1>4. l \in Nat
    <2>1. IsFiniteSet(DOMAIN q)
        BY FS_Interval
    <2> QED BY <2>1, FS_Subset, FS_CardinalityType
<1>5. \A i \in DOMAIN q : i \in Nat
    OBVIOUS
<1> HIDE DEF kept, l
<1>6. /\ \A i \in DOMAIN q : IsData(q[i], c) => ~Within(n, q[i])
      /\ \A i \in DOMAIN q : q[i] = Command("make", c) => ~Within(n, q[i])
    BY DEF IsData, Within, Command
<1>7. r \in Seq(Packets)
    BY CleanedFacts
<1>8. ASSUME NEW k \in Nat, NEW m \in Nat, Continues(q, c, k, m) PROVE Continues(r, c, k, m)
    <2>1. /\ k <= m
          /\ \A i \in DOMAIN q : IsData(q[i], c) => q[i].num \in k + 1 .. m
          /\ \A j \in k + 1 .. m : \E i \in DOMAIN q : IsData(q[i], c) /\ q[i].num = j
          /\ \A i, j \in DOMAIN q : IsData(q[i], c) /\ IsData(q[j], c) /\ i < j => q[i].num < q[j].num
        BY <1>8, ContinuesFacts DEF Goes
    <2>2. \A i \in 1 .. l : IsData(r[i], c) => r[i].num \in k + 1 .. m
        BY <1>3, <2>1
    <2>3. \A j \in k + 1 .. m : \E i \in 1 .. l : IsData(r[i], c) /\ r[i].num = j
        BY <1>3, <1>6, <2>1
    <2>4. ASSUME NEW i \in 1 .. l, NEW j \in 1 .. l, IsData(r[i], c), IsData(r[j], c), i < j
          PROVE  r[i].num < r[j].num
        <3>1. r[i] = q[f[i]] /\ r[j] = q[f[j]] /\ f[i] \in DOMAIN q /\ f[j] \in DOMAIN q
            BY <1>3
        <3>2. f[i] < f[j]
            BY <1>3, <2>4
        <3> QED BY <2>1, <2>4, <3>1, <3>2
    <2> QED BY <1>3, <2>1, <2>2, <2>3, <2>4, ContinuesFacts DEF Goes
<1>9. NoData(q, c) => NoData(r, c)
    BY <1>3 DEF NoData
<1>10. ASSUME MadeFirst(q, c) PROVE MadeFirst(r, c)
    <2>1. PICK k \in DOMAIN q :
             q[k] = Command("make", c) /\ \A j \in DOMAIN q : j < k => ~IsData(q[j], c)
        BY <1>10 DEF MadeFirst
    <2>2. PICK i \in 1 .. l : f[i] = k /\ r[i] = q[k]
        BY <1>3, <1>6, <2>1
    <2>3. ASSUME NEW j \in 1 .. l, j < i PROVE ~IsData(r[j], c)
        BY <1>3, <2>1, <2>2, <2>3
    <2> QED BY <1>3, <2>1, <2>2, <2>3 DEF MadeFirst
<1> QED BY <1>7, <1>8, <1>9, <1>10

LEMMA MadeFirstAppend ==
    ASSUME NEW q \in Seq(Packets), NEW x \in Packets, NEW n
    PROVE  /\ MadeFirst(q, n) => MadeFirst(Append(q, x), n)
           /\ NoData(q, n) /\ x = Command("make", n) => MadeFirst(Append(q, x), n)
           /\ NoData(q, n) /\ ~IsData(x, n) => NoData(Append(q, x), n)
<1> DEFINE r == Append(q, x)
           l == Len(q)
<1>1. /\ l \in Nat /\ DOMAIN q = 1 .. l /\ DOMAIN r = 1 .. l + 1
      /\ \A i \in 1 .. l : r[i] = q[i]
      /\ r[l + 1] = x
    OBVIOUS
<1> HIDE DEF r, l
<1>2. /\ \A i \in 1 .. l + 1 : i \in 1 .. l \/ i = l + 1
      /\ \A i \in 1 .. l : i \in 1 .. l + 1 /\ ~(l + 1 < i)
      /\ \A i \in 1 .. l + 1 : i < l + 1 => i \in 1 .. l
      /\ l + 1 \in 1 .. l + 1
    BY <1>1
<1>3. MadeFirst(q, n) => MadeFirst(r, n)
    <2> SUFFICES ASSUME NEW i \in 1 .. l, q[i] = Command("make", n),
                        \A j \in 1 .. l : j < i => ~IsData(q[j], n)
                 PROVE  MadeFirst(r, n)
        BY <1>1 DEF MadeFirst
    <2>1. i \in 1 .. l + 1 /\ r[i] = Command("make", n) /\ \A j \in 1 .. l + 1 : j < i => ~IsData(r[j], n)
        BY <1>1, <1>2
    <2> QED BY <1>1, <2>1 DEF MadeFirst
<1>4. NoData(q, n) /\ x = Command("make", n) => MadeFirst(r, n)
    BY <1>1, <1>2 DEF NoData, MadeFirst
<1>5. NoData(q, n) /\ ~IsData(x, n) => NoData(r, n)
    BY <1>1, <1>2 DEF NoData
<1> QED BY <1>3, <1>4, <1>5 DEF r

LEMMA MadeFirstTail ==
    ASSUME NEW q \in Seq(Packets), q # <<>>, NEW n
    PROVE  /\ MadeFirst(q, n) => \/ Head(q) = Command("make", n)
                                 \/ MadeFirst(Tail(q), n) /\ ~IsData(Head(q), n)
           /\ NoData(q, n) => NoData(Tail(q), n) /\ ~IsData(Head(q), n)
<1> DEFINE r == Tail(q)
           l == Len(r)
<1>1. /\ l \in Nat /\ DOMAIN q = 1 .. l + 1 /\ DOMAIN r = 1 .. l
      /\ \A i \in 1 .. l : r[i] = q[i + 1]
      /\ q[1] = Head(q)
    OBVIOUS
<1> HIDE DEF r, l
<1>2. /\ \A i \in 1 .. l + 1 : i = 1 \/ (i - 1 \in 1 .. l /\ r[i - 1] = q[i] /\ 1 < i)
      /\ \A i \in 1 .. l : i + 1 \in 1 .. l + 1
      /\ 1 \in 1 .. l + 1
    BY <1>1
<1>3. ASSUME NEW i \in 1 .. l + 1, q[i] = Command("make", n),
             \A j \in 1 .. l + 1 : j < i => ~IsData(q[j], n), i # 1
      PROVE  MadeFirst(r, n) /\ ~IsData(q[1], n)
    <2>1. i - 1 \in 1 .. l /\ r[i - 1] = Command("make", n) /\ 1 < i
        BY <1>2, <1>3
    <2>2. \A j \in 1 .. l : j < i - 1 => ~IsData(r[j], n)
        <3>1. ASSUME NEW j \in 1 .. l, j < i - 1 PROVE ~IsData(r[j], n)
            <4>1. j + 1 \in 1 .. l + 1 /\ j + 1 < i
                BY <1>1, <3>1
            <4> QED BY <1>1, <1>3, <4>1
        <3> QED BY <3>1
    <2> QED BY <1>1, <1>2, <1>3, <2>1, <2>2 DEF MadeFirst
<1>4. MadeFirst(q, n) => Head(q) = Command("make", n) \/ (MadeFirst(r, n) /\ ~IsData(Head(q), n))
    BY <1>1, <1>3 DEF MadeFirst
<1>5. NoData(q, n) => NoData(r, n) /\ ~IsData(Head(q), n)
    BY <1>1, <1>2 DEF NoData
<1> QED BY <1>4, <1>5 DEF r

-----------------------------------------------------------------------------
(* What a step does to the data of a channel *)

\* Nothing has ended yet, though the channel may not be there on both sides.
Alive(c) ==
    up /\ \A s \in Sides : closing[s] = "no" /\ state[s][c] \in {"none", "pending", "open"}

SentStays(s, c) == sent'[s][c] = sent[s][c]
ReceivedStays(s, c) == rx'[Other(s)][c] = rx[Other(s)][c] /\ got'[Other(s)][c] = got[Other(s)][c]

DataStep(s, c) ==
    LET q == queue[s]
        w == wire[Other(s)]
        here == rx[Other(s)][c]
    IN
    \/ /\ QueueStays(s) /\ WritingStays(s) /\ WireStays(s)
       /\ SentStays(s, c) /\ ReceivedStays(s, c)
    \/ /\ \E x \in Packets :
            /\ queue'[s] = Append(q, x)
            /\ IF IsData(x, c)
               THEN Has(s, c) /\ x.num = sent[s][c] + 1 /\ sent'[s][c] = sent[s][c] + 1
               ELSE SentStays(s, c)
       /\ WritingStays(s) /\ WireStays(s) /\ ReceivedStays(s, c)
    \/ /\ q # <<>> /\ writing[s] = NoPacket
       /\ queue'[s] = Tail(q) /\ writing'[s] = Head(q)
       /\ WireStays(s) /\ SentStays(s, c) /\ ReceivedStays(s, c)
    \/ /\ writing[s] # NoPacket /\ writing'[s] = NoPacket /\ wire'[Other(s)] = Append(w, writing[s])
       /\ QueueStays(s) /\ SentStays(s, c) /\ ReceivedStays(s, c)
    \/ /\ w # <<>> /\ wire'[Other(s)] = Tail(w)
       /\ rx'[Other(s)][c] = IF IsData(Head(w), c) /\ Listens(Other(s), c)
                             THEN Append(here, Head(w).num) ELSE here
       /\ got'[Other(s)][c] = got[Other(s)][c]
       /\ QueueStays(s) /\ WritingStays(s) /\ SentStays(s, c)
    \/ /\ \E n \in Subs \ {c} : \/ queue'[s] \in Cleaned(n, q)
                                \/ queue'[s] \in Cleaned(n, Append(q, Command("destroy", n)))
       /\ WritingStays(s) /\ WireStays(s) /\ SentStays(s, c) /\ ReceivedStays(s, c)
    \/ /\ here # <<>> /\ rx'[Other(s)][c] = Tail(here) /\ got'[Other(s)][c] = Head(here)
       /\ QueueStays(s) /\ WritingStays(s) /\ WireStays(s) /\ SentStays(s, c)

\* Only its own side's packets and counters change with a packet that is put.
LEMMA PutData ==
    ASSUME TypeOK, NEW u \in Sides, NEW d \in Channels, NEW x \in Packets, Put(u, d, x),
           x.kind # "data", NEW s \in Sides, NEW c \in Channels,
           WritingStays(s), WireStays(s), SentStays(s, c), ReceivedStays(s, c)
    PROVE  DataStep(s, c)
<1>1. queue'[s] = queue[s] \/ queue'[s] = Append(queue[s], x)
    BY PutFacts
<1>2. ~IsData(x, c)
    BY DEF IsData
<1> QED BY <1>1, <1>2 DEF DataStep, QueueStays

LEMMA SenderData ==
    ASSUME TypeOK, HasEnd, NEW t \in Senders, SenderStep(t), NEW s \in Sides, NEW c \in Channels
    PROVE  DataStep(s, c)
<1>1. PICK u \in Sides, d \in Channels : u = At[t] /\ d = On[t]
    BY TaskFacts DEF Tasks
<1>2. WritingStays(s) /\ WireStays(s) /\ ReceivedStays(s, c)
    BY DEF SenderStep, SendPacket, GoOn, SendAsync, WritingStays, WireStays, ReceivedStays
<1>0. Has(u, d)
    BY <1>1 DEF HasEnd, SenderStep, SendPacket, GoOn, SendAsync
<1>3. CASE UNCHANGED <<queue, sent>>
    BY <1>2, <1>3 DEF DataStep, QueueStays, SentStays
<1>4. ASSUME NEW y \in Senders \cup {Nobody}, IsOk(u, d), Put(u, d, Data(d, sent[u][d] + 1, y)),
             sent' = [sent EXCEPT ![u][d] = @ + 1]
      PROVE  DataStep(s, c)
    <2> DEFINE x == Data(d, sent[u][d] + 1, y)
    <2>1. sent[u][d] \in Nat /\ sent[u][d] + 1 \in Nat \ {0}
        <3>1. sent[u][d] \in Nat
            BY Types
        <3> QED BY <3>1
    <2>2. x \in Packets /\ (IsData(x, c) <=> d = c) /\ x.num = sent[u][d] + 1
        BY <2>1, PacketTypes DEF IsData, Data
    <2>3. CASE s = u
        <3>1. queue'[s] = Append(queue[s], x)
            BY <1>4, <2>2, <2>3, PutFacts
        <3>2. IF d = c THEN sent'[s][c] = sent[s][c] + 1 ELSE SentStays(s, c)
            BY <1>4, <2>3, Types DEF SentStays
        <3> QED BY <1>0, <1>2, <2>2, <2>3, <3>1, <3>2 DEF DataStep
    <2>4. CASE s # u
        <3>1. QueueStays(s) /\ SentStays(s, c)
            BY <1>4, <2>2, <2>4, PutFacts, Types DEF QueueStays, SentStays
        <3> QED BY <1>2, <3>1 DEF DataStep
    <2> QED BY <2>3, <2>4
<1>5. CASE Submit(t)
    <2>1. CASE IsOk(u, d)
        BY <1>1, <1>4, <1>5, <2>1 DEF Submit
    <2>2. CASE ~IsOk(u, d)
        BY <1>1, <1>3, <1>5, <2>2 DEF Submit
    <2> QED BY <2>1, <2>2
<1>6. CASE SendAsync(t)
    BY <1>1, <1>4, <1>6 DEF SendAsync
<1> QED BY <1>3, <1>5, <1>6 DEF SenderStep, SendPacket, GoOn

LEMMA ReceiverData ==
    ASSUME TypeOK, NEW t \in Receivers, ReceiverStep(t), NEW s \in Sides, NEW c \in Channels
    PROVE  DataStep(s, c)
<1>1. PICK u \in Sides, d \in Channels : u = At[t] /\ d = On[t]
    BY TaskFacts DEF Tasks
<1>2. Other(s) \in Sides /\ Other(s) # s
    BY SideTypes
<1>3. CASE RecvPacket(t)
    <2>1. /\ rx' = [rx EXCEPT ![u][d] = Tail(@)] /\ got' = [got EXCEPT ![u][d] = Head(rx[u][d])]
          /\ Put(u, d, Command("go", d)) \/ UNCHANGED queue
          /\ UNCHANGED <<sent, writing, wire>> /\ rx[u][d] # <<>>
        BY <1>1, <1>3 DEF RecvPacket, Pop
    <2>2. WritingStays(s) /\ WireStays(s) /\ SentStays(s, c)
        BY <2>1 DEF WritingStays, WireStays, SentStays
    <2>3. Command("go", d) \in Packets /\ Command("go", d).kind # "data"
        BY PacketTypes DEF Command
    <2>4. CASE Other(s) = u /\ c = d
        <3>1. QueueStays(s)
            BY <1>2, <2>1, <2>3, <2>4, PutFacts DEF QueueStays
        <3>2. rx'[Other(s)][c] = Tail(rx[Other(s)][c]) /\ got'[Other(s)][c] = Head(rx[Other(s)][c])
            BY <2>1, <2>4, Types
        <3> QED BY <2>1, <2>2, <2>4, <3>1, <3>2 DEF DataStep
    <2>5. CASE ~(Other(s) = u /\ c = d)
        <3>1. ReceivedStays(s, c)
            BY <1>2, <2>1, <2>5, Types DEF ReceivedStays
        <3>2. UNCHANGED queue => DataStep(s, c)
            BY <2>2, <3>1 DEF DataStep, QueueStays
        <3> QED BY <2>1, <2>2, <2>3, <3>1, <3>2, PutData
    <2> QED BY <2>4, <2>5
<1>4. CASE RecvNothing(t) \/ RecvFails(t)
    BY <1>4 DEF RecvNothing, RecvFails, dataVars, socketVars, DataStep,
       QueueStays, WritingStays, WireStays, SentStays, ReceivedStays
<1> QED BY <1>3, <1>4 DEF ReceiverStep

LEMMA HandlesData ==
    ASSUME TypeOK, NEW u \in Sides, Handle(u), NEW s \in Sides, NEW c \in Channels, Alive(c)'
    PROVE  DataStep(s, c)
<1>0. PICK k \in {"data", "slow", "go", "make", "destroy"} : Reads(u, k)
    BY DEF Handle, HandleData, HandleSlow, HandleGo, HandleMake, HandleDestroy
<1>1. PICK p \in Packets, d \in Channels : p = Head(wire[u]) /\ d = p.ch
    BY <1>0, ReadsFacts
<1>2. /\ p.kind = k /\ wire[u] # <<>> /\ wire'[u] = Tail(wire[u]) /\ writing' = writing
      /\ \A v \in Sides : v # u => wire'[v] = wire[v]
    BY <1>0, <1>1, ReadsFacts DEF Reads
<1>3. s = u \/ (s = Other(u) /\ Other(s) = u /\ s # u)
    BY DEF Sides, Other
<1>4. Other(s) \in Sides /\ Other(u) \in Sides /\ u # Other(u)
    BY SideTypes
<1>5. WritingStays(s) /\ (s = u => WireStays(s))
    BY <1>2, <1>4 DEF WritingStays, WireStays
<1>6. ASSUME QueueStays(s), SentStays(s, c), got' = got, s = Other(u),
             rx'[u][c] = IF IsData(p, c) /\ Listens(u, c) THEN Append(rx[u][c], p.num) ELSE rx[u][c]
      PROVE  DataStep(s, c)
    <2>1. Other(s) = u
        BY <1>3, <1>6, SideTypes
    <2> QED BY <1>1, <1>2, <1>5, <1>6, <2>1 DEF DataStep
<1>7. ASSUME QueueStays(s), SentStays(s, c), ReceivedStays(s, c), s = u PROVE DataStep(s, c)
    BY <1>5, <1>7 DEF DataStep
<1>8. CASE HandleData(u)
    <2>1. /\ k = "data" /\ UNCHANGED <<sent, got>>
          /\ IF Listens(u, d)
             THEN /\ rx' = [rx EXCEPT ![u][d] = Append(@, p.num)]
                  /\ Put(u, d, Command("slow", d)) \/ UNCHANGED queue
             ELSE UNCHANGED <<rx, queue>>
        <3>1. Reads(u, "data") /\ p.kind = "data"
            BY <1>1, <1>8, ReadsFacts DEF HandleData
        <3> QED BY <1>1, <1>2, <1>8, <3>1 DEF HandleData
    <2>2. Command("slow", d) \in Packets /\ Command("slow", d).kind # "data"
        BY PacketTypes DEF Command
    <2>3. IsData(p, c) <=> c = d
        BY <1>1, <1>2, <2>1 DEF IsData
    <2>4. CASE s = u
        <3>1. ReceivedStays(s, c) /\ SentStays(s, c)
            BY <1>4, <2>1, <2>4, Types DEF ReceivedStays, SentStays
        <3>2. UNCHANGED queue => DataStep(s, c)
            BY <1>7, <2>4, <3>1 DEF QueueStays
        <3> QED BY <1>5, <2>1, <2>2, <2>4, <3>1, <3>2, PutData
    <2>5. CASE s = Other(u)
        <3>1. QueueStays(s) /\ SentStays(s, c)
            BY <1>4, <2>1, <2>2, <2>5, PutFacts DEF QueueStays, SentStays
        <3>2. rx'[u][c] = IF IsData(p, c) /\ Listens(u, c) THEN Append(rx[u][c], p.num) ELSE rx[u][c]
            <4>1. CASE Listens(u, d)
                <5>1. rx'[u][c] = IF c = d THEN Append(rx[u][c], p.num) ELSE rx[u][c]
                    <6>1. rx' = [rx EXCEPT ![u][d] = Append(@, p.num)]
                        BY <2>1, <4>1
                    <6> QED BY <6>1, Types
                <5> QED BY <2>3, <4>1, <5>1
            <4>2. CASE ~Listens(u, d)
                BY <2>1, <2>3, <4>2
            <4> QED BY <4>1, <4>2
        <3> QED BY <1>6, <2>1, <2>5, <3>1, <3>2
    <2> QED BY <1>3, <2>4, <2>5
<1>9. ASSUME k # "data", UNCHANGED <<rx, got, sent>>, QueueStays(s) PROVE DataStep(s, c)
    <2>1. ReceivedStays(s, c) /\ SentStays(s, c) /\ ~IsData(p, c)
        BY <1>2, <1>9 DEF ReceivedStays, SentStays, IsData
    <2> QED BY <1>3, <1>6, <1>7, <1>9, <2>1
<1>10. CASE HandleSlow(u) \/ HandleGo(u) \/ HandleMake(u)
    <2>1. UNCHANGED <<rx, got, sent>> /\ QueueStays(s)
        BY <1>10 DEF HandleSlow, HandleGo, HandleMake, dataVars, QueueStays
    <2>2. p.kind # "data"
        BY <1>1, <1>10, ReadsFacts DEF HandleSlow, HandleGo, HandleMake
    <2> QED BY <1>2, <1>9, <2>1, <2>2
<1>11. CASE HandleDestroy(u)
    <2>1. UNCHANGED <<rx, got, sent>> /\ p.kind = "destroy"
        BY <1>1, <1>11, ReadsFacts DEF HandleDestroy, dataVars
    <2>2. d \in Subs /\ {d} \in SUBSET Channels
        BY <1>1, <2>1, PacketFields
    <2>3. CASE ~Listens(u, d) \/ s # u
        <3>1. ~Listens(u, d) => QueueStays(s)
            BY <1>1, <1>11 DEF HandleDestroy, QueueStays
        <3>2. s # u => QueueStays(s)
            BY <1>1, <1>11, Types DEF HandleDestroy, QueueStays
        <3> QED BY <1>2, <1>9, <2>1, <2>3, <3>1, <3>2
    <2>4. CASE Listens(u, d) /\ s = u
        <3>1. End(u, {d}) /\ queue'[s] \in Cleaned(d, queue[s])
            BY <1>1, <1>11, <2>4, Types DEF HandleDestroy
        <3>2. d # c
            <4>1. Listens(u, d) /\ ~Listens(u, d)' /\ state'[u][d] \notin {"none", "pending", "open"}
                BY <2>2, <2>4, <3>1, EndFacts DEF Listens
            <4> QED BY <4>1 DEF Alive
        <3>3. ReceivedStays(s, c) /\ SentStays(s, c)
            BY <2>1 DEF ReceivedStays, SentStays
        <3> QED BY <1>5, <2>2, <2>4, <3>1, <3>2, <3>3 DEF DataStep
    <2> QED BY <2>3, <2>4
<1> QED BY <1>8, <1>10, <1>11 DEF Handle

LEMMA SideData ==
    ASSUME TypeOK, NEW u \in Sides, SideStep(u), NEW s \in Sides, NEW c \in Channels, Alive(c)'
    PROVE  DataStep(s, c)
<1>1. up' /\ \A v \in Sides : closing'[v] = "no"
    BY DEF Alive
<1>2. CASE TakePacket(u)
    <2>1. WireStays(s) /\ SentStays(s, c) /\ ReceivedStays(s, c)
        BY <1>2 DEF TakePacket, dataVars, WireStays, SentStays, ReceivedStays
    <2>2. s # u => QueueStays(s) /\ WritingStays(s)
        BY <1>2, Types DEF TakePacket, QueueStays, WritingStays
    <2>3. s = u => /\ queue[s] # <<>> /\ writing[s] = NoPacket
                   /\ queue'[s] = Tail(queue[s]) /\ writing'[s] = Head(queue[s])
        BY <1>2, Types DEF TakePacket
    <2> QED BY <2>1, <2>2, <2>3 DEF DataStep
<1>3. CASE Written(u)
    <2>1. QueueStays(s) /\ SentStays(s, c) /\ ReceivedStays(s, c)
        BY <1>3 DEF Written, dataVars, QueueStays, SentStays, ReceivedStays
    <2>2. Other(u) \in Sides /\ Other(s) \in Sides /\ (s # u => Other(s) # Other(u))
        BY DEF Sides, Other
    <2>3. up /\ closing[Other(u)] = "no"
        BY <1>1, <1>3, <2>2 DEF Written
    <2>4. s # u => WritingStays(s) /\ WireStays(s)
        BY <1>3, <2>2, Types DEF Written, WritingStays, WireStays
    <2>5. s = u => /\ writing[s] # NoPacket /\ writing'[s] = NoPacket
                   /\ wire'[Other(s)] = Append(wire[Other(s)], writing[s])
        BY <1>3, <2>2, <2>3, Types DEF Written
    <2> QED BY <2>1, <2>4, <2>5 DEF DataStep
<1>4. ~(WriteFails(u) \/ ReceiveFails(u) \/ KeepaliveTimeout(u) \/ UserClose(u))
    <2>1. ASSUME BeginClose(u) PROVE FALSE
        BY <1>1, <2>1 DEF BeginClose, TypeOK
    <2> QED BY <2>1 DEF WriteFails, ReceiveFails, KeepaliveTimeout, UserClose
<1>5. ~(FinishClose(u) \/ CloserKilled(u))
    BY <1>1 DEF FinishClose, CloserKilled, TypeOK
<1> QED BY <1>2, <1>3, <1>4, <1>5, HandlesData DEF SideStep, TaskStep

LEMMA SubData ==
    ASSUME TypeOK, NEW n \in Subs, SubStep(n), NEW s \in Sides, NEW c \in Channels, Alive(c)'
    PROVE  DataStep(s, c)
<1>1. /\ Maker[n] \in Sides /\ Main \in Channels /\ n \in Channels /\ {n} \in SUBSET Channels
      /\ Command("make", n) \in Packets /\ Command("make", n).kind # "data"
    BY ChannelAssumption, PacketTypes DEF Channels, Command
<1>2. WritingStays(s) /\ WireStays(s) /\ SentStays(s, c) /\ ReceivedStays(s, c)
    BY DEF SubStep, MakeChannel, TakeChannel, CloseSub, LowerCapacity, dataVars, socketVars,
       WritingStays, WireStays, SentStays, ReceivedStays
<1>3. CASE MakeChannel(n)
    BY <1>1, <1>2, <1>3, PutData DEF MakeChannel
<1>4. CASE TakeChannel(n) \/ \E u \in Sides : LowerCapacity(n, u)
    BY <1>2, <1>4 DEF TakeChannel, LowerCapacity, socketVars, DataStep, QueueStays
<1>5. ASSUME NEW u \in Sides, CloseSub(n, u) PROVE DataStep(s, c)
    <2>1. n # c
        <3>1. state[u][n] = "open" /\ ~Listens(u, n)' /\ state'[u][n] \notin {"none", "pending", "open"}
            BY <1>1, <1>5, EndFacts DEF CloseSub, Listens
        <3> QED BY <3>1 DEF Alive
    <2>2. \/ QueueStays(s)
          \/ queue'[s] \in Cleaned(n, Append(queue[s], Command("destroy", n)))
        BY <1>5, Types DEF CloseSub, QueueStays
    <2> QED BY <1>2, <2>1, <2>2 DEF DataStep
<1> QED BY <1>3, <1>4, <1>5 DEF SubStep

LEMMA StepData ==
    ASSUME TypeOK, HasEnd, [Next]_vars, NEW s \in Sides, NEW c \in Channels, Alive(c)'
    PROVE  DataStep(s, c)
<1>1. ~LinkFails
    BY DEF LinkFails, Alive
<1>2. CASE UNCHANGED vars
    BY <1>2 DEF vars, dataVars, socketVars, DataStep,
       QueueStays, WritingStays, WireStays, SentStays, ReceivedStays
<1> QED BY <1>1, <1>2, SenderData, ReceiverData, SideData, SubData DEF Next

-----------------------------------------------------------------------------
(* A virtual channel is made before its data come *)

\* Until the other side has the channel, its MAKE is ahead of all its data.
IntroducedOne(n) ==
    LET m == Maker[n]
        w == wire[Other(m)]
        make == Command("make", n)
    IN
    Alive(n) /\ state[Other(m)][n] = "none" =>
        \/ MadeFirst(w, n)
        \/ NoData(w, n) /\ writing[m] = make
        \/ /\ NoData(w, n) /\ (writing[m] # NoPacket => ~IsData(writing[m], n))
           /\ \/ MadeFirst(queue[m], n)
              \/ state[m][n] = "none" /\ NoData(queue[m], n)

Introduced == \A n \in Subs : IntroducedOne(n)

LEMMA AliveStep ==
    ASSUME TypeOK, Origins, Announced, [Next]_vars, NEW c \in Channels, Alive(c)'
    PROVE  Alive(c)
<1>1. up /\ \A s \in Sides : closing[s] = "no"
    BY UpStays, ClosingStays DEF Alive
<1>2. ASSUME NEW s \in Sides PROVE state[s][c] \in {"none", "pending", "open"}
    <2>1. state'[s][c] \in {"none", "pending", "open"} /\ StateStep(s, c)
        BY StepStates DEF Alive
    <2>2. CASE /\ c \in Subs /\ wire[s] # <<>> /\ Head(wire[s]) = Command("make", c)
        BY <2>2, NotAgain
    <2> QED BY <2>1, <2>2 DEF StateStep
<1> QED BY <1>1, <1>2 DEF Alive

\* The maker gets its end with the MAKE.
LEMMA MakeStep ==
    ASSUME TypeOK, MainOpen, [Next]_vars, NEW n \in Subs, NEW m \in Sides, m = Maker[n],
           Alive(n)', state[m][n] = "none", state'[m][n] # "none",
           ~(wire[m] # <<>> /\ Head(wire[m]) = Command("make", n))
    PROVE  /\ queue'[m] = Append(queue[m], Command("make", n))
           /\ WritingStays(m) /\ WireStays(m)
<1>1. n \in Channels /\ n # Main /\ Main \in Channels /\ Command("make", n) \in Packets
    BY ChannelAssumption, PacketTypes DEF Channels
<1>2. MakeChannel(n)
    <2>1. ASSUME NEW u \in Sides, NEW D \in SUBSET Channels, End(u, D) PROVE FALSE
        BY <1>1, <2>1, EndFacts
    <2>2. ~UNCHANGED state
        OBVIOUS
    <2>3. ASSUME NEW u \in Sides, Handle(u) PROVE FALSE
        <3>1. PICK k \in {"data", "slow", "go", "make", "destroy"} : Reads(u, k)
            BY <2>3 DEF Handle, HandleData, HandleSlow, HandleGo, HandleMake, HandleDestroy
        <3>2. PICK p \in Packets, d \in Channels : p = Head(wire[u]) /\ d = p.ch
            BY <3>1, ReadsFacts
        <3>3. ~(HandleData(u) \/ HandleSlow(u) \/ HandleGo(u))
            BY <2>2 DEF HandleData, HandleSlow, HandleGo, endVars
        <3>4. {d} \in SUBSET Channels
            OBVIOUS
        <3>5. ~HandleDestroy(u)
            BY <2>1, <2>2, <3>2, <3>4 DEF HandleDestroy
        <3>6. ASSUME HandleMake(u) PROVE FALSE
            <4>1. state' = [state EXCEPT ![u][d] = "pending"] /\ p.kind = "make" /\ wire[u] # <<>>
                BY <3>2, <3>6, ReadsFacts DEF HandleMake
            <4>2. u = m /\ d = n
                BY <1>1, <4>1, Types
            <4>3. p = Command("make", n)
                BY <3>2, <4>1, <4>2, PacketFields
            <4> QED BY <3>2, <4>1, <4>2, <4>3
        <3> QED BY <2>3, <3>3, <3>5, <3>6 DEF Handle
    <2>4. ASSUME NEW u \in Sides, SideStep(u) PROVE FALSE
        <3>1. ASSUME BeginClose(u) PROVE FALSE
            BY <1>1, <3>1, Types DEF BeginClose
        <3> QED BY <2>1, <2>2, <2>3, <2>4, <3>1 DEF SideStep, TaskStep, TakePacket, Written,
                   CloserKilled, FinishClose, WriteFails, ReceiveFails, KeepaliveTimeout, UserClose, endVars
    <2>5. ASSUME NEW k \in Subs, SubStep(k) PROVE MakeChannel(n)
        <3>1. {k} \in SUBSET Channels /\ Maker[k] \in Sides /\ Other(Maker[k]) \in Sides /\ k \in Channels
            BY ChannelAssumption, SideTypes DEF Channels
        <3>2. ~\E u \in Sides : CloseSub(k, u) \/ LowerCapacity(k, u)
            BY <2>1, <2>2, <3>1 DEF CloseSub, LowerCapacity
        <3>3. ~TakeChannel(k)
            <4>1. PICK v \in Sides : v = Other(Maker[k])
                BY <3>1
            <4>2. ASSUME state' = [state EXCEPT ![v][k] = "open"], state[v][k] = "pending" PROVE FALSE
                <5>1. ~(v = m /\ k = n)
                    BY <4>2
                <5>2. state'[m][n] = state[m][n]
                    BY <1>1, <3>1, <4>2, <5>1, Types
                <5> QED BY <5>2
            <4> QED BY <4>1, <4>2 DEF TakeChannel
        <3>4. MakeChannel(k) => k = n
            <4>1. PICK v \in Sides : v = Maker[k]
                BY <3>1
            <4>2. ASSUME state' = [state EXCEPT ![v][k] = "open"], k # n PROVE FALSE
                <5>1. state'[m][n] = state[m][n]
                    BY <1>1, <3>1, <4>2, Types
                <5> QED BY <5>1
            <4> QED BY <4>1, <4>2 DEF MakeChannel
        <3> QED BY <2>5, <3>2, <3>3, <3>4 DEF SubStep
    <2>6. ASSUME NEW t \in Senders, SenderStep(t) PROVE FALSE
        BY <2>2, <2>6 DEF SenderStep, SendPacket, GoOn, SendAsync, endVars
    <2>7. ASSUME NEW t \in Receivers, ReceiverStep(t) PROVE FALSE
        BY <2>2, <2>7 DEF ReceiverStep, RecvPacket, RecvNothing, RecvFails, endVars
    <2> QED BY <2>2, <2>4, <2>5, <2>6, <2>7 DEF Next, LinkFails, vars, endVars
<1>3. Put(m, Main, Command("make", n))
    BY <1>2 DEF MakeChannel
<1>4. IsOk(m, Main)
    <2>1. closing[m] = "no"
        BY <1>2, SideTypes DEF Alive, Joined, MakeChannel
    <2> QED BY <2>1 DEF MainOpen, IsOk
<1> QED BY <1>1, <1>2, <1>3, <1>4, PutFacts DEF MakeChannel, WritingStays, WireStays

\* A side that reads the MAKE has the channel.
LEMMA ReadMake ==
    ASSUME TypeOK, [Next]_vars, NEW t \in Sides, NEW n \in Channels, up', closing'[t] = "no",
           wire[t] # <<>>, Head(wire[t]) = Command("make", n), wire'[t] = Tail(wire[t])
    PROVE  state'[t][n] = "pending"
<1>0. /\ wire'[t] # wire[t]
      /\ \A p \in Packets : wire'[t] # Append(wire[t], p)
    BY SeqDiffers, Types
<1>1. ASSUME NEW u \in Sides, Handle(u) PROVE state'[t][n] = "pending"
    <2>1. PICK k \in {"data", "slow", "go", "make", "destroy"} : Reads(u, k)
        BY <1>1 DEF Handle, HandleData, HandleSlow, HandleGo, HandleMake, HandleDestroy
    <2>2. u = t /\ k = "make"
        BY <1>0, <2>1, ReadsFacts DEF Command
    <2>3. HandleMake(t)
        <3>1. Head(wire[t]).kind = "make"
            BY DEF Command
        <3>2. ~HandleData(t) /\ ~HandleSlow(t) /\ ~HandleGo(t) /\ ~HandleDestroy(t)
            BY <3>1 DEF HandleData, HandleSlow, HandleGo, HandleDestroy, Reads
        <3> QED BY <1>1, <2>2, <3>2 DEF Handle
    <2> QED BY <2>3, Types DEF HandleMake, Command
<1>2. ASSUME NEW u \in Sides, SideStep(u), ~Handle(u) PROVE FALSE
    <2>1. ~(TakePacket(u) \/ CloserKilled(u) \/ FinishClose(u))
        BY <1>0 DEF TakePacket, CloserKilled, FinishClose, socketVars
    <2>2. ~Written(u)
        <3>1. CASE Written(u)
            <4>1. writing[u] \in Packets
                BY <3>1, Types DEF Written
            <4>2. wire'[t] = wire[t] \/ wire'[t] = Append(wire[t], writing[u])
                BY <3>1, Types DEF Written
            <4> QED BY <1>0, <4>1, <4>2
        <3> QED BY <3>1
    <2>3. ASSUME BeginClose(u) PROVE FALSE
        <3>1. u # t
            BY <2>3 DEF BeginClose, TypeOK
        <3> QED BY <1>0, <2>3, <3>1, Types DEF BeginClose
    <2> QED BY <1>2, <2>1, <2>2, <2>3 DEF SideStep, TaskStep, WriteFails, ReceiveFails,
               KeepaliveTimeout, UserClose
<1>3. ASSUME NEW x \in Senders, SenderStep(x) PROVE FALSE
    BY <1>0, <1>3 DEF SenderStep, SendPacket, GoOn, SendAsync
<1>4. ASSUME NEW x \in Receivers, ReceiverStep(x) PROVE FALSE
    BY <1>0, <1>4 DEF ReceiverStep, RecvPacket, RecvNothing, RecvFails, socketVars
<1>5. ASSUME NEW k \in Subs, SubStep(k) PROVE FALSE
    BY <1>0, <1>5 DEF SubStep, MakeChannel, TakeChannel, CloseSub, LowerCapacity, socketVars
<1>6. ~LinkFails /\ ~UNCHANGED vars
    BY <1>0 DEF LinkFails, vars, socketVars
<1> QED BY <1>1, <1>2, <1>3, <1>4, <1>5, <1>6 DEF Next

LEMMA IntroducedStep ==
    ASSUME TypeOK, HasEnd, MainOpen, Origins, Announced, Introduced, [Next]_vars
    PROVE  Introduced'
<1> SUFFICES ASSUME NEW n \in Subs PROVE IntroducedOne(n)'
    BY DEF Introduced
<1>1. PICK m \in Sides : m = Maker[n]
    BY ChannelAssumption
<1>2. PICK t \in Sides : t = Other(m) /\ t # m /\ Other(t) = m
    BY SideTypes
<1> DEFINE make == Command("make", n)
           Ahead(q, v, w, end) ==
               \/ MadeFirst(w, n)
               \/ NoData(w, n) /\ v = make
               \/ /\ NoData(w, n) /\ (v # NoPacket => ~IsData(v, n))
                  /\ MadeFirst(q, n) \/ (end = "none" /\ NoData(q, n))
<1> SUFFICES ASSUME Alive(n)', state'[t][n] = "none"
             PROVE  Ahead(queue'[m], writing'[m], wire'[t], state'[m][n])
    BY <1>1, <1>2 DEF IntroducedOne
<1>3. n \in Channels /\ n # Main
    BY ChannelAssumption DEF Channels
<1>4. Alive(n) /\ state[t][n] = "none"
    <2>1. Alive(n)
        BY <1>3, AliveStep
    <2>2. StateStep(t, n)
        BY <1>3, StepStates
    <2> QED BY <2>1, <2>2 DEF StateStep
<1>5. Ahead(queue[m], writing[m], wire[t], state[m][n])
    <2>1. IntroducedOne(n)
        BY DEF Introduced
    <2> QED BY <1>1, <1>2, <1>4, <2>1 DEF IntroducedOne
<1>6. /\ queue[m] \in Seq(Packets) /\ wire[t] \in Seq(Packets) /\ make \in Packets
      /\ writing[m] \in Packets \cup {NoPacket} /\ make # NoPacket /\ ~IsData(make, n)
    BY Types, PacketTypes, PacketAssumption DEF IsData, Command
<1>7. ~(wire[m] # <<>> /\ Head(wire[m]) = make)
    BY <1>1, <1>2, NotAgain
<1>8. CASE state[m][n] = "none" /\ state'[m][n] # "none"
    <2>1. queue'[m] = Append(queue[m], make) /\ WritingStays(m) /\ WireStays(m)
        BY <1>1, <1>7, <1>8, MakeStep
    <2>2. (NoData(queue[m], n) => MadeFirst(queue'[m], n)) /\ (MadeFirst(queue[m], n) => MadeFirst(queue'[m], n))
        BY <1>6, <2>1, MadeFirstAppend
    <2> QED BY <1>2, <1>5, <2>1, <2>2 DEF WritingStays, WireStays
<1>9. CASE state[m][n] = "none" => state'[m][n] = "none"
    <2> DEFINE end == state[m][n]
               Goal == Ahead(queue'[m], writing'[m], wire'[t], end)
    <2>0. Goal => Ahead(queue'[m], writing'[m], wire'[t], state'[m][n])
        BY <1>9
    <2>1. ASSUME QueueStays(m), WritingStays(m), WireStays(m) PROVE Goal
        BY <1>2, <1>5, <2>1 DEF QueueStays, WritingStays, WireStays
    <2>2. ASSUME NEW x \in Packets, queue'[m] = Append(queue[m], x), IsData(x, n) => Has(m, n),
                 WritingStays(m), WireStays(m)
          PROVE  Goal
        <3>1. end = "none" => ~IsData(x, n)
            BY <2>2 DEF Has
        <3>2. /\ MadeFirst(queue[m], n) => MadeFirst(queue'[m], n)
              /\ end = "none" /\ NoData(queue[m], n) => NoData(queue'[m], n)
            BY <1>6, <2>2, <3>1, MadeFirstAppend
        <3> QED BY <1>2, <1>5, <2>2, <3>2 DEF WritingStays, WireStays
    <2>3. ASSUME queue[m] # <<>>, writing[m] = NoPacket, queue'[m] = Tail(queue[m]),
                 writing'[m] = Head(queue[m]), WireStays(m)
          PROVE  Goal
        <3>1. /\ MadeFirst(queue[m], n) => writing'[m] = make \/ (MadeFirst(queue'[m], n) /\ ~IsData(writing'[m], n))
              /\ NoData(queue[m], n) => NoData(queue'[m], n) /\ ~IsData(writing'[m], n)
            BY <1>6, <2>3, MadeFirstTail
        <3> QED BY <1>2, <1>5, <1>6, <2>3, <3>1 DEF WireStays
    <2>4. ASSUME writing[m] # NoPacket, writing'[m] = NoPacket, QueueStays(m),
                 wire'[t] = Append(wire[t], writing[m])
          PROVE  Goal
        <3>1. /\ MadeFirst(wire[t], n) => MadeFirst(wire'[t], n)
              /\ NoData(wire[t], n) /\ writing[m] = make => MadeFirst(wire'[t], n)
              /\ NoData(wire[t], n) /\ ~IsData(writing[m], n) => NoData(wire'[t], n)
            BY <1>6, <2>4, MadeFirstAppend
        <3> QED BY <1>5, <2>4, <3>1 DEF QueueStays
    <2>5. ASSUME wire[t] # <<>>, wire'[t] = Tail(wire[t]), QueueStays(m), WritingStays(m)
          PROVE  Goal
        <3>1. Head(wire[t]) # make
            <4>1. up' /\ closing'[t] = "no"
                BY DEF Alive
            <4> QED BY <1>3, <2>5, <4>1, ReadMake
        <3> QED BY <1>5, <1>6, <2>5, <3>1, MadeFirstTail DEF QueueStays, WritingStays
    <2>6. ASSUME NEW k \in Subs \ {n}, NEW q \in {queue[m], Append(queue[m], Command("destroy", k))},
                 queue'[m] \in Cleaned(k, q), WritingStays(m), WireStays(m)
          PROVE  Goal
        <3>0. Command("destroy", k) \in Packets /\ ~IsData(Command("destroy", k), n)
            BY PacketTypes DEF IsData, Command
        <3>1. q \in Seq(Packets)
            <4>1. Append(queue[m], Command("destroy", k)) \in Seq(Packets)
                BY <1>6, <3>0, AppendFacts
            <4>2. q = queue[m] \/ q = Append(queue[m], Command("destroy", k))
                OBVIOUS
            <4> QED BY <1>6, <4>1, <4>2
        <3>2. /\ MadeFirst(queue[m], n) => MadeFirst(q, n)
              /\ NoData(queue[m], n) => NoData(q, n)
            BY <1>6, <3>0, MadeFirstAppend
        <3>3. /\ MadeFirst(q, n) => MadeFirst(queue'[m], n)
              /\ NoData(q, n) => NoData(queue'[m], n)
            BY <2>6, <3>1, CleanedData
        <3> QED BY <1>2, <1>5, <2>6, <3>2, <3>3 DEF WritingStays, WireStays
    <2>7. DataStep(m, n)
        BY <1>3, StepData
    <2>8. Goal
        <3> HIDE DEF Ahead
        <3> QED BY <1>2, <2>1, <2>2, <2>3, <2>4, <2>5, <2>6, <2>7 DEF DataStep
    <2> QED BY <2>0, <2>8
<1> QED BY <1>8, <1>9

-----------------------------------------------------------------------------
(* Nothing is lost, repeated or overtaken *)

\* What the receiver has continues what was taken, what is written continues that up to the
\* m-th packet, what is being written up to the n-th and what is queued up to the last.
Flow(s, c, m, n) ==
    LET o == Other(s) IN
    /\ \A i \in DOMAIN rx[o][c] : rx[o][c][i] = got[o][c] + i
    /\ Continues(wire[o], c, got[o][c] + Len(rx[o][c]), m)
    /\ IF writing[s] # NoPacket /\ IsData(writing[s], c) THEN writing[s].num = m + 1 /\ n = m + 1
       ELSE n = m
    /\ Continues(queue[s], c, n, sent[s][c])

Flows == \A s \in Sides, c \in Channels : Alive(c) => \E m, n \in Nat : Flow(s, c, m, n)

\* Data come only to a side that has the channel.
LEMMA DataIsExpected ==
    ASSUME TypeOK, MainOpen, Announced, Fresh, Introduced,
           NEW s \in Sides, NEW c \in Channels, Alive(c),
           wire[Other(s)] # <<>>, IsData(Head(wire[Other(s)]), c)
    PROVE  Listens(Other(s), c)
<1>1. PICK o \in Sides : o = Other(s) /\ Other(o) = s /\ s # o
    BY SideTypes
<1>2. /\ state[o][c] \in {"none", "pending", "open"} /\ closing[o] = "no"
      /\ wire[o] \in Seq(Packets) /\ wire[o] # <<>> /\ IsData(Head(wire[o]), c)
    BY <1>1, Types DEF Alive
<1>3. Head(wire[o]) \in Packets /\ Carried(s, Head(wire[o]))
    BY <1>1, <1>2, TailFacts DEF Carried
<1>4. CASE c = Main
    BY <1>1, <1>2, <1>4 DEF MainOpen, Listens
<1>5. ASSUME c \in Subs, state[o][c] = "none" PROVE FALSE
    <2>1. PICK m \in Sides : m = Maker[c]
        BY <1>5, ChannelAssumption
    <2>2. CASE o = m
        <3>1. AnnouncedOnce(c)
            BY <1>5 DEF Announced
        <3>2. state[Other(m)][c] = "none"
            BY <1>5, <2>1, <2>2, <3>1 DEF AnnouncedOnce
        <3>3. Quiet(c)
            BY <1>5, <2>1, <3>2 DEF Fresh
        <3>4. s = Other(m)
            BY <1>1, <2>2 DEF Sides, Other
        <3> QED BY <1>2, <1>3, <2>1, <3>3, <3>4 DEF Quiet, IsData
    <2>3. CASE o # m
        <3>1. o = Other(m) /\ IntroducedOne(c)
            BY <1>5, <2>3 DEF Introduced, Sides, Other
        <3>2. MadeFirst(wire[o], c) \/ NoData(wire[o], c)
            BY <1>5, <2>1, <3>1 DEF IntroducedOne
        <3>3. Head(wire[o]) # Command("make", c)
            BY <1>2 DEF IsData, Command
        <3> QED BY <1>2, <3>2, <3>3, MadeFirstTail
    <2> QED BY <2>2, <2>3
<1> QED BY <1>1, <1>2, <1>4, <1>5 DEF Channels, Listens

LEMMA FlowsStep ==
    ASSUME TypeOK, HasEnd, MainOpen, Origins, Announced, Fresh, Introduced, Flows, [Next]_vars
    PROVE  Flows'
<1> SUFFICES ASSUME NEW s \in Sides, NEW c \in Channels, Alive(c)'
             PROVE  \E m, n \in Nat : Flow(s, c, m, n)'
    BY DEF Flows
<1>1. PICK o \in Sides : o = Other(s) /\ o # s
    BY SideTypes
<1>2. Alive(c)
    BY AliveStep
<1>3. PICK m \in Nat, n \in Nat : Flow(s, c, m, n)
    BY <1>2 DEF Flows
<1> DEFINE here == rx[o][c]
           base == got[o][c]
           last == sent[s][c]
           Goal == \E k, l \in Nat :
                      /\ \A i \in DOMAIN rx'[o][c] : rx'[o][c][i] = got'[o][c] + i
                      /\ Continues(wire'[o], c, got'[o][c] + Len(rx'[o][c]), k)
                      /\ IF writing'[s] # NoPacket /\ IsData(writing'[s], c)
                         THEN writing'[s].num = k + 1 /\ l = k + 1 ELSE l = k
                      /\ Continues(queue'[s], c, l, sent'[s][c])
<1> SUFFICES Goal
    BY <1>1 DEF Flow
<1>4. /\ queue[s] \in Seq(Packets) /\ wire[o] \in Seq(Packets)
      /\ writing[s] \in Packets \cup {NoPacket}
      /\ here \in Seq(Nat \ {0}) /\ base \in Nat /\ last \in Nat
    BY Types
<1>5. Len(here) \in Nat /\ base + Len(here) \in Nat
    <2> HIDE DEF here, base
    <2> QED BY <1>4
<1>6. /\ \A i \in DOMAIN here : here[i] = base + i
      /\ Continues(wire[o], c, base + Len(here), m)
      /\ IF writing[s] # NoPacket /\ IsData(writing[s], c) THEN writing[s].num = m + 1 /\ n = m + 1
         ELSE n = m
      /\ Continues(queue[s], c, n, last)
    BY <1>1, <1>3 DEF Flow
<1>7. /\ ReceivedStays(s, c) => rx'[o][c] = here /\ got'[o][c] = base
      /\ SentStays(s, c) => sent'[s][c] = last
      /\ WireStays(s) => wire'[o] = wire[o]
    BY <1>1 DEF ReceivedStays, SentStays, WireStays
<1> HIDE DEF here, base, last
<1>8. ASSUME QueueStays(s), WritingStays(s), WireStays(s), SentStays(s, c), ReceivedStays(s, c)
      PROVE  Goal
    BY <1>6, <1>7, <1>8 DEF QueueStays, WritingStays
<1>9. ASSUME NEW x \in Packets, queue'[s] = Append(queue[s], x),
             IF IsData(x, c) THEN x.num = last + 1 /\ sent'[s][c] = last + 1 ELSE SentStays(s, c),
             WritingStays(s), WireStays(s), ReceivedStays(s, c)
      PROVE  Goal
    <2>1. Continues(queue'[s], c, n, sent'[s][c])
        BY <1>4, <1>6, <1>7, <1>9, ContinuesAppend
    <2> QED BY <1>6, <1>7, <1>9, <2>1 DEF WritingStays
<1>10. ASSUME queue[s] # <<>>, writing[s] = NoPacket, queue'[s] = Tail(queue[s]),
              writing'[s] = Head(queue[s]), WireStays(s), SentStays(s, c), ReceivedStays(s, c)
       PROVE  Goal
    <2>1. n = m
        BY <1>6, <1>10
    <2>2. IF IsData(Head(queue[s]), c)
          THEN Head(queue[s]).num = m + 1 /\ Continues(queue'[s], c, m + 1, last)
          ELSE Continues(queue'[s], c, m, last)
        BY <1>4, <1>6, <1>10, <2>1, ContinuesTail
    <2>3. Head(queue[s]) # NoPacket /\ m + 1 \in Nat
        BY <1>4, <1>10, TailFacts, PacketAssumption
    <2>4. CASE IsData(Head(queue[s]), c)
        BY <1>6, <1>7, <1>10, <2>2, <2>3, <2>4
    <2>5. CASE ~IsData(Head(queue[s]), c)
        BY <1>6, <1>7, <1>10, <2>2, <2>5
    <2> QED BY <2>4, <2>5
<1>11. ASSUME writing[s] # NoPacket, writing'[s] = NoPacket, wire'[o] = Append(wire[o], writing[s]),
              QueueStays(s), SentStays(s, c), ReceivedStays(s, c)
       PROVE  Goal
    <2>1. Continues(wire'[o], c, base + Len(here), n)
        BY <1>4, <1>5, <1>6, <1>11, ContinuesAppend
    <2> QED BY <1>6, <1>7, <1>11, <2>1 DEF QueueStays
<1>12. ASSUME wire[o] # <<>>, wire'[o] = Tail(wire[o]), got'[o][c] = base,
              rx'[o][c] = IF IsData(Head(wire[o]), c) /\ Listens(o, c)
                          THEN Append(here, Head(wire[o]).num) ELSE here,
              QueueStays(s), WritingStays(s), SentStays(s, c)
       PROVE  Goal
    <2>1. IF IsData(Head(wire[o]), c)
          THEN Head(wire[o]).num = base + Len(here) + 1 /\ Continues(wire'[o], c, base + Len(here) + 1, m)
          ELSE Continues(wire'[o], c, base + Len(here), m)
        BY <1>4, <1>5, <1>6, <1>12, ContinuesTail
    <2>2. CASE ~IsData(Head(wire[o]), c)
        BY <1>6, <1>7, <1>12, <2>1, <2>2 DEF QueueStays, WritingStays
    <2>3. CASE IsData(Head(wire[o]), c)
        <3> DEFINE k == base + Len(here) + 1
        <3>1. Listens(o, c)
            BY <1>1, <1>2, <1>12, <2>3, DataIsExpected
        <3>2. rx'[o][c] = Append(here, k) /\ k \in Nat \ {0}
            BY <1>5, <1>12, <2>1, <2>3, <3>1
        <3>3. \A i \in DOMAIN rx'[o][c] : rx'[o][c][i] = got'[o][c] + i
            <4>1. ASSUME NEW i \in DOMAIN rx'[o][c] PROVE rx'[o][c][i] = base + i
                <5>1. /\ DOMAIN here = 1 .. Len(here) /\ DOMAIN rx'[o][c] = 1 .. Len(here) + 1
                      /\ \A j \in 1 .. Len(here) : rx'[o][c][j] = here[j]
                      /\ rx'[o][c][Len(here) + 1] = k
                    BY <1>4, <3>2
                <5>2. i \in 1 .. Len(here) \/ i = Len(here) + 1
                    BY <1>5, <4>1, <5>1
                <5>3. k = base + (Len(here) + 1)
                    BY <1>4, <1>5
                <5> QED BY <1>6, <5>1, <5>2, <5>3
            <4> QED BY <1>12, <4>1
        <3>4. got'[o][c] + Len(rx'[o][c]) = k
            <4>1. Len(rx'[o][c]) = Len(here) + 1
                BY <1>4, <3>2
            <4> QED BY <1>4, <1>5, <1>12, <4>1
        <3>5. Continues(wire'[o], c, got'[o][c] + Len(rx'[o][c]), m)
            BY <2>1, <2>3, <3>4
        <3> QED BY <1>6, <1>7, <1>12, <3>3, <3>5 DEF QueueStays, WritingStays
    <2> QED BY <2>2, <2>3
<1>13. ASSUME NEW k \in Subs \ {c}, NEW q \in {queue[s], Append(queue[s], Command("destroy", k))},
              queue'[s] \in Cleaned(k, q),
              WritingStays(s), WireStays(s), SentStays(s, c), ReceivedStays(s, c)
       PROVE  Goal
    <2>1. Command("destroy", k) \in Packets /\ ~IsData(Command("destroy", k), c)
        BY PacketTypes DEF IsData, Command
    <2>2. q \in Seq(Packets) /\ Continues(q, c, n, last)
        <3> DEFINE x == Command("destroy", k)
        <3>1. x \in Packets /\ ~IsData(x, c)
            BY <2>1
        <3> HIDE DEF x
        <3>2. Append(queue[s], x) \in Seq(Packets)
            BY <1>4, <3>1
        <3>3. Continues(Append(queue[s], x), c, n, last)
            BY <1>4, <1>6, <3>1, ContinuesAppend
        <3>4. q = queue[s] \/ q = Append(queue[s], x)
            BY <1>13 DEF x
        <3> QED BY <1>4, <1>6, <3>2, <3>3, <3>4
    <2>3. Continues(queue'[s], c, n, last)
        BY <1>4, <1>13, <2>2, CleanedData
    <2> QED BY <1>6, <1>7, <1>13, <2>3 DEF WritingStays
<1>14. ASSUME here # <<>>, rx'[o][c] = Tail(here), got'[o][c] = Head(here),
              QueueStays(s), WritingStays(s), WireStays(s), SentStays(s, c)
       PROVE  Goal
    <2>1. /\ DOMAIN here = 1 .. Len(here) /\ Len(here) > 0 /\ Len(rx'[o][c]) = Len(here) - 1
          /\ DOMAIN rx'[o][c] = 1 .. Len(here) - 1
          /\ \A i \in 1 .. Len(here) - 1 : rx'[o][c][i] = here[i + 1]
          /\ Head(here) = here[1]
        BY <1>4, <1>14
    <2>2. got'[o][c] = base + 1
        BY <1>5, <1>6, <1>14, <2>1
    <2>3. \A i \in DOMAIN rx'[o][c] : rx'[o][c][i] = got'[o][c] + i
        <3>1. ASSUME NEW i \in 1 .. Len(here) - 1 PROVE rx'[o][c][i] = got'[o][c] + i
            <4>1. i + 1 \in 1 .. Len(here)
                BY <1>5
            <4>2. rx'[o][c][i] = base + (i + 1)
                BY <1>6, <2>1, <4>1
            <4> QED BY <1>4, <2>2, <4>2
        <3> QED BY <2>1, <3>1
    <2>4. got'[o][c] + Len(rx'[o][c]) = base + Len(here)
        <3>1. Len(rx'[o][c]) = Len(here) - 1
            BY <2>1
        <3>2. (base + 1) + (Len(here) - 1) = base + Len(here)
            BY <1>4, <1>5
        <3> QED BY <2>2, <3>1, <3>2
    <2> QED BY <1>6, <1>7, <1>14, <2>3, <2>4 DEF QueueStays, WritingStays
<1>15. DataStep(s, c)
    BY StepData
<1> HIDE DEF Goal
<1>16. /\ here = rx[Other(s)][c] /\ base = got[Other(s)][c] /\ last = sent[s][c]
    BY <1>1 DEF here, base, last
<1> QED BY <1>1, <1>8, <1>9, <1>10, <1>11, <1>12, <1>13, <1>14, <1>15, <1>16 DEF DataStep, SentStays

-----------------------------------------------------------------------------
(* The invariant and the theorem *)

DataInv == Inv /\ Introduced /\ Flows

LEMMA InitData == Init => DataInv
<1> SUFFICES ASSUME Init PROVE DataInv
    OBVIOUS
<1>1. Inv
    BY InitInv
<1>2. /\ \A s \in Sides : queue[s] = <<>> /\ wire[s] = <<>> /\ writing[s] = NoPacket
      /\ \A s \in Sides, c \in Channels : rx[s][c] = <<>> /\ got[s][c] = 0 /\ sent[s][c] = 0
      /\ \A s \in Sides, c \in Channels : state[s][c] = IF c = Main THEN "open" ELSE "none"
    BY DEF Init, ForEach
<1>3. Introduced
    <2> SUFFICES ASSUME NEW n \in Subs PROVE IntroducedOne(n)
        BY DEF Introduced
    <2>1. Maker[n] \in Sides /\ Other(Maker[n]) \in Sides /\ n \in Channels /\ n # Main
        BY ChannelAssumption, SideTypes DEF Channels
    <2>2. NoData(<<>>, n)
        BY DEF NoData
    <2> QED BY <1>2, <2>1, <2>2 DEF IntroducedOne
<1>4. Flows
    <2> SUFFICES ASSUME NEW s \in Sides, NEW c \in Channels PROVE Flow(s, c, 0, 0)
        BY DEF Flows
    <2>1. Other(s) \in Sides
        BY SideTypes
    <2>2. DOMAIN <<>> = {} /\ Len(<<>>) = 0 /\ 0 + 0 = 0
        OBVIOUS
    <2>3. Continues(<<>>, c, 0, 0)
        BY ContinuesEmpty
    <2> QED BY <1>2, <2>1, <2>2, <2>3 DEF Flow
<1> QED BY <1>1, <1>3, <1>4 DEF DataInv

LEMMA StepFlows == DataInv /\ [Next]_vars => DataInv'
<1> SUFFICES ASSUME DataInv, [Next]_vars PROVE DataInv'
    OBVIOUS
<1>1. Inv'
    BY StepInv DEF DataInv
<1>2. Introduced' /\ Flows'
    BY IntroducedStep, FlowsStep DEF DataInv, Inv
<1> QED BY <1>1, <1>2 DEF DataInv

\* The packet that is being written comes before those that are queued.
LEMMA SendingContinues ==
    ASSUME TypeOK, NEW s \in Sides, NEW c \in Channels, NEW m \in Nat, NEW n \in Nat,
           Flow(s, c, m, n)
    PROVE  Continues(Passing(s), c, got[Other(s)][c] + Len(rx[Other(s)][c]), sent[s][c])
<1> DEFINE v == IF writing[s] = NoPacket THEN <<>> ELSE <<writing[s]>>
           k == got[Other(s)][c] + Len(rx[Other(s)][c])
           last == sent[s][c]
           w == wire[Other(s)]
<1>1. /\ queue[s] \in Seq(Packets) /\ writing[s] \in Packets \cup {NoPacket}
      /\ w \in Seq(Packets) /\ last \in Nat /\ rx[Other(s)][c] \in Seq(Nat \ {0})
      /\ got[Other(s)][c] \in Nat
    BY SideTypes, Types
<1>2. k \in Nat
    BY <1>1
<1>3. /\ Continues(w, c, k, m) /\ Continues(queue[s], c, n, last)
      /\ IF writing[s] # NoPacket /\ IsData(writing[s], c) THEN writing[s].num = m + 1 /\ n = m + 1
         ELSE n = m
    BY DEF Flow
<1>4. v \in Seq(Packets) /\ Continues(v, c, m, n)
    <2>1. Continues(<<>>, c, m, m) /\ <<>> \in Seq(Packets)
        BY ContinuesEmpty
    <2>2. CASE writing[s] = NoPacket
        BY <1>3, <2>1, <2>2
    <2>3. CASE writing[s] # NoPacket
        <3>1. writing[s] \in Packets
            BY <1>1, <2>3
        <3>2. IF IsData(writing[s], c)
              THEN writing[s].num = m + 1 => Continues(Append(<<>>, writing[s]), c, m, m + 1)
              ELSE Continues(Append(<<>>, writing[s]), c, m, m)
            BY <2>1, <3>1, ContinuesAppend
        <3>3. v = Append(<<>>, writing[s]) /\ Append(<<>>, writing[s]) \in Seq(Packets)
            BY <2>1, <2>3, <3>1
        <3> QED BY <1>3, <2>3, <3>2, <3>3
    <2> QED BY <2>2, <2>3
<1>5. Sending(s) = v \o queue[s] /\ Passing(s) = w \o Sending(s)
    BY DEF Sending, Passing
<1> HIDE DEF v, k, last, w
<1>6. Continues(Sending(s), c, m, last) /\ Sending(s) \in Seq(Packets)
    BY <1>1, <1>3, <1>4, <1>5, ContinuesConcat, SendingFacts
<1>7. Continues(Passing(s), c, k, last)
    BY <1>1, <1>2, <1>3, <1>5, <1>6, ContinuesConcat
<1> QED BY <1>7 DEF k, last

\* While both ends of a channel are there no packet of it is lost, repeated or overtaken,
\* however many tasks send and receive, whenever the channel is taken, and whichever other
\* channels are made and closed meanwhile (network.py 243-256, 270-274, 284-289, 605-625).
THEOREM PacketsArrive == Spec => []NothingLost
<1>1. DataInv => NothingLost
    <2> SUFFICES ASSUME DataInv, NEW s \in Sides, NEW c \in Channels, Joined(c)
                 PROVE  LET here == rx[Other(s)][c]  taken == got[Other(s)][c] IN
                        /\ \A i \in DOMAIN here : here[i] = taken + i
                        /\ Continues(Passing(s), c, taken + Len(here), sent[s][c])
        BY DEF NothingLost
    <2>1. Alive(c)
        BY DEF Joined, Listens, Alive
    <2>2. PICK m \in Nat, n \in Nat : Flow(s, c, m, n)
        BY <2>1 DEF DataInv, Flows
    <2>3. Continues(Passing(s), c, got[Other(s)][c] + Len(rx[Other(s)][c]), sent[s][c])
        BY <2>2, SendingContinues DEF DataInv, Inv
    <2> QED BY <2>2, <2>3 DEF Flow
<1>2. Spec => []DataInv
    BY InitData, StepFlows, PTL DEF Spec
<1> QED BY <1>1, <1>2, PTL
=============================================================================
