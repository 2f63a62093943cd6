---------------------------- MODULE PyQueueProofs ----------------------------
(***************************************************************************)
(* Proofs about PyQueue, for any number of tasks, any size of the queue    *)
(* and any number of items: every item is in one place, whoever waits is   *)
(* in his queue and nobody else is, and no wake-up is lost.                *)
(***************************************************************************)
EXTENDS PyQueue, TLAPS

-----------------------------------------------------------------------------
(* Sequences without repetition: what appending, serving the first, removing one,  *)
(* reversing and joining do to the set of their elements                           *)

LEMMA Grow ==
    ASSUME NEW S, NEW T, S \subseteq T, NEW s \in Seq(S)
    PROVE  s \in Seq(T)
    OBVIOUS

LEMMA Elements ==
    ASSUME NEW S, NEW s \in Seq(S), NEW i \in DOMAIN s
    PROVE  s[i] \in S
    OBVIOUS

LEMMA SequenceFacts ==
    ASSUME NEW S, NEW s \in Seq(S)
    PROVE  /\ \A e \in S : Append(s, e) \in Seq(S)
           /\ s # <<>> => Head(s) \in S /\ Tail(s) \in Seq(S)
           /\ \A i \in DOMAIN s : RemoveAt(s, i) \in Seq(S)
           /\ Reverse(s) \in Seq(S)
    BY DEF RemoveAt, Reverse

\* The index of each element of two sequences that are joined.
LEMMA JoinedAt ==
    ASSUME NEW S, NEW s \in Seq(S), NEW r \in Seq(S)
    PROVE  /\ s \o r \in Seq(S) /\ DOMAIN (s \o r) = 1 .. Len(s) + Len(r)
           /\ Len(s \o r) = Len(s) + Len(r)
           /\ \A j \in 1 .. Len(s) + Len(r) :
                (s \o r)[j] = IF j <= Len(s) THEN s[j] ELSE r[j - Len(s)]
    OBVIOUS

LEMMA Added ==
    ASSUME NEW S, NEW s \in Seq(S), IsInjective(s), NEW e, e \notin ToSet(s)
    PROVE  IsInjective(Append(s, e)) /\ ToSet(Append(s, e)) = ToSet(s) \cup {e}
<1>0. /\ DOMAIN s = 1 .. Len(s) /\ Len(s) \in Nat
      /\ DOMAIN Append(s, e) = 1 .. Len(s) + 1
      /\ \A i \in 1 .. Len(s) : Append(s, e)[i] = s[i]
      /\ Append(s, e)[Len(s) + 1] = e
    OBVIOUS
<1>1. IsInjective(Append(s, e))
    <2> SUFFICES ASSUME NEW i \in 1 .. Len(s) + 1, NEW j \in 1 .. Len(s) + 1,
                        Append(s, e)[i] = Append(s, e)[j]
                 PROVE  i = j
        BY <1>0 DEF IsInjective
    <2> QED BY <1>0 DEF IsInjective, ToSet
<1>2. ToSet(Append(s, e)) = ToSet(s) \cup {e}
    <2>1. \A x : x \in ToSet(Append(s, e)) <=> x \in ToSet(s) \cup {e}
        BY <1>0 DEF ToSet
    <2> QED BY <2>1
<1> QED BY <1>1, <1>2

LEMMA Served ==
    ASSUME NEW S, NEW s \in Seq(S), IsInjective(s), s # <<>>
    PROVE  /\ IsInjective(Tail(s)) /\ Head(s) \in ToSet(s)
           /\ ToSet(Tail(s)) = ToSet(s) \ {Head(s)}
<1>0. /\ DOMAIN s = 1 .. Len(s) /\ Len(s) \in Nat \ {0} /\ Head(s) = s[1]
      /\ DOMAIN Tail(s) = 1 .. Len(s) - 1
      /\ \A i \in 1 .. Len(s) - 1 : Tail(s)[i] = s[i + 1]
    OBVIOUS
<1>1. IsInjective(Tail(s))
    <2> SUFFICES ASSUME NEW i \in 1 .. Len(s) - 1, NEW j \in 1 .. Len(s) - 1,
                        Tail(s)[i] = Tail(s)[j]
                 PROVE  i = j
        BY <1>0 DEF IsInjective
    <2> QED BY <1>0 DEF IsInjective
<1>2. ToSet(Tail(s)) = ToSet(s) \ {Head(s)}
    <2>1. ASSUME NEW i \in 1 .. Len(s) - 1 PROVE Tail(s)[i] \in ToSet(s) \ {Head(s)}
        BY <1>0 DEF ToSet, IsInjective
    <2>2. ASSUME NEW i \in 1 .. Len(s), s[i] # Head(s) PROVE s[i] \in ToSet(Tail(s))
        <3>1. i - 1 \in 1 .. Len(s) - 1 /\ s[i] = Tail(s)[i - 1]
            BY <1>0, <2>2
        <3> QED BY <1>0, <3>1 DEF ToSet
    <2> QED BY <1>0, <2>1, <2>2 DEF ToSet
<1>3. Head(s) \in ToSet(s)
    <2>1. 1 \in DOMAIN s
        BY <1>0
    <2> QED BY <1>0, <2>1 DEF ToSet
<1> QED BY <1>1, <1>2, <1>3

\* The elements after the one that is removed move up.
LEMMA RemovedAt ==
    ASSUME NEW S, NEW s \in Seq(S), NEW i \in DOMAIN s
    PROVE  /\ RemoveAt(s, i) \in Seq(S)
           /\ DOMAIN RemoveAt(s, i) = 1 .. Len(s) - 1
           /\ \A j \in 1 .. Len(s) - 1 :
                RemoveAt(s, i)[j] = IF j < i THEN s[j] ELSE s[j + 1]
<1> DEFINE a == SubSeq(s, 1, i - 1)
           b == SubSeq(s, i + 1, Len(s))
<1>0. DOMAIN s = 1 .. Len(s) /\ Len(s) \in Nat \ {0} /\ i \in 1 .. Len(s)
    OBVIOUS
<1>1. /\ a \in Seq(S) /\ Len(a) = i - 1
      /\ \A j \in 1 .. i - 1 : a[j] = s[j]
    BY <1>0
<1>2. /\ b \in Seq(S) /\ Len(b) = Len(s) - i
      /\ \A j \in 1 .. Len(s) - i : b[j] = s[j + i]
    BY <1>0
<1> HIDE DEF a, b
<1>3. /\ a \o b \in Seq(S) /\ Len(a \o b) = Len(s) - 1
      /\ \A j \in 1 .. Len(s) - 1 : (a \o b)[j] = IF j <= i - 1 THEN a[j] ELSE b[j - (i - 1)]
    <2>1. Len(a) + Len(b) = Len(s) - 1
        BY <1>0, <1>1, <1>2
    <2>2. /\ a \o b \in Seq(S) /\ Len(a \o b) = Len(a) + Len(b)
          /\ \A j \in 1 .. Len(a) + Len(b) :
                (a \o b)[j] = IF j <= Len(a) THEN a[j] ELSE b[j - Len(a)]
        BY <1>1, <1>2, JoinedAt
    <2> QED BY <1>1, <2>1, <2>2
<1>4. \A j \in 1 .. Len(s) - 1 : (a \o b)[j] = IF j < i THEN s[j] ELSE s[j + 1]
    <2> SUFFICES ASSUME NEW j \in 1 .. Len(s) - 1
                 PROVE  (a \o b)[j] = IF j < i THEN s[j] ELSE s[j + 1]
        OBVIOUS
    <2>1. CASE j < i
        BY <1>0, <1>1, <1>3, <2>1
    <2>2. CASE ~(j < i)
        <3>1. j - (i - 1) \in 1 .. Len(s) - i /\ (j - (i - 1)) + i = j + 1
            BY <1>0, <2>2
        <3>2. b[j - (i - 1)] = s[j + 1]
            BY <1>2, <3>1
        <3>3. ~(j <= i - 1)
            BY <1>0, <2>2
        <3> QED BY <1>3, <2>2, <3>2, <3>3
    <2> QED BY <2>1, <2>2
<1>5. RemoveAt(s, i) = a \o b
    BY DEF RemoveAt, a, b
<1> QED BY <1>3, <1>4, <1>5

LEMMA Removed ==
    ASSUME NEW S, NEW s \in Seq(S), IsInjective(s), NEW i \in DOMAIN s
    PROVE  /\ IsInjective(RemoveAt(s, i))
           /\ ToSet(RemoveAt(s, i)) = ToSet(s) \ {s[i]}
<1> DEFINE r == RemoveAt(s, i)
<1> HIDE DEF r
<1>0. /\ DOMAIN s = 1 .. Len(s) /\ Len(s) \in Nat \ {0} /\ i \in 1 .. Len(s)
      /\ DOMAIN r = 1 .. Len(s) - 1
      /\ \A j \in 1 .. Len(s) - 1 : r[j] = IF j < i THEN s[j] ELSE s[j + 1]
    BY RemovedAt DEF r
<1>1. IsInjective(r)
    <2> SUFFICES ASSUME NEW j \in 1 .. Len(s) - 1, NEW k \in 1 .. Len(s) - 1, r[j] = r[k]
                 PROVE  j = k
        BY <1>0 DEF IsInjective
    <2> QED BY <1>0 DEF IsInjective
<1>2. ToSet(r) = ToSet(s) \ {s[i]}
    <2>1. ASSUME NEW j \in 1 .. Len(s) - 1 PROVE r[j] \in ToSet(s) \ {s[i]}
        BY <1>0 DEF ToSet, IsInjective
    <2>2. ASSUME NEW j \in 1 .. Len(s), s[j] # s[i] PROVE s[j] \in ToSet(r)
        <3>1. CASE j < i
            BY <1>0, <3>1 DEF ToSet
        <3>2. CASE j > i
            <4>1. j - 1 \in 1 .. Len(s) - 1 /\ s[j] = r[j - 1]
                BY <1>0, <3>2
            <4> QED BY <1>0, <4>1 DEF ToSet
        <3> QED BY <1>0, <2>2, <3>1, <3>2
    <2> QED BY <1>0, <2>1, <2>2 DEF ToSet
<1> QED BY <1>1, <1>2 DEF r

LEMMA Reversed ==
    ASSUME NEW S, NEW s \in Seq(S), IsInjective(s)
    PROVE  /\ Reverse(s) \in Seq(S) /\ IsInjective(Reverse(s))
           /\ ToSet(Reverse(s)) = ToSet(s)
<1>0. /\ DOMAIN s = 1 .. Len(s) /\ Len(s) \in Nat
      /\ DOMAIN Reverse(s) = 1 .. Len(s) /\ Reverse(s) \in Seq(S)
      /\ \A i \in 1 .. Len(s) : Reverse(s)[i] = s[(Len(s) - i) + 1]
    BY DEF Reverse
<1>1. IsInjective(Reverse(s))
    <2> SUFFICES ASSUME NEW i \in 1 .. Len(s), NEW j \in 1 .. Len(s),
                        Reverse(s)[i] = Reverse(s)[j]
                 PROVE  i = j
        BY <1>0 DEF IsInjective
    <2> DEFINE m == (Len(s) - i) + 1
               n == (Len(s) - j) + 1
    <2>0. m \in DOMAIN s /\ n \in DOMAIN s /\ s[m] = s[n]
        BY <1>0
    <2>1. m = n
        BY <2>0 DEF IsInjective
    <2> QED BY <1>0, <2>1
<1>2. ASSUME NEW i \in 1 .. Len(s) PROVE s[i] \in ToSet(Reverse(s))
    <2>1. (Len(s) - i) + 1 \in 1 .. Len(s) /\ Reverse(s)[(Len(s) - i) + 1] = s[i]
        BY <1>0
    <2> QED BY <1>0, <2>1 DEF ToSet
<1>3. ASSUME NEW i \in 1 .. Len(s) PROVE Reverse(s)[i] \in ToSet(s)
    BY <1>0 DEF ToSet
<1>4. ToSet(Reverse(s)) = ToSet(s)
    BY <1>0, <1>2, <1>3 DEF ToSet
<1> QED BY <1>0, <1>1, <1>4

LEMMA Joined ==
    ASSUME NEW S, NEW s \in Seq(S), NEW r \in Seq(S), IsInjective(s), IsInjective(r),
           ToSet(s) \cap ToSet(r) = {}
    PROVE  /\ s \o r \in Seq(S) /\ IsInjective(s \o r)
           /\ ToSet(s \o r) = ToSet(s) \cup ToSet(r)
<1> DEFINE q == s \o r
<1>0. /\ DOMAIN s = 1 .. Len(s) /\ Len(s) \in Nat
      /\ DOMAIN r = 1 .. Len(r) /\ Len(r) \in Nat
      /\ DOMAIN q = 1 .. Len(s) + Len(r) /\ q \in Seq(S)
      /\ \A i \in 1 .. Len(s) + Len(r) : q[i] = IF i <= Len(s) THEN s[i] ELSE r[i - Len(s)]
    BY JoinedAt
<1> HIDE DEF q
<1>1. ASSUME NEW i \in 1 .. Len(s) PROVE s[i] \in ToSet(s) /\ s[i] \in ToSet(q)
    <2>1. i \in DOMAIN q /\ q[i] = s[i]
        BY <1>0
    <2> QED BY <1>0, <2>1 DEF ToSet
<1>2. ASSUME NEW i \in 1 .. Len(r) PROVE r[i] \in ToSet(r) /\ r[i] \in ToSet(q)
    <2>1. i + Len(s) \in 1 .. Len(s) + Len(r)
        BY <1>0
    <2>2. ~(i + Len(s) <= Len(s)) /\ (i + Len(s)) - Len(s) = i
        BY <1>0
    <2>3. q[i + Len(s)] = r[i]
        BY <1>0, <2>1, <2>2
    <2> QED BY <1>0, <2>1, <2>3 DEF ToSet
<1>3. ASSUME NEW i \in DOMAIN q
      PROVE  \/ i \in 1 .. Len(s) /\ q[i] = s[i]
             \/ i - Len(s) \in 1 .. Len(r) /\ q[i] = r[i - Len(s)]
    <2>1. CASE i <= Len(s)
        BY <1>0, <2>1
    <2>2. CASE ~(i <= Len(s))
        <3>1. q[i] = r[i - Len(s)]
            BY <1>0, <2>2
        <3>2. i - Len(s) \in 1 .. Len(r)
            BY <1>0, <2>2
        <3> QED BY <3>1, <3>2
    <2> QED BY <2>1, <2>2
<1>4. IsInjective(q)
    <2> SUFFICES ASSUME NEW i \in DOMAIN q, NEW j \in DOMAIN q, q[i] = q[j]
                 PROVE  i = j
        BY DEF IsInjective
    <2>1. CASE i \in 1 .. Len(s) /\ j \in 1 .. Len(s)
        BY <1>0, <2>1 DEF IsInjective
    <2>2. CASE i - Len(s) \in 1 .. Len(r) /\ j - Len(s) \in 1 .. Len(r)
        <3>1. q[i] = r[i - Len(s)] /\ q[j] = r[j - Len(s)]
            BY <1>0, <1>3, <2>2
        <3>2. i - Len(s) = j - Len(s)
            BY <1>0, <2>2, <3>1 DEF IsInjective
        <3> QED BY <1>0, <3>2
    <2> QED BY <1>0, <1>1, <1>2, <1>3, <2>1, <2>2
<1>5. ToSet(q) = ToSet(s) \cup ToSet(r)
    <2>1. ToSet(q) \subseteq ToSet(s) \cup ToSet(r)
        BY <1>1, <1>2, <1>3 DEF ToSet
    <2>2. ToSet(s) \subseteq ToSet(q) /\ ToSet(r) \subseteq ToSet(q)
        BY <1>0, <1>1, <1>2 DEF ToSet
    <2> QED BY <2>1, <2>2
<1> QED BY <1>0, <1>4, <1>5 DEF q

-----------------------------------------------------------------------------
(* The two columns of the putters: the items and the tasks that wait to put them *)

Items(p) == [i \in DOMAIN p |-> p[i].item]
Owners(p) == [i \in DOMAIN p |-> p[i].task]

LEMMA FieldTypes ==
    ASSUME NEW A, NEW B, NEW p \in Seq([task : A, item : B])
    PROVE  Items(p) \in Seq(B) /\ Owners(p) \in Seq(A)
<1>0. DOMAIN p = 1 .. Len(p) /\ Len(p) \in Nat
    OBVIOUS
<1>1. \A i \in DOMAIN p : p[i].item \in B /\ p[i].task \in A
    <2> TAKE i \in DOMAIN p
    <2>1. p[i] \in [task : A, item : B]
        BY Elements
    <2> QED BY <2>1
<1> QED BY <1>0, <1>1 DEF Items, Owners

LEMMA FieldsOfAdded ==
    ASSUME NEW S, NEW p \in Seq(S), NEW e
    PROVE  /\ Items(Append(p, e)) = Append(Items(p), e.item)
           /\ Owners(Append(p, e)) = Append(Owners(p), e.task)
    BY DEF Items, Owners

LEMMA FieldsOfServed ==
    ASSUME NEW S, NEW p \in Seq(S), p # <<>>
    PROVE  /\ Items(p) # <<>> /\ Owners(p) # <<>>
           /\ Items(Tail(p)) = Tail(Items(p)) /\ Owners(Tail(p)) = Tail(Owners(p))
           /\ Head(Items(p)) = Head(p).item /\ Head(Owners(p)) = Head(p).task
    BY DEF Items, Owners

LEMMA FieldsOfRemoved ==
    ASSUME NEW S, NEW p \in Seq(S), NEW i \in DOMAIN p
    PROVE  /\ i \in DOMAIN Items(p) /\ i \in DOMAIN Owners(p)
           /\ Items(RemoveAt(p, i)) = RemoveAt(Items(p), i)
           /\ Owners(RemoveAt(p, i)) = RemoveAt(Owners(p), i)
<1> DEFINE A == {x.task : x \in S}
           B == {x.item : x \in S}
<1>0. DOMAIN p = 1 .. Len(p) /\ Len(p) \in Nat
    OBVIOUS
<1>1. \A j \in DOMAIN p : p[j].item \in B /\ p[j].task \in A
    BY Elements
<1> HIDE DEF A, B
<1>2. /\ Items(p) \in Seq(B) /\ Len(Items(p)) = Len(p)
      /\ Owners(p) \in Seq(A) /\ Len(Owners(p)) = Len(p)
    BY <1>0, <1>1 DEF Items, Owners
<1>3. i \in DOMAIN Items(p) /\ i \in DOMAIN Owners(p)
    BY DEF Items, Owners
<1>4. /\ DOMAIN RemoveAt(p, i) = 1 .. Len(p) - 1
      /\ DOMAIN RemoveAt(Items(p), i) = 1 .. Len(p) - 1
      /\ DOMAIN RemoveAt(Owners(p), i) = 1 .. Len(p) - 1
      /\ RemoveAt(Items(p), i) \in Seq(B) /\ RemoveAt(Owners(p), i) \in Seq(A)
    BY <1>2, <1>3, RemovedAt
<1>5. \A j \in 1 .. Len(p) - 1 :
         /\ RemoveAt(Items(p), i)[j] = RemoveAt(p, i)[j].item
         /\ RemoveAt(Owners(p), i)[j] = RemoveAt(p, i)[j].task
    <2> TAKE j \in 1 .. Len(p) - 1
    <2>1. /\ RemoveAt(p, i)[j] = IF j < i THEN p[j] ELSE p[j + 1]
          /\ RemoveAt(Items(p), i)[j] = IF j < i THEN Items(p)[j] ELSE Items(p)[j + 1]
          /\ RemoveAt(Owners(p), i)[j] = IF j < i THEN Owners(p)[j] ELSE Owners(p)[j + 1]
        BY <1>2, <1>3, RemovedAt
    <2>2. j \in DOMAIN p /\ j + 1 \in DOMAIN p
        BY <1>0
    <2> QED BY <2>1, <2>2 DEF Items, Owners
<1>6. Items(RemoveAt(p, i)) = RemoveAt(Items(p), i)
    <2>1. \A j \in 1 .. Len(p) - 1 : Items(RemoveAt(p, i))[j] = RemoveAt(p, i)[j].item
        BY <1>4 DEF Items
    <2>2. Items(RemoveAt(p, i)) \in [1 .. Len(p) - 1 -> B]
        BY <1>4, <1>5 DEF Items
    <2>3. RemoveAt(Items(p), i) \in [1 .. Len(p) - 1 -> B]
        BY <1>4
    <2> QED BY <1>5, <2>1, <2>2, <2>3
<1>7. Owners(RemoveAt(p, i)) = RemoveAt(Owners(p), i)
    <2>1. \A j \in 1 .. Len(p) - 1 : Owners(RemoveAt(p, i))[j] = RemoveAt(p, i)[j].task
        BY <1>4 DEF Owners
    <2>2. Owners(RemoveAt(p, i)) \in [1 .. Len(p) - 1 -> A]
        BY <1>4, <1>5 DEF Owners
    <2>3. RemoveAt(Owners(p), i) \in [1 .. Len(p) - 1 -> A]
        BY <1>4
    <2> QED BY <1>5, <2>1, <2>2, <2>3
<1> QED BY <1>3, <1>6, <1>7

-----------------------------------------------------------------------------
(* The parts of TypeOK, which is inductive *)

Flat ==
    /\ maxsize \in MaxSizes /\ unlock \in BOOLEAN /\ repeat \in BOOLEAN
    /\ at \in {"idle", "putters", "getters"} /\ (at # "idle" => unlock)
    /\ turn \in Tasks \cup {Hub}
    /\ pc \in [Tasks -> {"ready"} \cup Waiting]
    /\ turn # Hub => pc[turn] = "ready"
    /\ put \in 0 .. MaxItems /\ failed \subseteq 1 .. put
    /\ queue \in Seq(1 .. put) /\ held \in [Tasks -> Seq(1 .. put)]
    /\ getters \in Seq(Tasks) /\ putters \in Seq([task : Tasks, item : 1 .. put])

\* Who waits is in the queue that his state names, once.
Waits ==
    /\ IsInjective(getters) /\ IsInjective(Owners(putters))
    /\ ToSet(getters) = {t \in Tasks : pc[t] \in {"getting", "peeking"}}
    /\ ToSet(Owners(putters)) = {t \in Tasks : pc[t] = "putting"}

\* No item is twice in the queue, among the putters or with a task, or in two of these.
OnePlace ==
    /\ IsInjective(queue) /\ IsInjective(Items(putters))
    /\ \A t \in Tasks : IsInjective(held[t])
    /\ ToSet(queue) \cap ToSet(Items(putters)) = {}
    /\ \A t \in Tasks : ToSet(held[t]) \cap (ToSet(queue) \cup ToSet(Items(putters))) = {}
    /\ \A t, u \in Tasks : t # u => ToSet(held[t]) \cap ToSet(held[u]) = {}
    /\ failed \cap (ToSet(queue) \cup ToSet(Items(putters))) = {}
    /\ \A t \in Tasks : failed \cap ToSet(held[t]) = {}

\* Every item is in one of these, unless its put() failed.
NoneLost ==
    \A k \in 1 .. put : \/ k \in failed \cup ToSet(queue) \cup ToSet(Items(putters))
                       \/ \E t \in Tasks : k \in ToSet(held[t])

Parts == Flat /\ Waits /\ OnePlace /\ NoneLost

LEMMA FlatStep ==
    ASSUME Flat, [Next]_vars
    PROVE  Flat'
<1> USE QueueAssumption
<1>0. /\ maxsize \in MaxSizes /\ unlock \in BOOLEAN /\ repeat \in BOOLEAN
      /\ at \in {"idle", "putters", "getters"} /\ (at # "idle" => unlock)
      /\ turn \in Tasks \cup {Hub}
      /\ pc \in [Tasks -> {"ready"} \cup Waiting]
      /\ turn # Hub => pc[turn] = "ready"
      /\ put \in 0 .. MaxItems /\ failed \subseteq 1 .. put
      /\ queue \in Seq(1 .. put) /\ held \in [Tasks -> Seq(1 .. put)]
      /\ getters \in Seq(Tasks) /\ putters \in Seq([task : Tasks, item : 1 .. put])
    BY DEF Flat
<1>a. \A w : unlock' = (unlock \/ w # <<>>) => unlock' \in BOOLEAN /\ (unlock => unlock')
    OBVIOUS
<1>1. ASSUME NEW t \in Tasks, Put(t) PROVE Flat'
    <2>1. put' \in 0 .. MaxItems /\ put + 1 \in 1 .. put' /\ 1 .. put \subseteq 1 .. put'
        BY <1>0, <1>1 DEF Put
    <2>2. queue \in Seq(1 .. put') /\ \A u \in Tasks : held[u] \in Seq(1 .. put')
        BY <1>0, <2>1, Grow
    <2>3. /\ putters \in Seq([task : Tasks, item : 1 .. put'])
          /\ [task |-> t, item |-> put + 1] \in [task : Tasks, item : 1 .. put']
        <3>1. [task : Tasks, item : 1 .. put] \subseteq [task : Tasks, item : 1 .. put']
            BY <2>1
        <3> QED BY <1>0, <2>1, <3>1, Grow
    <2>4. queue' \in Seq(1 .. put') /\ putters' \in Seq([task : Tasks, item : 1 .. put'])
        <3>1. Append(queue, put + 1) \in Seq(1 .. put')
            BY <2>1, <2>2, SequenceFacts
        <3>2. Append(putters, [task |-> t, item |-> put + 1])
                \in Seq([task : Tasks, item : 1 .. put'])
            BY <2>3, SequenceFacts
        <3> QED BY <1>1, <2>2, <2>3, <3>1, <3>2 DEF Put
    <2>5. held' \in [Tasks -> Seq(1 .. put')]
        BY <1>0, <1>1, <2>2 DEF Put
    <2>6. unlock' \in BOOLEAN /\ (at' # "idle" => unlock')
        BY <1>0, <1>1, <1>a DEF Put, Schedule, hubVars
    <2>7. /\ pc' \in [Tasks -> {"ready"} \cup Waiting] /\ turn' \in Tasks \cup {Hub}
          /\ turn' # Hub => pc'[turn'] = "ready"
        BY <1>0, <1>1 DEF Put, Block, Waiting
    <2> QED BY <1>0, <1>1, <2>1, <2>4, <2>5, <2>6, <2>7 DEF Flat, Put, hubVars
<1>2. ASSUME NEW t \in Tasks, Get(t) PROVE Flat'
    <2>1. queue # <<>> => Head(queue) \in 1 .. put /\ Tail(queue) \in Seq(1 .. put)
        BY <1>0, SequenceFacts
    <2>2. queue # <<>> => Append(held[t], Head(queue)) \in Seq(1 .. put)
        BY <1>0, <2>1, SequenceFacts
    <2>3. queue' \in Seq(1 .. put) /\ held' \in [Tasks -> Seq(1 .. put)]
        BY <1>0, <1>2, <2>1, <2>2 DEF Get
    <2>4. getters' \in Seq(Tasks)
        <3>1. Append(getters, t) \in Seq(Tasks)
            BY <1>0, SequenceFacts
        <3> QED BY <1>0, <1>2, <3>1 DEF Get
    <2>5. unlock' \in BOOLEAN /\ (at' # "idle" => unlock')
        BY <1>0, <1>2, <1>a DEF Get, Schedule, hubVars
    <2>6. /\ pc' \in [Tasks -> {"ready"} \cup Waiting] /\ turn' \in Tasks \cup {Hub}
          /\ turn' # Hub => pc'[turn'] = "ready"
        BY <1>0, <1>2 DEF Get, Block, Waiting
    <2> QED BY <1>0, <1>2, <2>3, <2>4, <2>5, <2>6 DEF Flat, Get, hubVars
<1>3. ASSUME NEW t \in Tasks, Peek(t) PROVE Flat'
    <2>1. getters' \in Seq(Tasks)
        BY <1>0, <1>3, SequenceFacts DEF Peek
    <2>2. unlock' \in BOOLEAN /\ (at' # "idle" => unlock')
        BY <1>0, <1>3, <1>a DEF Peek, Schedule, hubVars
    <2>3. /\ pc' \in [Tasks -> {"ready"} \cup Waiting] /\ turn' \in Tasks \cup {Hub}
          /\ turn' # Hub => pc'[turn'] = "ready"
        BY <1>0, <1>3 DEF Peek, Block, Waiting
    <2> QED BY <1>0, <1>3, <2>1, <2>2, <2>3 DEF Flat, Peek, hubVars, itemVars
<1>4. ASSUME NEW t \in Tasks, ReturnMany(t) PROVE Flat'
    <2>1. Reverse(held[t]) \in Seq(1 .. put)
        BY <1>0, SequenceFacts
    <2>2. queue' \in Seq(1 .. put) /\ held' \in [Tasks -> Seq(1 .. put)]
        BY <1>0, <1>4, <2>1 DEF ReturnMany
    <2>3. unlock' \in BOOLEAN /\ (at' # "idle" => unlock')
        BY <1>0, <1>4, <1>a DEF ReturnMany, Schedule, hubVars
    <2> QED BY <1>0, <1>4, <2>2, <2>3 DEF Flat, ReturnMany, hubVars
<1>5. ASSUME NEW t \in Tasks, Yield(t) \/ Resume(t) PROVE Flat'
    BY <1>0, <1>5 DEF Flat, Yield, Resume, queueVars, hubVars, itemVars
<1>6. ASSUME NEW t \in Tasks, Interrupt(t) PROVE Flat'
    <2>1. getters' \in Seq(Tasks) /\ putters' \in Seq([task : Tasks, item : 1 .. put])
        BY <1>0, <1>6, SequenceFacts DEF Interrupt
    <2>2. pc' \in [Tasks -> {"ready"} \cup Waiting] /\ turn' = t /\ pc'[t] = "ready"
        BY <1>0, <1>6 DEF Interrupt
    <2>3. failed' \subseteq 1 .. put
        <3>1. ASSUME NEW i \in DOMAIN putters PROVE putters[i].item \in 1 .. put
            <4>1. putters[i] \in [task : Tasks, item : 1 .. put]
                BY <1>0, Elements
            <4> QED BY <4>1
        <3>2. \/ failed' = failed
              \/ \E i \in DOMAIN putters : failed' = failed \cup {putters[i].item}
            BY <1>6 DEF Interrupt
        <3>3. ASSUME NEW i \in DOMAIN putters, failed' = failed \cup {putters[i].item}
              PROVE  failed' \subseteq 1 .. put
            <4>1. \A k \in failed' : k \in failed \/ k = putters[i].item
                BY <3>3
            <4>2. putters[i].item \in 1 .. put /\ failed \subseteq 1 .. put
                BY <1>0, <3>1
            <4> QED BY <4>1, <4>2
        <3> QED BY <1>0, <3>2, <3>3
    <2> QED BY <1>0, <1>6, <2>1, <2>2, <2>3 DEF Flat, Interrupt, hubVars
<1>7. CASE UnlockStarts
    BY <1>0, <1>7 DEF Flat, UnlockStarts, queueVars, itemVars
<1>8. CASE UnlockPutter
    <2>1. CASE putters # <<>> /\ Free
        <3>1. /\ Head(putters) \in [task : Tasks, item : 1 .. put]
              /\ Tail(putters) \in Seq([task : Tasks, item : 1 .. put])
            BY <1>0, <2>1, SequenceFacts
        <3>2. Head(putters).item \in 1 .. put /\ Head(putters).task \in Tasks
            BY <3>1
        <3>3. queue' \in Seq(1 .. put)
            <4>1. Append(queue, Head(putters).item) \in Seq(1 .. put)
                BY <1>0, <3>2, SequenceFacts
            <4> QED BY <1>8, <2>1, <4>1 DEF UnlockPutter, itemVars
        <3>4. /\ pc' \in [Tasks -> {"ready"} \cup Waiting] /\ turn' \in Tasks
              /\ pc'[turn'] = "ready"
            BY <1>0, <1>8, <2>1, <3>2 DEF UnlockPutter, itemVars
        <3>5. unlock
            BY <1>0, <1>8 DEF UnlockPutter, itemVars
        <3> QED BY <1>0, <1>8, <2>1, <3>1, <3>3, <3>4, <3>5 DEF Flat, UnlockPutter, itemVars
    <2>2. CASE ~(putters # <<>> /\ Free)
        BY <1>0, <1>8, <2>2 DEF Flat, UnlockPutter, itemVars
    <2> QED BY <2>1, <2>2
<1>9. CASE UnlockGetter
    <2>1. CASE getters # <<>> /\ queue # <<>>
        <3>1. Head(getters) \in Tasks /\ Tail(getters) \in Seq(Tasks)
            BY <1>0, <2>1, SequenceFacts
        <3>2. Head(queue) \in 1 .. put /\ Tail(queue) \in Seq(1 .. put)
            BY <1>0, <2>1, SequenceFacts
        <3>3. Append(held[Head(getters)], Head(queue)) \in Seq(1 .. put)
            BY <1>0, <3>1, <3>2, SequenceFacts
        <3>4. /\ queue' \in Seq(1 .. put) /\ held' \in [Tasks -> Seq(1 .. put)]
              /\ getters' \in Seq(Tasks)
            BY <1>0, <1>9, <2>1, <3>1, <3>2, <3>3 DEF UnlockGetter
        <3>5. /\ pc' \in [Tasks -> {"ready"} \cup Waiting] /\ turn' \in Tasks
              /\ pc'[turn'] = "ready"
            BY <1>0, <1>9, <2>1, <3>1 DEF UnlockGetter
        <3>6. unlock
            BY <1>0, <1>9 DEF UnlockGetter
        <3> QED BY <1>0, <1>9, <2>1, <3>4, <3>5, <3>6 DEF Flat, UnlockGetter
    <2>2. CASE ~(getters # <<>> /\ queue # <<>>)
        BY <1>0, <1>9, <2>2 DEF Flat, UnlockGetter
    <2> QED BY <2>1, <2>2
<1>10. CASE UNCHANGED vars
    BY <1>0, <1>10 DEF Flat, vars, queueVars, hubVars, itemVars
<1> QED BY <1>1, <1>2, <1>3, <1>4, <1>5, <1>6, <1>7, <1>8, <1>9, <1>10
        DEF Next, TaskStep, Unlock

LEMMA WaitsStep ==
    ASSUME Flat, Waits, [Next]_vars
    PROVE  Waits'
<1> USE QueueAssumption
<1> DEFINE Gets(f) == {t \in Tasks : f[t] \in {"getting", "peeking"}}
           Puts(f) == {t \in Tasks : f[t] = "putting"}
<1>0. /\ turn \in Tasks \cup {Hub}
      /\ pc \in [Tasks -> {"ready"} \cup Waiting]
      /\ turn # Hub => pc[turn] = "ready"
      /\ getters \in Seq(Tasks) /\ putters \in Seq([task : Tasks, item : 1 .. put])
    BY DEF Flat
<1>a. /\ IsInjective(getters) /\ IsInjective(Owners(putters))
      /\ ToSet(getters) = Gets(pc) /\ ToSet(Owners(putters)) = Puts(pc)
    BY DEF Waits
<1>b. Owners(putters) \in Seq(Tasks)
    BY <1>0, FieldTypes
<1>u. ASSUME UNCHANGED <<getters, putters, pc>> PROVE Waits'
    BY <1>u DEF Waits, Owners
<1>1. ASSUME NEW t \in Tasks, Put(t) PROVE Waits'
    <2>1. CASE Free
        BY <1>1, <1>u, <2>1 DEF Put
    <2>2. CASE ~Free
        <3>1. pc[t] = "ready" /\ pc' = [pc EXCEPT ![t] = "putting"] /\ getters' = getters
            BY <1>0, <1>1, <2>2 DEF Put, Block
        <3>2. Owners(putters') = Append(Owners(putters), t)
            <4>1. Owners(Append(putters, [task |-> t, item |-> put + 1]))
                    = Append(Owners(putters), [task |-> t, item |-> put + 1].task)
                BY <1>0, FieldsOfAdded
            <4> QED BY <1>1, <2>2, <4>1 DEF Put
        <3>3. t \notin ToSet(Owners(putters))
            BY <1>a, <3>1
        <3>4. /\ IsInjective(Owners(putters'))
              /\ ToSet(Owners(putters')) = ToSet(Owners(putters)) \cup {t}
            BY <1>a, <1>b, <3>2, <3>3, Added
        <3>5. Gets(pc') = Gets(pc) /\ Puts(pc') = Puts(pc) \cup {t}
            BY <1>0, <3>1
        <3> QED BY <1>a, <3>1, <3>4, <3>5 DEF Waits, Owners
    <2> QED BY <2>1, <2>2
<1>2. ASSUME NEW t \in Tasks, NEW how \in {"getting", "peeking"}, pc[t] = "ready",
             getters' = Append(getters, t), pc' = [pc EXCEPT ![t] = how],
             putters' = putters
      PROVE  Waits'
    <2>1. t \notin ToSet(getters)
        BY <1>a, <1>2
    <2>2. IsInjective(getters') /\ ToSet(getters') = ToSet(getters) \cup {t}
        BY <1>0, <1>a, <1>2, <2>1, Added
    <2>3. Gets(pc') = Gets(pc) \cup {t} /\ Puts(pc') = Puts(pc)
        BY <1>0, <1>2
    <2> QED BY <1>2, <1>a, <2>2, <2>3 DEF Waits, Owners
<1>3. ASSUME NEW t \in Tasks, Get(t) PROVE Waits'
    <2>1. CASE queue # <<>>
        BY <1>3, <1>u, <2>1 DEF Get
    <2>2. CASE queue = <<>>
        BY <1>0, <1>2, <1>3, <2>2 DEF Get, Block
    <2> QED BY <2>1, <2>2
<1>4. ASSUME NEW t \in Tasks, Peek(t) PROVE Waits'
    BY <1>0, <1>2, <1>4 DEF Peek, Block
<1>5. ASSUME NEW t \in Tasks, ReturnMany(t) \/ Yield(t) \/ Resume(t) PROVE Waits'
    BY <1>5, <1>u DEF ReturnMany, Yield, Resume, queueVars, itemVars
<1>6. ASSUME NEW t \in Tasks, NEW i \in DOMAIN getters, getters[i] = t,
             getters' = RemoveAt(getters, i), pc' = [pc EXCEPT ![t] = "ready"],
             putters' = putters
      PROVE  Waits'
    <2>1. IsInjective(getters') /\ ToSet(getters') = ToSet(getters) \ {t}
        BY <1>0, <1>a, <1>6, Removed
    <2>2. t \in Gets(pc)
        BY <1>a, <1>6 DEF ToSet
    <2>3. Gets(pc') = Gets(pc) \ {t} /\ Puts(pc') = Puts(pc)
        BY <1>0, <1>6, <2>2
    <2> QED BY <1>6, <1>a, <2>1, <2>3 DEF Waits, Owners
<1>7. ASSUME NEW t \in Tasks, NEW i \in DOMAIN putters, putters[i].task = t,
             putters' = RemoveAt(putters, i), pc' = [pc EXCEPT ![t] = "ready"],
             getters' = getters
      PROVE  Waits'
    <2>1. /\ Owners(putters') = RemoveAt(Owners(putters), i)
          /\ i \in DOMAIN Owners(putters) /\ Owners(putters)[i] = t
        <3>1. Owners(RemoveAt(putters, i)) = RemoveAt(Owners(putters), i)
            BY <1>0, FieldsOfRemoved
        <3> QED BY <1>7, <3>1 DEF Owners
    <2>2. /\ IsInjective(Owners(putters'))
          /\ ToSet(Owners(putters')) = ToSet(Owners(putters)) \ {t}
        BY <1>a, <1>b, <2>1, Removed
    <2>3. t \in Puts(pc)
        BY <1>a, <2>1 DEF ToSet
    <2>4. Gets(pc') = Gets(pc) /\ Puts(pc') = Puts(pc) \ {t}
        BY <1>0, <1>7, <2>3
    <2> QED BY <1>7, <1>a, <2>2, <2>4 DEF Waits, Owners
<1>8. ASSUME NEW t \in Tasks, Interrupt(t) PROVE Waits'
    BY <1>6, <1>7, <1>8 DEF Interrupt
<1>9. CASE UnlockStarts
    BY <1>9, <1>u DEF UnlockStarts, queueVars, itemVars
<1>10. CASE UnlockPutter
    <2>1. CASE putters # <<>> /\ Free
        <3> DEFINE t == Head(putters).task
        <3>1. /\ Owners(putters') = Tail(Owners(putters)) /\ Owners(putters) # <<>>
              /\ Head(Owners(putters)) = t
            <4>1. /\ Owners(Tail(putters)) = Tail(Owners(putters)) /\ Owners(putters) # <<>>
                  /\ Head(Owners(putters)) = Head(putters).task
                BY <1>0, <2>1, FieldsOfServed
            <4> QED BY <1>10, <2>1, <4>1 DEF UnlockPutter, itemVars
        <3>2. pc' = [pc EXCEPT ![t] = "ready"] /\ getters' = getters
            BY <1>10, <2>1 DEF UnlockPutter, itemVars
        <3> HIDE DEF t
        <3>3. /\ IsInjective(Owners(putters')) /\ t \in ToSet(Owners(putters))
              /\ ToSet(Owners(putters')) = ToSet(Owners(putters)) \ {t}
            BY <1>a, <1>b, <3>1, Served
        <3>4. t \in Puts(pc)
            BY <1>a, <3>3
        <3>5. Gets(pc') = Gets(pc) /\ Puts(pc') = Puts(pc) \ {t}
            BY <1>0, <3>2, <3>4
        <3> QED BY <1>a, <3>2, <3>3, <3>5 DEF Waits, Owners
    <2>2. CASE ~(putters # <<>> /\ Free)
        BY <1>10, <1>u, <2>2 DEF UnlockPutter, itemVars
    <2> QED BY <2>1, <2>2
<1>11. CASE UnlockGetter
    <2>1. CASE getters # <<>> /\ queue # <<>>
        <3> DEFINE t == Head(getters)
        <3>1. pc' = [pc EXCEPT ![t] = "ready"] /\ getters' = Tail(getters)
              /\ putters' = putters
            BY <1>11, <2>1 DEF UnlockGetter
        <3>2. /\ IsInjective(getters') /\ t \in ToSet(getters)
              /\ ToSet(getters') = ToSet(getters) \ {t}
            BY <1>0, <1>a, <2>1, <3>1, Served
        <3> HIDE DEF t
        <3>3. t \in Gets(pc)
            BY <1>a, <3>2
        <3>4. Gets(pc') = Gets(pc) \ {t} /\ Puts(pc') = Puts(pc)
            BY <1>0, <3>1, <3>3
        <3> QED BY <1>a, <3>1, <3>2, <3>4 DEF Waits, Owners
    <2>2. CASE ~(getters # <<>> /\ queue # <<>>)
        BY <1>11, <1>u, <2>2 DEF UnlockGetter
    <2> QED BY <2>1, <2>2
<1>12. CASE UNCHANGED vars
    BY <1>12, <1>u DEF vars, queueVars, itemVars
<1> QED BY <1>1, <1>3, <1>4, <1>5, <1>8, <1>9, <1>10, <1>11, <1>12
        DEF Next, TaskStep, Unlock

LEMMA PlacesStep ==
    ASSUME Flat, OnePlace, NoneLost, [Next]_vars
    PROVE  OnePlace' /\ NoneLost'
<1> USE QueueAssumption
<1> DEFINE P(q) == ToSet(Items(q))
           Goal == OnePlace' /\ NoneLost'
<1>0. /\ put \in Nat /\ failed \subseteq 1 .. put
      /\ queue \in Seq(1 .. put) /\ held \in [Tasks -> Seq(1 .. put)]
      /\ putters \in Seq([task : Tasks, item : 1 .. put])
    BY DEF Flat
<1>a. /\ IsInjective(queue) /\ IsInjective(Items(putters))
      /\ \A t \in Tasks : IsInjective(held[t])
      /\ ToSet(queue) \cap P(putters) = {}
      /\ \A t \in Tasks : ToSet(held[t]) \cap (ToSet(queue) \cup P(putters)) = {}
      /\ \A t, u \in Tasks : t # u => ToSet(held[t]) \cap ToSet(held[u]) = {}
      /\ failed \cap (ToSet(queue) \cup P(putters)) = {}
      /\ \A t \in Tasks : failed \cap ToSet(held[t]) = {}
    BY DEF OnePlace, NoneLost
<1>k. \A k \in 1 .. put : \/ k \in failed \cup ToSet(queue) \cup P(putters)
                         \/ \E t \in Tasks : k \in ToSet(held[t])
    BY DEF NoneLost
<1>b. Items(putters) \in Seq(1 .. put) /\ \A t \in Tasks : held[t] \in Seq(1 .. put)
    BY <1>0, FieldTypes
<1>u. ASSUME UNCHANGED <<queue, putters, held, put, failed>> PROVE Goal
    BY <1>u DEF OnePlace, NoneLost
<1>1. ASSUME NEW t \in Tasks, Put(t) PROVE Goal
    <2>1. \A s \in Seq(1 .. put) : put + 1 \notin ToSet(s)
        <3> SUFFICES ASSUME NEW s \in Seq(1 .. put), NEW i \in DOMAIN s
                     PROVE  s[i] # put + 1
            BY DEF ToSet
        <3>1. s[i] \in 1 .. put
            BY Elements
        <3> QED BY <1>0, <3>1
    <2>2. /\ put + 1 \notin ToSet(queue) /\ put + 1 \notin P(putters)
          /\ \A u \in Tasks : put + 1 \notin ToSet(held[u])
          /\ put + 1 \notin failed /\ put' = put + 1 /\ failed' = failed
          /\ \A k \in 1 .. put + 1 : k = put + 1 \/ k \in 1 .. put
        BY <1>0, <1>1, <1>b, <2>1 DEF Put
    <2>3. CASE Free
        <3>1. queue' = Append(queue, put + 1) /\ putters' = putters /\ held' = held
            BY <1>1, <2>3 DEF Put
        <3>2. IsInjective(queue') /\ ToSet(queue') = ToSet(queue) \cup {put + 1}
            BY <1>0, <1>a, <2>2, <3>1, Added
        <3>3. ToSet(queue') \cap P(putters') = {}
            BY <1>a, <2>2, <3>1, <3>2
        <3>4. \A u \in Tasks :
                  ToSet(held[u]) \cap (ToSet(queue') \cup P(putters')) = {}
            BY <1>a, <2>2, <3>1, <3>2
        <3>5. NoneLost'
            BY <1>k, <2>2, <3>1, <3>2 DEF NoneLost
        <3>6. failed \cap (ToSet(queue') \cup P(putters')) = {}
            BY <1>a, <2>2, <3>1, <3>2
        <3> QED BY <1>a, <2>2, <3>1, <3>2, <3>3, <3>4, <3>5, <3>6 DEF OnePlace, NoneLost
    <2>4. CASE ~Free
        <3>1. queue' = queue /\ held' = held
              /\ putters' = Append(putters, [task |-> t, item |-> put + 1])
            BY <1>1, <2>4 DEF Put
        <3>2. Items(putters') = Append(Items(putters), put + 1)
            <4>1. Items(Append(putters, [task |-> t, item |-> put + 1]))
                    = Append(Items(putters), [task |-> t, item |-> put + 1].item)
                BY <1>0, FieldsOfAdded
            <4> QED BY <3>1, <4>1
        <3>3. IsInjective(Items(putters')) /\ P(putters') = P(putters) \cup {put + 1}
            BY <1>a, <1>b, <2>2, <3>2, Added
        <3>4. ToSet(queue) \cap P(putters') = {}
            BY <1>a, <2>2, <3>3
        <3>5. \A u \in Tasks :
                  ToSet(held[u]) \cap (ToSet(queue) \cup P(putters')) = {}
            BY <1>a, <2>2, <3>3
        <3>6. NoneLost'
            BY <1>k, <2>2, <3>1, <3>3 DEF NoneLost
        <3>7. failed \cap (ToSet(queue) \cup P(putters')) = {}
            BY <1>a, <2>2, <3>3
        <3> QED BY <1>a, <2>2, <3>1, <3>3, <3>4, <3>5, <3>6, <3>7 DEF OnePlace, NoneLost
    <2> QED BY <2>3, <2>4
\* The first item of the queue goes to task t.
<1>2. ASSUME NEW t \in Tasks, queue # <<>>, queue' = Tail(queue), putters' = putters,
             held' = [held EXCEPT ![t] = Append(@, Head(queue))], put' = put, failed' = failed
      PROVE  Goal
    <2> DEFINE k == Head(queue)
    <2>1. /\ IsInjective(queue') /\ k \in ToSet(queue)
          /\ ToSet(queue') = ToSet(queue) \ {k}
        BY <1>0, <1>2, <1>a, Served
    <2>2. /\ held'[t] = Append(held[t], k)
          /\ \A u \in Tasks : u # t => held'[u] = held[u]
        BY <1>0, <1>2
    <2> HIDE DEF k
    <2>3. \A u \in Tasks : k \notin ToSet(held[u])
        BY <1>a, <2>1
    <2>4. k \notin P(putters)
        BY <1>a, <2>1
    <2>5. IsInjective(held'[t]) /\ ToSet(held'[t]) = ToSet(held[t]) \cup {k}
        BY <1>a, <1>b, <2>2, <2>3, Added
    <2>6. \A u \in Tasks : /\ IsInjective(held'[u])
                          /\ ToSet(held'[u]) \cap (ToSet(queue') \cup P(putters)) = {}
        <3> TAKE u \in Tasks
        <3>1. CASE u = t
            BY <1>a, <2>1, <2>4, <2>5, <3>1
        <3>2. CASE u # t
            BY <1>a, <2>1, <2>2, <3>2
        <3> QED BY <3>1, <3>2
    <2>7. \A u, w \in Tasks : u # w => ToSet(held'[u]) \cap ToSet(held'[w]) = {}
        <3> TAKE u, w \in Tasks
        <3>1. CASE u # t /\ w # t
            BY <1>a, <2>2, <3>1
        <3>2. CASE u = t /\ w # t
            <4>1. ToSet(held[t]) \cap ToSet(held[w]) = {} /\ k \notin ToSet(held[w])
                BY <1>a, <2>3, <3>2
            <4> QED BY <2>2, <2>5, <3>2, <4>1
        <3>3. CASE u # t /\ w = t
            <4>1. ToSet(held[u]) \cap ToSet(held[t]) = {} /\ k \notin ToSet(held[u])
                BY <1>a, <2>3, <3>3
            <4> QED BY <2>2, <2>5, <3>3, <4>1
        <3> QED BY <3>1, <3>2, <3>3
    <2>8. \A u \in Tasks : failed \cap ToSet(held'[u]) = {}
        <3> TAKE u \in Tasks
        <3>1. CASE u = t
            BY <1>a, <2>1, <2>5, <3>1
        <3>2. CASE u # t
            BY <1>a, <2>2, <3>2
        <3> QED BY <3>1, <3>2
    <2>9. NoneLost'
        <3>1. \A u \in Tasks : ToSet(held[u]) \subseteq ToSet(held'[u])
            BY <2>2, <2>5
        <3>2. k \in ToSet(held'[t])
            BY <2>5
        <3>3. ASSUME NEW j \in 1 .. put
              PROVE  \/ j \in failed \cup ToSet(queue') \cup P(putters)
                     \/ \E u \in Tasks : j \in ToSet(held'[u])
            BY <1>k, <2>1, <3>1, <3>2
        <3> QED BY <1>2, <3>3 DEF NoneLost
    <2> QED BY <1>2, <1>a, <2>1, <2>6, <2>7, <2>8, <2>9 DEF OnePlace, NoneLost
<1>3. ASSUME NEW t \in Tasks, Get(t) PROVE Goal
    <2>1. CASE queue # <<>>
        BY <1>2, <1>3, <2>1 DEF Get
    <2>2. CASE queue = <<>>
        BY <1>3, <1>u, <2>2 DEF Get
    <2> QED BY <2>1, <2>2
<1>4. ASSUME NEW t \in Tasks, ReturnMany(t) PROVE Goal
    <2> DEFINE r == Reverse(held[t])
    <2>1. queue' = r \o queue /\ held' = [held EXCEPT ![t] = <<>>] /\ putters' = putters
          /\ put' = put /\ failed' = failed
        BY <1>4 DEF ReturnMany
    <2>2. r \in Seq(1 .. put) /\ IsInjective(r) /\ ToSet(r) = ToSet(held[t])
        BY <1>a, <1>b, Reversed
    <2>3. held'[t] = <<>> /\ \A u \in Tasks : u # t => held'[u] = held[u]
        BY <1>0, <2>1
    <2> HIDE DEF r
    <2>4. ToSet(r) \cap ToSet(queue) = {}
        BY <1>a, <2>2
    <2>5. IsInjective(queue') /\ ToSet(queue') = ToSet(held[t]) \cup ToSet(queue)
        BY <1>0, <1>a, <2>1, <2>2, <2>4, Joined
    <2>6. ToSet(held'[t]) = {} /\ IsInjective(held'[t])
        BY <2>3 DEF ToSet, IsInjective
    <2>7. NoneLost'
        <3> SUFFICES ASSUME NEW k \in 1 .. put, k \notin failed \cup ToSet(queue') \cup P(putters)
                     PROVE  \E u \in Tasks : k \in ToSet(held'[u])
            BY <2>1 DEF NoneLost
        <3>1. PICK u \in Tasks : k \in ToSet(held[u])
            BY <1>k, <2>5
        <3>2. u # t
            BY <2>5, <3>1
        <3> QED BY <2>3, <3>1, <3>2
    <2>8. \A u \in Tasks : /\ failed \cap ToSet(held'[u]) = {}
                          /\ ToSet(held'[u]) \cap (ToSet(queue') \cup P(putters)) = {}
        <3> TAKE u \in Tasks
        <3>1. CASE u = t
            BY <2>6, <3>1
        <3>2. CASE u # t
            BY <1>a, <2>3, <2>5, <3>2
        <3> QED BY <3>1, <3>2
    <2>9. failed \cap (ToSet(queue') \cup P(putters)) = {} /\ ToSet(queue') \cap P(putters) = {}
        BY <1>a, <2>5
    <2>10. \A u \in Tasks : IsInjective(held'[u])
        BY <1>a, <2>3, <2>6
    <2>11. \A u, w \in Tasks : u # w => ToSet(held'[u]) \cap ToSet(held'[w]) = {}
        BY <1>a, <2>3, <2>6
    <2> QED BY <1>a, <2>1, <2>5, <2>7, <2>8, <2>9, <2>10, <2>11 DEF OnePlace
<1>5. ASSUME NEW t \in Tasks, Peek(t) \/ Yield(t) \/ Resume(t) PROVE Goal
    BY <1>5, <1>u DEF Peek, Yield, Resume, queueVars, itemVars
<1>6. ASSUME NEW t \in Tasks, Interrupt(t) PROVE Goal
    <2>1. ASSUME NEW i \in DOMAIN putters, putters' = RemoveAt(putters, i),
                 queue' = queue, held' = held, put' = put,
                 failed' = failed \cup {putters[i].item}
          PROVE  Goal
        <3>1. Items(putters') = RemoveAt(Items(putters), i) /\ i \in DOMAIN Items(putters)
            BY <1>0, <2>1, FieldsOfRemoved
        <3> DEFINE k == putters[i].item
        <3>2. Items(putters)[i] = k
            BY <3>1 DEF Items
        <3>3. /\ IsInjective(Items(putters')) /\ P(putters') = P(putters) \ {k}
              /\ k \in P(putters)
            <4>1. /\ IsInjective(RemoveAt(Items(putters), i))
                  /\ ToSet(RemoveAt(Items(putters), i)) = P(putters) \ {Items(putters)[i]}
                BY <1>a, <1>b, <3>1, Removed
            <4>2. Items(putters)[i] \in P(putters)
                BY <3>1 DEF ToSet
            <4> QED BY <3>1, <3>2, <4>1, <4>2
        <3>4. failed' = failed \cup {k}
            BY <2>1
        <3> HIDE DEF k
        <3>5. NoneLost'
            BY <1>k, <2>1, <3>3, <3>4 DEF NoneLost
        <3> QED BY <1>a, <2>1, <3>3, <3>4, <3>5 DEF OnePlace, NoneLost
    <2> QED BY <1>6, <1>u, <2>1 DEF Interrupt
<1>7. CASE UnlockStarts
    BY <1>7, <1>u DEF UnlockStarts, queueVars, itemVars
<1>8. CASE UnlockPutter
    <2>1. CASE putters # <<>> /\ Free
        <3> DEFINE k == Head(putters).item
        <3>1. Items(putters') = Tail(Items(putters)) /\ Items(putters) # <<>>
              /\ Head(Items(putters)) = k
            <4>1. /\ Items(Tail(putters)) = Tail(Items(putters)) /\ Items(putters) # <<>>
                  /\ Head(Items(putters)) = Head(putters).item
                BY <1>0, <2>1, FieldsOfServed
            <4> QED BY <1>8, <2>1, <4>1 DEF UnlockPutter, itemVars
        <3>2. queue' = Append(queue, k) /\ held' = held /\ put' = put /\ failed' = failed
            BY <1>8, <2>1 DEF UnlockPutter, itemVars
        <3> HIDE DEF k
        <3>3. /\ IsInjective(Items(putters')) /\ k \in P(putters)
              /\ P(putters') = P(putters) \ {k}
            BY <1>a, <1>b, <3>1, Served
        <3>4. k \notin ToSet(queue)
            BY <1>a, <3>3
        <3>5. IsInjective(queue') /\ ToSet(queue') = ToSet(queue) \cup {k}
            BY <1>0, <1>a, <3>2, <3>4, Added
        <3>6. NoneLost'
            BY <1>k, <3>2, <3>3, <3>5 DEF NoneLost
        <3>7. /\ ToSet(queue') \cap P(putters') = {}
              /\ failed \cap (ToSet(queue') \cup P(putters')) = {}
            BY <1>a, <3>3, <3>5
        <3>8. \A u \in Tasks :
                  ToSet(held[u]) \cap (ToSet(queue') \cup P(putters')) = {}
            BY <1>a, <3>3, <3>5
        <3> QED BY <1>a, <3>2, <3>3, <3>5, <3>6, <3>7, <3>8 DEF OnePlace
    <2>2. CASE ~(putters # <<>> /\ Free)
        BY <1>8, <1>u, <2>2 DEF UnlockPutter, itemVars
    <2> QED BY <2>1, <2>2
<1>9. CASE UnlockGetter
    <2>1. CASE getters # <<>> /\ queue # <<>> /\ pc[Head(getters)] = "getting"
        <3>1. Head(getters) \in Tasks
            BY <2>1, SequenceFacts DEF Flat
        <3> QED BY <1>2, <1>9, <2>1, <3>1 DEF UnlockGetter
    <2>2. CASE ~(getters # <<>> /\ queue # <<>> /\ pc[Head(getters)] = "getting")
        BY <1>9, <1>u, <2>2 DEF UnlockGetter
    <2> QED BY <2>1, <2>2
<1>10. CASE UNCHANGED vars
    BY <1>10, <1>u DEF vars, queueVars, itemVars
<1> QED BY <1>1, <1>3, <1>4, <1>5, <1>6, <1>7, <1>8, <1>9, <1>10
        DEF Next, TaskStep, Unlock

LEMMA PartsOfTypeOK == Parts => TypeOK
<1> SUFFICES ASSUME Flat, Waits, OnePlace, NoneLost PROVE TypeOK
    BY DEF Parts
<1>1. /\ IsInjective(getters)
      /\ ToSet(getters) = {t \in Tasks : pc[t] \in {"getting", "peeking"}}
      /\ IsInjective([i \in DOMAIN putters |-> putters[i].task])
    BY DEF Waits, Owners
<1>2. {putters[i].task : i \in DOMAIN putters} = {t \in Tasks : pc[t] = "putting"}
    <2>1. ToSet(Owners(putters)) = {putters[i].task : i \in DOMAIN putters}
        BY DEF ToSet, Owners
    <2> QED BY <2>1 DEF Waits
<1>3. Promised = Items(putters)
    BY DEF Promised, Items
<1>4. ASSUME NEW k \in 1 .. put, NEW x \in Places(k), NEW y \in Places(k) PROVE x = y
    <2> DEFINE InHeld(z) == \E t \in Tasks : \E i \in Where(held[t], k) :
                                z = <<"held", <<t, i>>>>
               InQueue(z) == \E i \in Where(queue, k) : z = <<"queue", i>>
               InPromised(z) == \E i \in Where(Items(putters), k) : z = <<"putters", i>>
    <2>1. ASSUME NEW z \in Places(k) PROVE InQueue(z) \/ InPromised(z) \/ InHeld(z)
        BY <1>3, <2>1 DEF Places
    <2>2. \A q : \A i \in Where(q, k) : i \in DOMAIN q /\ q[i] = k /\ k \in ToSet(q)
        BY DEF Where, ToSet
    <2>3. \A q : IsInjective(q) => \A i, j \in Where(q, k) : i = j
        BY DEF Where, IsInjective
    <2>4. /\ InQueue(x) /\ InQueue(y) => x = y
          /\ InPromised(x) /\ InPromised(y) => x = y
        BY <2>3 DEF OnePlace
    <2>5. InHeld(x) /\ InHeld(y) => x = y
        <3> SUFFICES ASSUME NEW t \in Tasks, NEW u \in Tasks,
                            NEW i \in Where(held[t], k), NEW j \in Where(held[u], k)
                     PROVE  t = u /\ i = j
            OBVIOUS
        <3>1. t = u
            BY <2>2 DEF OnePlace
        <3> QED BY <2>3, <3>1 DEF OnePlace
    <2>6. /\ ~(InQueue(x) /\ InPromised(y)) /\ ~(InPromised(x) /\ InQueue(y))
          /\ ~(InHeld(x) /\ InPromised(y)) /\ ~(InPromised(x) /\ InHeld(y))
          /\ ~(InQueue(x) /\ InHeld(y)) /\ ~(InHeld(x) /\ InQueue(y))
        BY <2>2 DEF OnePlace
    <2> QED BY <2>1, <2>4, <2>5, <2>6
<1>5. ASSUME NEW k \in 1 .. put PROVE k \in failed <=> Places(k) = {}
    <2>1. \A q : k \in ToSet(q) <=> \E i \in DOMAIN q : i \in Where(q, k)
        BY DEF ToSet, Where
    <2>2. ASSUME k \notin failed PROVE Places(k) # {}
        <3>1. CASE k \in ToSet(queue)
            <4>1. PICK i : i \in Where(queue, k)
                BY <2>1, <3>1
            <4>2. <<"queue", i>> \in {"queue"} \X Where(queue, k)
                BY <4>1
            <4> QED BY <4>2 DEF Places
        <3>2. CASE k \in ToSet(Items(putters))
            <4>1. PICK i : i \in Where(Promised, k)
                BY <1>3, <2>1, <3>2
            <4>2. <<"putters", i>> \in {"putters"} \X Where(Promised, k)
                BY <4>1
            <4> QED BY <4>2 DEF Places
        <3>3. ASSUME NEW t \in Tasks, k \in ToSet(held[t]) PROVE Places(k) # {}
            <4>1. PICK i \in DOMAIN held[t] : i \in Where(held[t], k)
                BY <2>1, <3>3
            <4>2. <<t, i>> \in UNION {{u} \X Where(held[u], k) : u \in Tasks}
                BY <4>1
            <4>3. <<"held", <<t, i>>>>
                    \in {"held"} \X UNION {{u} \X Where(held[u], k) : u \in Tasks}
                BY <4>2
            <4> QED BY <4>3 DEF Places
        <3> QED BY <2>2, <3>1, <3>2, <3>3 DEF NoneLost
    <2>3. ASSUME k \in failed PROVE Places(k) = {}
        <3>1. /\ k \notin ToSet(queue) /\ k \notin ToSet(Items(putters))
              /\ \A t \in Tasks : k \notin ToSet(held[t])
            BY <2>3 DEF OnePlace
        <3>2. /\ Where(queue, k) = {} /\ Where(Items(putters), k) = {}
              /\ \A t \in Tasks : Where(held[t], k) = {}
            BY <3>1 DEF ToSet, Where
        <3> QED BY <1>3, <3>2 DEF Places
    <2> QED BY <2>2, <2>3
<1> QED BY <1>1, <1>2, <1>4, <1>5 DEF Flat, TypeOK

LEMMA PartsInit ==
    ASSUME Init
    PROVE  Parts
<1>0. ToSet(<<>>) = {} /\ IsInjective(<<>>)
    BY DEF ToSet, IsInjective
<1>1. Items(<<>>) = <<>> /\ Owners(<<>>) = <<>>
    BY DEF Items, Owners
<1>2. Flat
    <2>1. held \in [Tasks -> Seq(1 .. put)] /\ pc \in [Tasks -> {"ready"} \cup Waiting]
        BY DEF Init
    <2>2. /\ queue \in Seq(1 .. put) /\ getters \in Seq(Tasks)
          /\ putters \in Seq([task : Tasks, item : 1 .. put])
        BY DEF Init
    <2>3. put \in 0 .. MaxItems
        BY QueueAssumption DEF Init
    <2> QED BY <2>1, <2>2, <2>3 DEF Init, Flat
<1>3. Waits
    BY <1>0, <1>1 DEF Init, Waits
<1>4. OnePlace
    BY <1>0, <1>1 DEF Init, OnePlace
<1>5. NoneLost
    BY DEF Init, NoneLost
<1> QED BY <1>2, <1>3, <1>4, <1>5 DEF Parts

LEMMA PartsStep ==
    ASSUME Parts, [Next]_vars
    PROVE  Parts'
    BY FlatStep, WaitsStep, PlacesStep DEF Parts

\* No item is lost or doubled: it is in the queue, with the task that waits to put it or with
\* one that got it, in one place, unless its put() failed; a task waits in the queue that it
\* should, once, and nobody is left there who runs (queue.py 184-215, 250-328).
THEOREM TypeCorrect == Spec => []TypeOK
<1>1. Init => Parts
    BY PartsInit
<1>2. Parts /\ [Next]_vars => Parts'
    BY PartsStep
<1> QED BY <1>1, <1>2, PartsOfTypeOK, PTL DEF Spec

-----------------------------------------------------------------------------
(* No wake-up is lost *)

\* Between its two halves _unlock() has seen that nobody can put, unless it will repeat.
LookedAtPutters ==
    at = "getters" /\ ~repeat => turn = Hub /\ (putters = <<>> \/ ~Free)

\* A queue that is full stays full when items are added, and has room for nobody else.
LEMMA FullStaysFull ==
    ASSUME Flat, Flat', UNCHANGED maxsize, Len(queue') >= Len(queue), ~Free
    PROVE  ~Free'
    BY QueueAssumption DEF Flat, Free

LEMMA LookedStep ==
    ASSUME Flat, LookedAtPutters, [Next]_vars
    PROVE  LookedAtPutters'
<1> USE QueueAssumption DEF LookedAtPutters
<1>1. ASSUME NEW t \in Tasks, TaskStep(t) PROVE LookedAtPutters'
    BY <1>1 DEF TaskStep, Put, Get, Peek, ReturnMany, Yield, hubVars
<1>2. ASSUME NEW t \in Tasks, Resume(t) \/ Interrupt(t) PROVE LookedAtPutters'
    BY <1>2 DEF Resume, Interrupt, hubVars
<1>3. CASE UnlockStarts
    BY <1>3 DEF UnlockStarts
<1>4. CASE UnlockPutter
    BY <1>4 DEF UnlockPutter, Free
<1>5. CASE UnlockGetter
    BY <1>5 DEF UnlockGetter
<1>6. CASE UNCHANGED vars
    BY <1>6 DEF vars, queueVars, hubVars, itemVars, Free
<1> QED BY <1>1, <1>2, <1>3, <1>4, <1>5, <1>6 DEF Next, Unlock

LEMMA WakeUpStep ==
    ASSUME Flat, Flat', LookedAtPutters, WakeUpPending, [Next]_vars
    PROVE  WakeUpPending'
<1> USE QueueAssumption DEF WakeUpPending
<1>1. ASSUME NEW t \in Tasks, Put(t) PROVE WakeUpPending'
    <2>1. ~unlock' => ~unlock /\ getters = <<>> /\ getters' = <<>>
        BY <1>1 DEF Put, Schedule
    <2>2. CASE Free
        BY <1>1, <2>1, <2>2 DEF Put
    <2>3. CASE ~Free
        BY <1>1, <2>1, <2>3 DEF Put, Free
    <2> QED BY <2>2, <2>3
<1>2. ASSUME NEW t \in Tasks, Get(t) PROVE WakeUpPending'
    <2>1. ~unlock' => ~unlock /\ putters = <<>> /\ putters' = <<>>
        BY <1>2 DEF Get, Schedule
    <2>2. CASE queue # <<>>
        BY <1>2, <2>1, <2>2 DEF Get
    <2>3. CASE queue = <<>>
        BY <1>2, <2>1, <2>3 DEF Get
    <2> QED BY <2>2, <2>3
<1>3. ASSUME NEW t \in Tasks, Peek(t) PROVE WakeUpPending'
    BY <1>3 DEF Peek, Schedule
<1>4. ASSUME NEW t \in Tasks, ReturnMany(t) PROVE WakeUpPending'
    <2>1. ~unlock' => ~unlock /\ getters = <<>> /\ getters' = <<>>
        BY <1>4 DEF ReturnMany, Schedule
    <2>2. Len(queue') >= Len(queue) /\ maxsize' = maxsize /\ putters' = putters
        <3>1. /\ Reverse(held[t]) \in Seq(1 .. put) /\ queue \in Seq(1 .. put)
              /\ queue' = Reverse(held[t]) \o queue
            BY <1>4, SequenceFacts DEF Flat, ReturnMany
        <3>2. Len(queue') >= Len(queue)
            BY <3>1
        <3> QED BY <1>4, <3>2 DEF ReturnMany
    <2> QED BY <2>1, <2>2, FullStaysFull
<1>5. ASSUME NEW t \in Tasks, Yield(t) \/ Resume(t) PROVE WakeUpPending'
    BY <1>5 DEF Yield, Resume, queueVars, itemVars, Free
<1>6. ASSUME NEW t \in Tasks, Interrupt(t) PROVE WakeUpPending'
    <2>1. /\ getters = <<>> => getters' = <<>>
          /\ putters = <<>> => putters' = <<>>
        BY <1>6 DEF Interrupt, Flat
    <2> QED BY <1>6, <2>1 DEF Interrupt, Free
<1>7. CASE UnlockStarts
    BY <1>7 DEF UnlockStarts, queueVars, itemVars, Free
<1>8. ASSUME UnlockPutter, ~unlock' PROVE WakeUpPending'
    <2>1. CASE putters # <<>> /\ Free
        BY <1>8, <2>1 DEF UnlockPutter, itemVars
    <2>2. CASE ~(putters # <<>> /\ Free)
        BY <1>8, <2>2 DEF UnlockPutter, Free
    <2> QED BY <2>1, <2>2
<1>9. ASSUME UnlockGetter, ~unlock' PROVE WakeUpPending'
    <2>1. CASE getters # <<>> /\ queue # <<>>
        BY <1>9, <2>1 DEF UnlockGetter
    <2>2. CASE ~(getters # <<>> /\ queue # <<>>)
        <3>1. ~repeat /\ at = "getters"
            BY <1>9, <2>2 DEF UnlockGetter
        <3>2. putters = <<>> \/ ~Free
            BY <3>1 DEF LookedAtPutters
        <3> QED BY <1>9, <2>2, <3>2 DEF UnlockGetter, Free
    <2> QED BY <2>1, <2>2
<1>10. CASE UNCHANGED vars
    BY <1>10 DEF vars, queueVars, Free
<1> QED BY <1>1, <1>2, <1>3, <1>4, <1>5, <1>6, <1>7, <1>8, <1>9, <1>10
        DEF Next, TaskStep, Unlock

\* No task sleeps on a queue that could serve it without a callback that will look, however
\* many tasks share the queue and whoever is interrupted (queue.py 184-188, 310-328).
THEOREM NoWakeUpLost == Spec => []WakeUpPending
<1>1. Init => Parts /\ LookedAtPutters /\ WakeUpPending
    BY PartsInit DEF Init, LookedAtPutters, WakeUpPending
<1>2. Parts /\ LookedAtPutters /\ WakeUpPending /\ [Next]_vars
        => (Parts /\ LookedAtPutters /\ WakeUpPending)'
    BY PartsStep, LookedStep, WakeUpStep DEF Parts
<1> QED BY <1>1, <1>2, PTL DEF Spec
=============================================================================
