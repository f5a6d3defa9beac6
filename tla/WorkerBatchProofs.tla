------------------------- MODULE WorkerBatchProofs -------------------------
(***************************************************************************)
(* Theorems about WorkerBatch: its type invariant, the bounds of a batch,  *)
(* and that it implements WorkPool.                                        *)
(***************************************************************************)
EXTENDS WorkerBatch, FiniteSetTheorems, TLAPS

\* What nobody has taken, in order: Feed only moves the border in it.
supply == queue \o backlog

\* No two places of a sequence have the same item.
Distinct(s) == \A m, n \in DOMAIN s : s[m] = s[n] => m = n

\* The items a worker has taken, those of its call that are answered included.
Taken(w) == ({pending[w]} \ {None}) \cup Range(batch[w]) \cup Range(group[w])

-----------------------------------------------------------------------------
(* The inductive invariant.                                                *)

\* Every item is on the queue once, and the pills are behind the items.
Supplied ==
    \A m, n \in DOMAIN supply :
        m < n /\ (supply[m] = supply[n] \/ supply[m] = Pill) => supply[n] = Pill

\* What a worker has taken is not on the queue any more, is at one place with
\* the worker, and with no other worker.
Owned(w) ==
    /\ Taken(w) \cap Left = {}
    /\ Distinct(batch[w]) /\ Distinct(group[w])
    /\ Range(batch[w]) \cap Range(group[w]) = {}
    /\ pending[w] \notin Range(batch[w]) \cup Range(group[w])
Apart(w, v) == w # v => Taken(w) \cap Taken(v) = {}

\* The outcome of a place of a call is of the item there, and put after it is known.
Called(w) ==
    /\ DOMAIN outcome[w] = DOMAIN group[w]
    /\ \A n \in DOMAIN group[w] : outcome[w][n] \in {None, "error", group[w][n]}
    /\ \A n \in put[w] : n \in DOMAIN group[w] /\ outcome[w][n] # None

\* A place has one request at most, and none once it has its outcome.
Requested(w) ==
    /\ \A r \in flight[w] : r.place \in DOMAIN group[w] /\ outcome[w][r.place] = None
    /\ \A k \in DOMAIN line[w] :
          line[w][k].place \in DOMAIN group[w] /\ outcome[w][line[w][k].place] = None
    /\ \A r, s \in flight[w] : r.place = s.place => r = s
    /\ \A k, l \in DOMAIN line[w] : line[w][k].place = line[w][l].place => k = l
    /\ \A r \in flight[w] : \A k \in DOMAIN line[w] : r.place # line[w][k].place

\* The mode decides what a worker does, and in its last batch nothing is left
\* for it to take.
Working(w) ==
    /\ pc[w] = "stream" => mode = "streaming"
    /\ pc[w] \in {"collect", "process"} => mode # "streaming"
    /\ mode = "streaming" => batch[w] = <<>> /\ (pending[w] # None => failing[w])
    /\ last[w] /\ mode # "streaming" => Left = {} /\ pending[w] = None /\ pc[w] # "collect"
    /\ pc[w] = "collect" => group[w] = <<>>

\* A batch is within its bounds, and one that is being collected is not full.
Collecting(w) ==
    /\ Len(batch[w]) <= ChunkSize
    /\ Budget > 0 /\ SamplesOf(batch[w]) > Budget => Len(batch[w]) = 1
    /\ pc[w] = "collect" => ~Full(batch[w])

WorkerInv(w) == Owned(w) /\ Called(w) /\ Requested(w) /\ Working(w) /\ Collecting(w)

Inv ==
    /\ TypeOK
    /\ Supplied
    /\ \A w \in Worker : WorkerInv(w)
    /\ \A w, v \in Worker : Apart(w, v)

-----------------------------------------------------------------------------
(* Sequences.                                                              *)

\* The elements of a sequence, by place.
LEMMA Places ==
    ASSUME NEW S, NEW s \in Seq(S)
    PROVE  /\ Len(s) \in Nat /\ DOMAIN s = 1..Len(s)
           /\ \A n \in 1..Len(s) : s[n] \in S
           /\ Range(s) \subseteq S
           /\ s = <<>> <=> Len(s) = 0
           /\ s = <<>> <=> Range(s) = {}
BY DEF Range

\* What Append does.
LEMMA Appending ==
    ASSUME NEW S, NEW s \in Seq(S), NEW x \in S
    PROVE  /\ Append(s, x) \in Seq(S)
           /\ Len(Append(s, x)) = Len(s) + 1
           /\ DOMAIN Append(s, x) = 1..Len(s) + 1
           /\ \A n \in 1..Len(s) : Append(s, x)[n] = s[n]
           /\ Append(s, x)[Len(s) + 1] = x
           /\ Range(Append(s, x)) = Range(s) \cup {x}
           /\ Distinct(s) /\ x \notin Range(s) => Distinct(Append(s, x))
<1> DEFINE t == Append(s, x)
<1>1. /\ t \in Seq(S) /\ Len(t) = Len(s) + 1 /\ DOMAIN t = 1..Len(s) + 1 /\ DOMAIN s = 1..Len(s)
      /\ \A n \in 1..Len(s) : t[n] = s[n]
      /\ t[Len(s) + 1] = x /\ Len(s) \in Nat
    OBVIOUS
<1> HIDE DEF t
<1>2. Range(t) = Range(s) \cup {x}
    BY <1>1 DEF Range
<1>3. Distinct(s) /\ x \notin Range(s) => Distinct(t)
    BY <1>1 DEF Range, Distinct
<1> QED
    BY <1>1, <1>2, <1>3 DEF t

\* What Head and Tail do.
LEMMA TakingFirst ==
    ASSUME NEW S, NEW s \in Seq(S), s # <<>>
    PROVE  /\ Tail(s) \in Seq(S) /\ Head(s) \in S /\ Head(s) = s[1]
           /\ Len(s) \in Nat \ {0} /\ Len(Tail(s)) = Len(s) - 1 /\ DOMAIN s = 1..Len(s)
           /\ DOMAIN Tail(s) = 1..Len(s) - 1
           /\ \A n \in 1..Len(s) - 1 : Tail(s)[n] = s[n + 1]
           /\ Range(s) = {Head(s)} \cup Range(Tail(s))
<1> DEFINE t == Tail(s)
<1>1. /\ t \in Seq(S) /\ Head(s) \in S /\ Head(s) = s[1]
      /\ Len(s) \in Nat \ {0} /\ Len(t) = Len(s) - 1 /\ DOMAIN s = 1..Len(s)
      /\ DOMAIN t = 1..Len(s) - 1
      /\ \A n \in 1..Len(s) - 1 : t[n] = s[n + 1]
    OBVIOUS
<1> HIDE DEF t
<1>2. Range(s) \subseteq {Head(s)} \cup Range(t)
    <2>1. ASSUME NEW n \in 1..Len(s) PROVE s[n] \in {Head(s)} \cup Range(t)
        <3>1. CASE n = 1
            BY <1>1, <3>1
        <3>2. CASE n # 1
            <4>1. n - 1 \in 1..Len(s) - 1 /\ t[n - 1] = s[n]
                BY <1>1, <2>1, <3>2
            <4> QED
                BY <1>1, <4>1 DEF Range
        <3> QED
            BY <3>1, <3>2
    <2> QED
        BY <1>1, <2>1 DEF Range
<1>3. Range(t) \cup {Head(s)} \subseteq Range(s)
    <2>1. \A n \in 1..Len(s) - 1 : n + 1 \in 1..Len(s) /\ 1 \in 1..Len(s)
        BY <1>1
    <2>2. 1 \in 1..Len(s)
        BY <1>1
    <2> QED
        BY <1>1, <2>1, <2>2 DEF Range
<1> QED
    BY <1>1, <1>2, <1>3 DEF t

\* The numbers up to n are n.
LEMMA Interval ==
    ASSUME NEW n \in Nat
    PROVE  IsFiniteSet(1..n) /\ Cardinality(1..n) = n
<1>1. 1 \in Int /\ n \in Int
    OBVIOUS
<1>2. IsFiniteSet(1..n) /\ Cardinality(1..n) = IF 1 > n THEN 0 ELSE n - 1 + 1
    BY <1>1, FS_Interval
<1> QED
    BY <1>2

\* A sequence of distinct items is no longer than there are items.
LEMMA DistinctIsShort ==
    ASSUME NEW s \in Seq(Item), Distinct(s)
    PROVE  Len(s) \in 0..Cardinality(Item)
<1>1. s \in Injection(1..Len(s), Item)
    BY DEF Distinct, Injection, IsInjective
<1>2. Cardinality(1..Len(s)) <= Cardinality(Item) /\ IsFiniteSet(Item)
    BY <1>1, FS_Injection, BatchAssumption
<1>3. Len(s) \in Nat /\ Cardinality(1..Len(s)) = Len(s)
    BY Interval
<1>4. Cardinality(Item) \in Nat
    BY <1>2, FS_CardinalityType
<1> QED
    BY <1>2, <1>3, <1>4

-----------------------------------------------------------------------------
(* The items of a batch that go out together.                              *)

\* Ranks: a finite set of places has a k-th one for every k up to its
\* cardinality, and each of its places is the k-th for one k.
LEMMA Ranks ==
    ASSUME NEW L \in Nat, NEW P \in SUBSET (1..L)
    PROVE  /\ Cardinality(P) \in Nat
           /\ \A k \in 1..Cardinality(P) :
                 Nth(P, k) \in P /\ Cardinality(Upto(P, Nth(P, k))) = k
           /\ \A n \in P : \E k \in 1..Cardinality(P) : Nth(P, k) = n
<1> DEFINE rank == [n \in P |-> Cardinality(Upto(P, n))]
           K == 1..Cardinality(P)
<1>n. \A n \in P : n \in Int
    OBVIOUS
<1>1. IsFiniteSet(P)
    BY Interval, FS_Subset
<1>2. Cardinality(P) \in Nat
    BY <1>1, FS_CardinalityType
<1>3. IsFiniteSet(K) /\ Cardinality(K) = Cardinality(P)
    BY <1>2, Interval
<1>4. ASSUME NEW n \in P
      PROVE  Upto(P, n) \subseteq P /\ n \in Upto(P, n) /\ Cardinality(Upto(P, n)) \in K
    <2>1. Upto(P, n) \subseteq P /\ n \in Upto(P, n)
        BY DEF Upto
    <2>2. IsFiniteSet(Upto(P, n)) /\ Cardinality(Upto(P, n)) <= Cardinality(P)
        BY <1>1, <2>1, FS_Subset
    <2>3. Cardinality(Upto(P, n)) \in Nat /\ Cardinality(Upto(P, n)) # 0
        BY <2>1, <2>2, FS_CardinalityType, FS_EmptySet
    <2> QED
        BY <1>2, <2>1, <2>2, <2>3
<1>5. ASSUME NEW m \in P, NEW n \in P, m < n
      PROVE  Cardinality(Upto(P, m)) # Cardinality(Upto(P, n))
    <2>1. Upto(P, m) \subseteq Upto(P, n) /\ n \notin Upto(P, m)
        <3>1. m \in Int /\ n \in Int /\ m < n
            BY <1>n, <1>5
        <3>2. \A l \in P : l <= m => l <= n
            BY <1>n, <3>1
        <3>3. ~(n <= m)
            BY <3>1
        <3> QED
            BY <3>2, <3>3 DEF Upto
    <2>2. n \in Upto(P, n)
        BY <1>4
    <2>3. IsFiniteSet(Upto(P, n))
        BY <1>1, <1>4, FS_Subset
    <2>4. Cardinality(Upto(P, n)) = Cardinality(Upto(P, m)) => Upto(P, n) = Upto(P, m)
        BY <2>1, <2>3, FS_Subset
    <2> QED
        BY <2>1, <2>2, <2>4
<1>6. rank \in Injection(P, K)
    <2>1. rank \in [P -> K]
        BY <1>4
    <2>2. ASSUME NEW m \in P, NEW n \in P, rank[m] = rank[n] PROVE m = n
        <3>1. ~(m < n) /\ ~(n < m)
            BY <1>5, <2>2
        <3>2. m \in Int /\ n \in Int
            BY <1>n
        <3> HIDE DEF rank
        <3> QED
            BY <3>1, <3>2
    <2> HIDE DEF rank, K
    <2> QED
        BY <2>1, <2>2 DEF Injection, IsInjective
<1>7. rank \in Surjection(P, K)
    <2> HIDE DEF rank, K
    <2> QED
        BY <1>3, <1>6, FS_Injection
<1>8. ASSUME NEW k \in K PROVE \E n \in P : Cardinality(Upto(P, n)) = k
    BY <1>7 DEF Surjection
<1>9. ASSUME NEW k \in K PROVE Nth(P, k) \in P /\ Cardinality(Upto(P, Nth(P, k))) = k
    BY <1>8 DEF Nth
<1>10. ASSUME NEW n \in P PROVE \E k \in K : Nth(P, k) = n
    <2>1. Cardinality(Upto(P, n)) \in K
        BY <1>4
    <2>2. PICK k \in K : k = Cardinality(Upto(P, n))
        BY <2>1
    <2>3. Nth(P, k) \in P /\ Cardinality(Upto(P, Nth(P, k))) = k
        BY <1>9
    <2>4. ~(Nth(P, k) < n) /\ ~(n < Nth(P, k))
        BY <1>5, <2>2, <2>3
    <2>5. Nth(P, k) \in Int /\ n \in Int
        BY <1>n, <2>3
    <2> QED
        BY <2>4, <2>5
<1> QED
    BY <1>2, <1>9, <1>10

\* The items of a kind: exactly those, and each as often as before.
LEMMA OnlyTakes ==
    ASSUME NEW items \in Seq(Item), NEW kind
    PROVE  /\ Only(items, kind) \in Seq(Item)
           /\ Len(Only(items, kind)) <= Len(items)
           /\ Range(Only(items, kind)) = Range(items) \cap kind
           /\ Distinct(items) => Distinct(Only(items, kind))
<1> DEFINE P == {n \in DOMAIN items : items[n] \in kind}
           some == Only(items, kind)
<1>1. Len(items) \in Nat /\ DOMAIN items = 1..Len(items) /\ P \subseteq 1..Len(items)
    OBVIOUS
<1>2. /\ Cardinality(P) \in Nat
      /\ \A k \in 1..Cardinality(P) :
            Nth(P, k) \in P /\ Cardinality(Upto(P, Nth(P, k))) = k
      /\ \A n \in P : \E k \in 1..Cardinality(P) : Nth(P, k) = n
    BY <1>1, Ranks
<1>3. some = [k \in 1..Cardinality(P) |-> items[Nth(P, k)]]
    BY DEF Only
<1>4. \A n \in P : items[n] \in Item /\ items[n] \in Range(items) /\ items[n] \in kind
    BY <1>1 DEF Range
<1>5. \A n \in DOMAIN items : items[n] \in kind => n \in P
    OBVIOUS
<1>6. Cardinality(P) <= Len(items)
    <2> HIDE DEF P
    <2>1. IsFiniteSet(1..Len(items)) /\ Cardinality(1..Len(items)) = Len(items)
        BY <1>1, Interval
    <2>2. Cardinality(P) <= Cardinality(1..Len(items))
        BY <1>1, <2>1, FS_Subset
    <2> QED
        BY <2>1, <2>2
<1> HIDE DEF P, some
<1>7. some \in Seq(Item) /\ Len(some) = Cardinality(P) /\ DOMAIN some = 1..Cardinality(P)
    BY <1>2, <1>3, <1>4
<1>8. Range(some) = Range(items) \cap kind
    <2>1. Range(some) \subseteq Range(items) \cap kind
        BY <1>2, <1>3, <1>4, <1>7 DEF Range
    <2>2. ASSUME NEW n \in DOMAIN items, items[n] \in kind PROVE items[n] \in Range(some)
        <3>1. PICK k \in 1..Cardinality(P) : Nth(P, k) = n
            BY <1>2, <1>5, <2>2
        <3>2. some[k] = items[n]
            BY <1>3, <3>1
        <3> QED
            BY <1>7, <3>2 DEF Range
    <2> QED
        BY <2>1, <2>2 DEF Range
<1>9. ASSUME Distinct(items) PROVE Distinct(some)
    <2>1. ASSUME NEW k \in 1..Cardinality(P), NEW l \in 1..Cardinality(P), some[k] = some[l]
          PROVE  k = l
        <3>1. Nth(P, k) \in P /\ Nth(P, l) \in P
            BY <1>2
        <3>2. Nth(P, k) \in DOMAIN items /\ Nth(P, l) \in DOMAIN items
            BY <1>1, <3>1
        <3>3. items[Nth(P, k)] = items[Nth(P, l)]
            BY <1>3, <2>1
        <3>4. Nth(P, k) = Nth(P, l)
            BY <1>9, <3>2, <3>3 DEF Distinct
        <3> QED
            BY <1>2, <3>4
    <2> QED
        BY <1>7, <2>1 DEF Distinct
<1> QED
    BY <1>6, <1>7, <1>8, <1>9 DEF some

\* The first group of a batch and the rest have the batch's items between them.
LEMMA Grouping ==
    ASSUME NEW items \in Seq(Item), Distinct(items)
    PROVE  LET some == FirstGroup(items)
               rest == RestOf(items, some)
           IN  /\ some \in Seq(Item) /\ rest \in Seq(Item)
               /\ Distinct(some) /\ Distinct(rest)
               /\ Range(some) \cup Range(rest) = Range(items)
               /\ Range(some) \cap Range(rest) = {}
               /\ Len(rest) <= Len(items)
<1> DEFINE some == FirstGroup(items)
           rest == RestOf(items, some)
<1>1. some \in Seq(Item) /\ Distinct(some) /\ Range(some) \subseteq Range(items)
    <2>1. some = items \/ \E kind : some = Only(items, kind)
        BY DEF FirstGroup
    <2> HIDE DEF some
    <2> QED
        BY <2>1, OnlyTakes
<1>2. /\ rest \in Seq(Item) /\ Distinct(rest) /\ Len(rest) <= Len(items)
      /\ Range(rest) = Range(items) \cap (Item \ Range(some))
    BY OnlyTakes DEF RestOf
<1>3. Range(items) \subseteq Item
    BY Places
<1> QED
    BY <1>1, <1>2, <1>3

\* A batch without an item.
LEMMA TakingOut ==
    ASSUME NEW items \in Seq(Item), Distinct(items), NEW i \in Range(items)
    PROVE  LET rest == RestOf(items, <<i>>)
           IN  /\ rest \in Seq(Item) /\ Distinct(rest) /\ Len(rest) <= Len(items)
               /\ Range(rest) = Range(items) \ {i}
<1>1. Range(<<i>>) = {i}
    BY DEF Range
<1>2. Range(items) \subseteq Item
    BY Places
<1> QED
    BY <1>1, <1>2, OnlyTakes DEF RestOf

-----------------------------------------------------------------------------
(* The samples of a batch.                                                 *)

SamplesAt(i) == {i} \X (1..Samples[i])
AllSamples == UNION {SamplesAt(i) : i \in Item}

\* There are finitely many samples, and an item has as many as it says.
LEMMA SamplesFinite ==
    /\ IsFiniteSet(AllSamples)
    /\ \A i \in Item : Cardinality(SamplesAt(i)) = Samples[i] /\ Samples[i] \in Nat \ {0}
<1>1. ASSUME NEW i \in Item
      PROVE  /\ IsFiniteSet(SamplesAt(i)) /\ Cardinality(SamplesAt(i)) = Samples[i]
             /\ Samples[i] \in Nat \ {0}
    <2>1. Samples[i] \in Nat \ {0}
        BY BatchAssumption
    <2>2. IsFiniteSet(1..Samples[i]) /\ Cardinality(1..Samples[i]) = Samples[i]
        BY <2>1, Interval
    <2>3. IsFiniteSet({i}) /\ Cardinality({i}) = 1
        BY FS_Singleton
    <2>4. /\ IsFiniteSet(SamplesAt(i))
          /\ Cardinality(SamplesAt(i)) = Cardinality({i}) * Cardinality(1..Samples[i])
        BY <2>2, <2>3, FS_Product DEF SamplesAt
    <2> QED
        BY <2>1, <2>2, <2>3, <2>4
<1> DEFINE each == [i \in Item |-> SamplesAt(i)]
           family == {SamplesAt(i) : i \in Item}
<1>2. each \in Surjection(Item, family)
    BY DEF Surjection
<1>3. IsFiniteSet(family)
    <2> HIDE DEF each, family
    <2> QED
        BY <1>2, FS_Surjection, BatchAssumption
<1>4. \A T \in family : IsFiniteSet(T)
    BY <1>1
<1>5. IsFiniteSet(UNION family)
    <2> HIDE DEF family
    <2> QED
        BY <1>3, <1>4, FS_UNION
<1> QED
    BY <1>1, <1>5 DEF AllSamples

\* Fewer items have no more samples, one more item adds its own, and an empty
\* batch has none.
LEMMA SamplesCounted ==
    ASSUME NEW s \in Seq(Item)
    PROVE  /\ SamplesOf(s) \in Nat
           /\ SamplesOf(s) = 0 <=> s = <<>>
           /\ \A t \in Seq(Item) : Range(t) \subseteq Range(s) => SamplesOf(t) <= SamplesOf(s)
           /\ \A i \in Item : SamplesOf(Append(s, i)) <= SamplesOf(s) + Samples[i]
<1> DEFINE of(t) == UNION {SamplesAt(i) : i \in Range(t)}
<1>1. ASSUME NEW t \in Seq(Item)
      PROVE  /\ SamplesOf(t) = Cardinality(of(t)) /\ of(t) \subseteq AllSamples
             /\ IsFiniteSet(of(t)) /\ SamplesOf(t) \in Nat
    <2>1. Range(t) \subseteq Item
        BY Places
    <2>2. of(t) \subseteq AllSamples
        BY <2>1 DEF AllSamples
    <2>3. SamplesOf(t) = Cardinality(of(t))
        BY DEF SamplesOf, SamplesAt
    <2> HIDE DEF of
    <2>4. IsFiniteSet(of(t))
        BY <2>2, SamplesFinite, FS_Subset
    <2> QED
        BY <2>2, <2>3, <2>4, FS_CardinalityType
<1>2. SamplesOf(s) = 0 <=> s = <<>>
    <2>1. of(s) = {} <=> Range(s) = {}
        <3>1. ASSUME NEW i \in Range(s) PROVE <<i, 1>> \in of(s)
            <4>1. Samples[i] \in Nat \ {0}
                BY Places, SamplesFinite
            <4>2. 1 \in 1..Samples[i]
                BY <4>1
            <4> QED
                BY <4>2 DEF SamplesAt
        <3> QED
            BY <3>1
    <2>2. Cardinality(of(s)) = 0 <=> of(s) = {}
        <3>1. IsFiniteSet(of(s))
            BY <1>1
        <3> HIDE DEF of
        <3> QED
            BY <3>1, FS_EmptySet
    <2>3. s = <<>> <=> Range(s) = {}
        BY Places
    <2> QED
        BY <1>1, <2>1, <2>2, <2>3
<1>3. ASSUME NEW t \in Seq(Item), Range(t) \subseteq Range(s) PROVE SamplesOf(t) <= SamplesOf(s)
    <2>1. of(t) \subseteq of(s)
        BY <1>3
    <2>2. /\ IsFiniteSet(of(s)) /\ SamplesOf(s) = Cardinality(of(s))
          /\ SamplesOf(t) = Cardinality(of(t))
        BY <1>1
    <2> HIDE DEF of
    <2> QED
        BY <2>1, <2>2, FS_Subset
<1>4. ASSUME NEW i \in Item PROVE SamplesOf(Append(s, i)) <= SamplesOf(s) + Samples[i]
    <2> DEFINE t == Append(s, i)
    <2>1. t \in Seq(Item) /\ Range(t) = Range(s) \cup {i}
        BY Appending
    <2> HIDE DEF t
    <2>2. of(t) = of(s) \cup SamplesAt(i)
        BY <2>1
    <2>3. SamplesAt(i) \subseteq AllSamples
        BY DEF AllSamples
    <2>4. /\ IsFiniteSet(of(s)) /\ SamplesOf(s) = Cardinality(of(s))
          /\ SamplesOf(t) = Cardinality(of(t))
        BY <1>1, <2>1
    <2>5. IsFiniteSet(SamplesAt(i)) /\ Cardinality(SamplesAt(i)) = Samples[i]
        BY <2>3, SamplesFinite, FS_Subset
    <2> HIDE DEF of
    <2>6. Cardinality(of(s) \cup SamplesAt(i)) =
              Cardinality(of(s)) + Cardinality(SamplesAt(i)) - Cardinality(of(s) \cap SamplesAt(i))
        BY <2>4, <2>5, FS_Union
    <2>7. IsFiniteSet(of(s) \cap SamplesAt(i))
        BY <2>5, FS_Subset
    <2>8. /\ Cardinality(of(s)) \in Nat /\ Cardinality(SamplesAt(i)) \in Nat
          /\ Cardinality(of(s) \cap SamplesAt(i)) \in Nat
        BY <2>4, <2>5, <2>7, FS_CardinalityType
    <2>9. SamplesOf(t) <= SamplesOf(s) + Samples[i]
        BY <2>2, <2>4, <2>5, <2>6, <2>8
    <2> QED
        BY <2>9 DEF t
<1> QED
    BY <1>1, <1>2, <1>3, <1>4

-----------------------------------------------------------------------------
(* The queue.                                                              *)

\* What is nobody's yet does not depend on how far the feeder is.
LEMMA Feeding ==
    ASSUME TypeOK, Feed
    PROVE  supply' = supply /\ Left' = Left
<1>1. /\ backlog \in Seq(Item \cup {Pill}) /\ queue \in Seq(Item \cup {Pill}) /\ backlog # <<>>
      /\ queue' = Append(queue, Head(backlog)) /\ backlog' = Tail(backlog)
    BY DEF TypeOK, Feed
<1>2. queue' \o backlog' = queue \o backlog
    BY <1>1
<1> QED
    BY <1>2 DEF supply, Left

\* The first of the queue is the first of the supply.  An item is taken out of
\* what is left; when it is a pill, nothing is left.
LEMMA Popping ==
    ASSUME TypeOK, Supplied, queue # <<>>, queue' = Tail(queue), UNCHANGED backlog
    PROVE  /\ Supplied' /\ Left' \subseteq Left
           /\ Head(queue) \in Item \cup {Pill}
           /\ Head(queue) = Pill => Left = {} /\ Left' = {}
           /\ Head(queue) # Pill => Head(queue) \in Left /\ Left' = Left \ {Head(queue)}
<1> DEFINE S == Item \cup {Pill}
           h == Head(queue)
<1>1. backlog \in Seq(S) /\ queue \in Seq(S) /\ supply \in Seq(S)
    BY DEF TypeOK, supply
<1>2. supply # <<>> /\ h = Head(supply) /\ supply' = Tail(supply) /\ h \in S
    BY <1>1 DEF supply
<1> HIDE DEF S, h
<1>3. /\ h = supply[1] /\ Len(supply) \in Nat \ {0} /\ DOMAIN supply = 1..Len(supply)
      /\ DOMAIN supply' = 1..Len(supply) - 1
      /\ \A n \in 1..Len(supply) - 1 : supply'[n] = supply[n + 1]
      /\ Range(supply) = {h} \cup Range(supply')
    BY <1>1, <1>2, TakingFirst
<1>4. Supplied'
    <2>1. ASSUME NEW m \in DOMAIN supply', NEW n \in DOMAIN supply',
                 m < n, supply'[m] = supply'[n] \/ supply'[m] = Pill
          PROVE  supply'[n] = Pill
        <3>1. m + 1 \in DOMAIN supply /\ n + 1 \in DOMAIN supply /\ m + 1 < n + 1
            BY <1>3, <2>1
        <3>2. supply'[m] = supply[m + 1] /\ supply'[n] = supply[n + 1]
            BY <1>3, <2>1
        <3> QED
            BY <2>1, <3>1, <3>2 DEF Supplied
    <2> QED
        BY <2>1 DEF Supplied
<1>5. \A n \in DOMAIN supply' :
          /\ supply'[n] \in Range(supply)
          /\ supply'[n] = h \/ h = Pill => supply'[n] = Pill
    <2>1. ASSUME NEW n \in DOMAIN supply'
          PROVE  /\ supply'[n] \in Range(supply)
                 /\ supply'[n] = h \/ h = Pill => supply'[n] = Pill
        <3>1. 1 \in DOMAIN supply /\ n + 1 \in DOMAIN supply /\ 1 < n + 1
            BY <1>3, <2>1
        <3>2. supply'[n] = supply[n + 1]
            BY <1>3, <2>1
        <3> QED
            BY <1>3, <3>1, <3>2 DEF Supplied, Range
    <2> QED
        BY <2>1
<1>6. Left = Range(supply) \ {Pill} /\ Left' = Range(supply') \ {Pill}
    BY DEF Left, supply
<1>7. h # Pill => h \notin Range(supply')
    BY <1>5 DEF Range
<1>8. h = Pill => Range(supply') \subseteq {Pill}
    BY <1>5 DEF Range
<1> QED
    BY <1>2, <1>3, <1>4, <1>6, <1>7, <1>8 DEF h, S

-----------------------------------------------------------------------------
(* What a worker's step does to what it has taken.                         *)

\* The types of a worker's state.
LEMMA Shape ==
    ASSUME TypeOK, NEW w \in Worker
    PROVE  /\ pending[w] \in Item \cup {None} /\ batch[w] \in Seq(Item)
           /\ last[w] \in BOOLEAN /\ failing[w] \in BOOLEAN
           /\ group[w] \in Seq(Item) /\ line[w] \in Seq(Request) /\ flight[w] \subseteq Request
           /\ outcome[w] \in Seq(Item \cup {None, "error"})
           /\ put[w] \subseteq 1..Cardinality(Item)
           /\ pc[w] \in Running \cup {"gone", "fatal", "killed", "jammed"}
BY DEF TypeOK

\* Every worker has its state.
LEMMA Domains ==
    ASSUME TypeOK
    PROVE  /\ DOMAIN pending = Worker /\ DOMAIN batch = Worker /\ DOMAIN last = Worker
           /\ DOMAIN group = Worker /\ DOMAIN line = Worker /\ DOMAIN flight = Worker
           /\ DOMAIN outcome = Worker /\ DOMAIN put = Worker /\ DOMAIN failing = Worker
           /\ DOMAIN pc = Worker
BY DEF TypeOK

\* Taking the next item: the one carried over, or the first of the queue.
LEMMA Nexting ==
    ASSUME Inv, NEW w \in Worker, PopsNext(w), UNCHANGED backlog
    PROVE  /\ Supplied' /\ Left' \subseteq Left /\ NextItem(w) \in Item \cup {Pill}
           /\ \/ NextItem(w) = pending[w] /\ pending[w] \in Item /\ Left' = Left
              \/ pending[w] = None /\ NextItem(w) = Pill /\ Left = {} /\ Left' = {}
              \/ /\ pending[w] = None /\ NextItem(w) \in Left /\ NextItem(w) \in Item
                 /\ Left' = Left \ {NextItem(w)}
<1>1. TypeOK /\ Supplied /\ pending[w] \in Item \cup {None}
    BY Shape DEF Inv
<1>2. CASE pending[w] # None
    <2>1. UNCHANGED <<queue, backlog>> /\ NextItem(w) = pending[w]
        BY <1>2 DEF PopsNext, NextItem
    <2>2. Supplied' /\ Left' = Left
        BY <1>1, <2>1 DEF Supplied, supply, Left
    <2> QED
        BY <1>1, <1>2, <2>1, <2>2
<1>3. CASE pending[w] = None
    <2>1. queue # <<>> /\ queue' = Tail(queue) /\ NextItem(w) = Head(queue)
        BY <1>3 DEF PopsNext, NextItem
    <2> QED
        BY <1>1, <1>3, <2>1, Popping
<1> QED
    BY <1>2, <1>3

\* What a worker holds, when nothing of its call is answered, and in general.
LEMMA HoldsIs ==
    ASSUME NEW w \in Worker
    PROVE  /\ Holds(w) = ({pending[w]} \ {None}) \cup Range(batch[w])
                             \cup {group[w][n] : n \in DOMAIN group[w] \ put[w]}
           /\ Holds(w) \subseteq Taken(w)
BY DEF Holds, Taken, Range

\* Collecting takes an item, unless it is a pill or the one carried over.
LEMMA CollectTakes ==
    ASSUME Inv, NEW w \in Worker, NEW i \in Item \cup {Pill}, Collect(w, i)
    PROVE  /\ Supplied' /\ Owned(w)'
           /\ \/ Left' = Left /\ Taken(w)' = Taken(w) /\ Holds(w)' = Holds(w)
              \/ /\ i \in Item /\ i \in Left /\ Left' = Left \ {i}
                 /\ Taken(w)' = Taken(w) \cup {i} /\ Holds(w)' = Holds(w) \cup {i}
<1>1. /\ TypeOK /\ Owned(w) /\ Working(w)
      /\ pending[w] \in Item \cup {None} /\ batch[w] \in Seq(Item)
      /\ w \in DOMAIN pending /\ w \in DOMAIN batch
    BY Shape, Domains DEF Inv, WorkerInv
<1>2. /\ pc[w] = "collect" /\ group[w] = <<>> /\ UNCHANGED <<group, put>>
      /\ PopsNext(w) /\ i = NextItem(w) /\ UNCHANGED backlog
    BY <1>1 DEF Collect, Working
<1>3. /\ Supplied' /\ Left' \subseteq Left
      /\ \/ i = pending[w] /\ pending[w] \in Item /\ Left' = Left
         \/ pending[w] = None /\ i = Pill /\ Left = {} /\ Left' = {}
         \/ pending[w] = None /\ i \in Left /\ i \in Item /\ Left' = Left \ {i}
    BY <1>2, Nexting
<1>4. \/ i = Pill /\ UNCHANGED <<pending, batch>>
      \/ i # Pill /\ pending'[w] = i /\ UNCHANGED batch
      \/ i # Pill /\ pending'[w] = None /\ batch'[w] = Append(batch[w], i)
    BY <1>1 DEF Collect
<1>5. /\ Taken(w) = ({pending[w]} \ {None}) \cup Range(batch[w])
      /\ Holds(w) = Taken(w)
      /\ Taken(w)' = ({pending'[w]} \ {None}) \cup Range(batch'[w])
      /\ Holds(w)' = Taken(w)'
      /\ Range(group[w]) = {} /\ Range(group'[w]) = {} /\ Distinct(group'[w])
    <2>1. DOMAIN group[w] = {} /\ group'[w] = group[w]
        BY <1>2
    <2> QED
        BY <2>1 DEF Taken, Holds, Range, Distinct
<1>6. /\ Taken(w) \cap Left = {} /\ Distinct(batch[w])
      /\ pending[w] \notin Range(batch[w])
    BY <1>1 DEF Owned
<1>7. ASSUME i \in Item
      PROVE  /\ Range(Append(batch[w], i)) = Range(batch[w]) \cup {i}
             /\ Distinct(batch[w]) /\ i \notin Range(batch[w]) => Distinct(Append(batch[w], i))
    BY <1>1, <1>7, Appending
<1>8. Pill \notin Item /\ None \notin Item /\ Pill # None /\ Range(batch[w]) \subseteq Item
    BY <1>1, Places, BatchAssumption
<1>9. /\ Distinct(batch'[w]) /\ Taken(w)' \cap Left' = {}
      /\ pending'[w] \notin Range(batch'[w])
      /\ \/ Left' = Left /\ Taken(w)' = Taken(w)
         \/ i \in Item /\ i \in Left /\ Left' = Left \ {i} /\ Taken(w)' = Taken(w) \cup {i}
    BY <1>3, <1>4, <1>5, <1>6, <1>7, <1>8
<1> QED
    BY <1>3, <1>5, <1>9 DEF Owned

\* So does streaming, whatever becomes of the item.
LEMMA StreamTakes ==
    ASSUME Inv, NEW w \in Worker, NEW i \in Item \cup {Pill}, Stream(w, i)
    PROVE  /\ Supplied' /\ Owned(w)'
           /\ \/ Left' = Left /\ Taken(w)' = Taken(w) /\ Holds(w)' = Holds(w)
              \/ /\ i \in Item /\ i \in Left /\ Left' = Left \ {i}
                 /\ Taken(w)' = Taken(w) \cup {i} /\ Holds(w)' = Holds(w) \cup {i}
<1>1. /\ TypeOK /\ Supplied /\ Owned(w) /\ Called(w)
      /\ pending[w] = None /\ batch[w] \in Seq(Item) /\ group[w] \in Seq(Item)
      /\ w \in DOMAIN pending /\ w \in DOMAIN group
      /\ queue # <<>> /\ i = Head(queue) /\ queue' = Tail(queue)
      /\ UNCHANGED <<backlog, batch, put>>
    BY Shape, Domains DEF Inv, WorkerInv, Stream
<1>2. /\ Supplied' /\ Left' \subseteq Left
      /\ i = Pill => Left' = Left
      /\ i # Pill => i \in Item /\ i \in Left /\ Left' = Left \ {i}
    BY <1>1, Popping
<1>3. \/ i = Pill /\ UNCHANGED <<pending, group>>
      \/ i # Pill /\ pending'[w] = i /\ UNCHANGED group
      \/ i # Pill /\ UNCHANGED pending /\ group'[w] = Append(group[w], i)
    BY <1>1 DEF Stream
<1>4. /\ Taken(w) \cap Left = {} /\ Distinct(batch[w]) /\ Distinct(group[w])
      /\ Range(batch[w]) \cap Range(group[w]) = {}
      /\ pending[w] \notin Range(batch[w]) \cup Range(group[w])
      /\ Range(batch[w]) \subseteq Item /\ Range(group[w]) \subseteq Item /\ None \notin Item
    BY <1>1, Places, BatchAssumption DEF Owned
<1>5. /\ Taken(w) = ({pending[w]} \ {None}) \cup Range(batch[w]) \cup Range(group[w])
      /\ Taken(w)' = ({pending'[w]} \ {None}) \cup Range(batch[w]) \cup Range(group'[w])
    BY <1>1 DEF Taken
<1>6. /\ Holds(w) = ({pending[w]} \ {None}) \cup Range(batch[w])
                       \cup {group[w][n] : n \in DOMAIN group[w] \ put[w]}
      /\ Holds(w)' = ({pending'[w]} \ {None}) \cup Range(batch[w])
                       \cup {group'[w][n] : n \in DOMAIN group'[w] \ put[w]}
    BY <1>1 DEF Holds
<1>7. CASE i = Pill
    <2>1. UNCHANGED <<pending, group>> /\ Left' = Left
        BY <1>2, <1>3, <1>7
    <2> QED
        BY <1>1, <1>2, <1>4, <1>5, <1>6, <2>1 DEF Owned
<1>8. CASE i # Pill /\ pending'[w] = i /\ UNCHANGED group
    <2>1. i \in Item /\ i # None /\ i \notin Taken(w) /\ Left' = Left \ {i}
        BY <1>2, <1>4, <1>8
    <2>2. Taken(w)' = Taken(w) \cup {i} /\ Holds(w)' = Holds(w) \cup {i}
        BY <1>1, <1>5, <1>6, <1>8, <2>1
    <2>3. Owned(w)'
        BY <1>1, <1>4, <1>5, <1>8, <2>1, <2>2 DEF Owned
    <2> QED
        BY <1>2, <2>2, <2>3, <1>8
<1>9. CASE i # Pill /\ UNCHANGED pending /\ group'[w] = Append(group[w], i)
    <2> DEFINE L == Len(group[w])
               g == group'[w]
    <2>1. i \in Item /\ i # None /\ i \notin Taken(w) /\ Left' = Left \ {i}
        BY <1>2, <1>4, <1>9
    <2>2. /\ Len(group[w]) \in Nat /\ DOMAIN group[w] = 1..L
          /\ DOMAIN g = 1..L + 1
          /\ \A n \in 1..L : g[n] = group[w][n]
          /\ g[L + 1] = i /\ Range(g) = Range(group[w]) \cup {i}
          /\ Distinct(group[w]) /\ i \notin Range(group[w]) => Distinct(g)
        BY <1>1, <1>9, <2>1, Appending, Places
    <2> HIDE DEF g
    <2>3. \A n \in put[w] : n \in 1..L
        BY <1>1, <2>2 DEF Called
    <2>4. {g[n] : n \in (1..L + 1) \ put[w]} = {group[w][n] : n \in (1..L) \ put[w]} \cup {i}
        <3>1. L + 1 \in (1..L + 1) \ put[w] /\ (1..L + 1) \ put[w] = ((1..L) \ put[w]) \cup {L + 1}
            BY <2>2, <2>3
        <3> HIDE DEF L
        <3> QED
            BY <2>2, <3>1
    <2>5. Taken(w)' = Taken(w) \cup {i}
        BY <1>1, <1>5, <1>9, <2>2 DEF g
    <2>6. Holds(w)' = Holds(w) \cup {i}
        BY <1>1, <1>6, <1>9, <2>2, <2>4 DEF g
    <2>7. Owned(w)'
        BY <1>1, <1>4, <1>5, <1>9, <2>1, <2>2, <2>5 DEF Owned, g
    <2> QED
        BY <1>2, <1>9, <2>1, <2>5, <2>6, <2>7
<1> QED
    BY <1>3, <1>7, <1>8, <1>9

\* Starting a group moves items from the batch to the call.
LEMMA StartKeeps ==
    ASSUME Inv, NEW w \in Worker, StartGroup(w)
    PROVE  /\ Owned(w)' /\ Left' = Left
           /\ Taken(w)' = Taken(w) /\ Holds(w)' = Holds(w)
<1> DEFINE some == FirstGroup(batch[w])
           rest == RestOf(batch[w], some)
<1>1. /\ TypeOK /\ Owned(w) /\ batch[w] \in Seq(Item)
      /\ w \in DOMAIN batch /\ w \in DOMAIN group /\ w \in DOMAIN put
      /\ group[w] = <<>> /\ group'[w] = some /\ batch'[w] = rest /\ put'[w] = {}
      /\ UNCHANGED <<pending, queue, backlog>>
    BY Shape, Domains DEF Inv, WorkerInv, StartGroup, Send, Idle
<1>2. /\ some \in Seq(Item) /\ rest \in Seq(Item) /\ Distinct(some) /\ Distinct(rest)
      /\ Range(some) \cup Range(rest) = Range(batch[w])
      /\ Range(some) \cap Range(rest) = {}
    <2>1. Distinct(batch[w])
        BY <1>1 DEF Owned
    <2> QED
        BY <1>1, <2>1, Grouping
<1> HIDE DEF some, rest
<1>3. Left' = Left
    BY <1>1 DEF Left
<1>4. /\ Taken(w) = ({pending[w]} \ {None}) \cup Range(batch[w])
      /\ Holds(w) = Taken(w)
    <2>1. DOMAIN group[w] = {}
        BY <1>1
    <2> QED
        BY <2>1 DEF Taken, Holds, Range
<1>5. /\ Taken(w)' = ({pending[w]} \ {None}) \cup Range(rest) \cup Range(some)
      /\ Holds(w)' = Taken(w)'
    BY <1>1 DEF Taken, Holds, Range
<1>6. Owned(w)'
    BY <1>1, <1>2, <1>3, <1>4, <1>5 DEF Owned
<1> QED
    BY <1>2, <1>3, <1>4, <1>5, <1>6

\* An item that cannot be prepared is answered.
LEMMA UnpreparedAnswers ==
    ASSUME Inv, NEW w \in Worker, NEW i \in Item, Unprepared(w, i)
    PROVE  /\ Owned(w)' /\ Left' = Left /\ i \in Holds(w)
           /\ Taken(w)' = Taken(w) \ {i} /\ Holds(w)' = Holds(w) \ {i}
<1> DEFINE some == FirstGroup(batch[w])
           rest == RestOf(batch[w], <<i>>)
<1>1. /\ TypeOK /\ Owned(w) /\ batch[w] \in Seq(Item)
      /\ w \in DOMAIN batch
      /\ group[w] = <<>> /\ i \in Range(some) /\ batch'[w] = rest
      /\ UNCHANGED <<pending, queue, backlog, group, put>>
    BY Shape, Domains DEF Inv, WorkerInv, Unprepared, Idle
<1>2. Distinct(batch[w]) /\ i \in Range(batch[w]) /\ pending[w] # i
    <2>1. Distinct(batch[w]) /\ pending[w] \notin Range(batch[w])
        BY <1>1 DEF Owned
    <2>2. Range(some) \subseteq Range(batch[w])
        BY <1>1, <2>1, Grouping
    <2> QED
        BY <1>1, <2>1, <2>2
<1>3. rest \in Seq(Item) /\ Distinct(rest) /\ Range(rest) = Range(batch[w]) \ {i}
    BY <1>1, <1>2, TakingOut
<1> HIDE DEF some, rest
<1>4. Left' = Left
    BY <1>1 DEF Left
<1>5. /\ Taken(w) = ({pending[w]} \ {None}) \cup Range(batch[w])
      /\ Holds(w) = Taken(w)
      /\ Taken(w)' = ({pending[w]} \ {None}) \cup Range(rest)
      /\ Holds(w)' = Taken(w)'
      /\ Range(group'[w]) = {} /\ Distinct(group'[w])
    <2>1. /\ DOMAIN group[w] = {} /\ group'[w] = group[w] /\ batch'[w] = rest
          /\ pending'[w] = pending[w]
        BY <1>1
    <2> QED
        BY <2>1 DEF Taken, Holds, Range, Distinct
<1>6. Owned(w)'
    BY <1>1, <1>2, <1>3, <1>4, <1>5 DEF Owned
<1> QED
    BY <1>2, <1>3, <1>4, <1>5, <1>6

\* A result that is put answers the item of its place.
LEMMA PutAnswers ==
    ASSUME Inv, NEW w \in Worker, NEW n \in Nat, PutResult(w, n)
    PROVE  /\ Owned(w)' /\ Left' = Left
           /\ group[w][n] \in Item /\ group[w][n] \in Holds(w)
           /\ outcome[w][n] \in {"error", group[w][n]}
           /\ Taken(w)' = Taken(w) /\ Holds(w)' = Holds(w) \ {group[w][n]}
<1>1. /\ TypeOK /\ Owned(w) /\ Called(w) /\ group[w] \in Seq(Item)
      /\ w \in DOMAIN put
      /\ n \in DOMAIN group[w] \ put[w] /\ outcome[w][n] # None
      /\ put'[w] = put[w] \cup {n}
      /\ UNCHANGED <<pending, batch, queue, backlog, group>>
    BY Shape, Domains DEF Inv, WorkerInv, PutResult
<1>2. outcome[w][n] \in {"error", group[w][n]}
    BY <1>1 DEF Called
<1>3. Left' = Left /\ Taken(w)' = Taken(w)
    BY <1>1 DEF Left, Taken
<1>4. Owned(w)'
    BY <1>1, <1>3 DEF Owned
<1>5. /\ Distinct(group[w]) /\ Range(batch[w]) \cap Range(group[w]) = {}
      /\ pending[w] \notin Range(group[w])
    BY <1>1 DEF Owned
<1>6. /\ Holds(w) = ({pending[w]} \ {None}) \cup Range(batch[w])
                       \cup {group[w][m] : m \in DOMAIN group[w] \ put[w]}
      /\ Holds(w)' = ({pending[w]} \ {None}) \cup Range(batch[w])
                       \cup {group[w][m] : m \in DOMAIN group[w] \ (put[w] \cup {n})}
    BY <1>1 DEF Holds
<1>7. group[w][n] \in Item /\ group[w][n] \in Range(group[w])
    BY <1>1 DEF Range
<1>8. \A m \in DOMAIN group[w] : group[w][m] = group[w][n] => m = n
    BY <1>1, <1>5 DEF Distinct
<1>9. Holds(w)' = Holds(w) \ {group[w][n]} /\ group[w][n] \in Holds(w)
    BY <1>1, <1>5, <1>6, <1>7, <1>8
<1> QED
    BY <1>2, <1>3, <1>4, <1>7, <1>9

\* A call that is over and put leaves nothing.
LEMMA EndGroupKeeps ==
    ASSUME Inv, NEW w \in Worker, EndGroup(w)
    PROVE  /\ Owned(w)' /\ Left' = Left
           /\ Taken(w)' \subseteq Taken(w) /\ Holds(w)' = Holds(w)
<1>1. /\ TypeOK /\ Owned(w)
      /\ w \in DOMAIN put /\ w \in DOMAIN group
      /\ put[w] = DOMAIN group[w] /\ group'[w] = <<>>
      /\ UNCHANGED <<pending, batch, queue, backlog>>
    BY Shape, Domains DEF Inv, WorkerInv, EndGroup, Send
<1>2. DOMAIN group'[w] = {}
    BY <1>1
<1>3. Left' = Left
    BY <1>1 DEF Left
<1>4. /\ Taken(w)' = ({pending[w]} \ {None}) \cup Range(batch[w])
      /\ Taken(w)' \subseteq Taken(w)
      /\ Holds(w) = ({pending[w]} \ {None}) \cup Range(batch[w]) /\ Holds(w)' = Holds(w)
    BY <1>1, <1>2 DEF Taken, Holds, Range
<1>5. Distinct(group'[w]) /\ Range(group'[w]) = {}
    BY <1>2 DEF Distinct, Range
<1>6. Owned(w)'
    BY <1>1, <1>3, <1>4, <1>5 DEF Owned
<1> QED
    BY <1>3, <1>4, <1>6

-----------------------------------------------------------------------------
(* The other workers.                                                      *)

\* The state of a worker is as it was.
Untouched(w) ==
    /\ pending'[w] = pending[w] /\ batch'[w] = batch[w] /\ last'[w] = last[w]
    /\ group'[w] = group[w] /\ line'[w] = line[w] /\ flight'[w] = flight[w]
    /\ outcome'[w] = outcome[w] /\ put'[w] = put[w] /\ failing'[w] = failing[w]
    /\ pc'[w] = pc[w]

\* A step of a worker is none of another's.
LEMMA OthersKept ==
    ASSUME TypeOK, NEW w \in Worker, NEW v \in Worker, v # w,
           WorkerStep(w) \/ Failure(w)
    PROVE  Untouched(v)
<1>d. /\ DOMAIN pending = Worker /\ DOMAIN batch = Worker /\ DOMAIN last = Worker
      /\ DOMAIN group = Worker /\ DOMAIN line = Worker /\ DOMAIN flight = Worker
      /\ DOMAIN outcome = Worker /\ DOMAIN put = Worker /\ DOMAIN failing = Worker
      /\ DOMAIN pc = Worker
    BY Domains
<1>1. ASSUME NEW i \in Item \cup {Pill}, Collect(w, i) PROVE Untouched(v)
    BY <1>1, <1>d, v # w DEF Collect, PopsNext, Process, Untouched
<1>2. ASSUME NEW i \in Item \cup {Pill}, Stream(w, i) PROVE Untouched(v)
    BY <1>2, <1>d, v # w DEF Stream, Untouched
<1>3. CASE Timeout(w)
    BY <1>3, <1>d, v # w DEF Timeout, Process, Untouched
<1>4. CASE StartGroup(w)
    BY <1>4, <1>d, v # w DEF StartGroup, Send, Untouched
<1>5. CASE EndBatch(w)
    BY <1>5, <1>d, v # w DEF EndBatch, Untouched
<1>6. CASE Dispatch(w)
    BY <1>6, <1>d, v # w DEF Dispatch, Untouched
<1>7. ASSUME NEW r \in Request, Succeed(w, r) PROVE Untouched(v)
    BY <1>7, <1>d, v # w DEF Succeed, Record, Untouched
<1>8. ASSUME NEW n \in 1..Cardinality(Item), PutResult(w, n) PROVE Untouched(v)
    BY <1>8, <1>d, v # w DEF PutResult, Untouched
<1>9. CASE EndGroup(w)
    BY <1>9, <1>d, v # w DEF EndGroup, Send, Untouched
<1>10. CASE EndStream(w)
    BY <1>10, <1>d, v # w DEF EndStream, Untouched
<1>11. CASE Raise(w)
    BY <1>11, <1>d, v # w DEF Raise, Untouched
<1>12. ASSUME NEW i \in Item, Unprepared(w, i) PROVE Untouched(v)
    BY <1>12, <1>d, v # w DEF Unprepared, Untouched
<1>13. ASSUME NEW r \in Request, Fail(w, r) PROVE Untouched(v)
    BY <1>13, <1>d, v # w DEF Fail, Record, Untouched
<1>14. ASSUME NEW r \in Request, Terminal(w, r) PROVE Untouched(v)
    BY <1>14, <1>d, v # w DEF Terminal, Untouched
<1>15. CASE CallFails(w)
    BY <1>15, <1>d, v # w DEF CallFails, Untouched
<1>16. CASE Abandon(w)
    BY <1>16, <1>d, v # w DEF Abandon, Untouched
<1>17. CASE Kill(w)
    BY <1>17, <1>d, v # w DEF Kill, Untouched
<1> QED
    BY <1>1, <1>2, <1>3, <1>4, <1>5, <1>6, <1>7, <1>8, <1>9, <1>10, <1>11, <1>12, <1>13, <1>14,
       <1>15, <1>16, <1>17 DEF WorkerStep, Failure

\* Workers take from the front of the queue and put nothing on it.
LEMMA WorkersTake ==
    ASSUME Inv, NEW w \in Worker, WorkerStep(w) \/ Failure(w)
    PROVE  Supplied' /\ Left' \subseteq Left /\ UNCHANGED <<mode, backlog>>
<1>1. ASSUME NEW i \in Item \cup {Pill}, Collect(w, i)
      PROVE  Supplied' /\ Left' \subseteq Left /\ UNCHANGED <<mode, backlog>>
    <2>1. PopsNext(w) /\ UNCHANGED <<mode, backlog>>
        BY <1>1 DEF Collect
    <2> QED
        BY <2>1, Nexting
<1>2. ASSUME NEW i \in Item \cup {Pill}, Stream(w, i)
      PROVE  Supplied' /\ Left' \subseteq Left /\ UNCHANGED <<mode, backlog>>
    <2>1. queue # <<>> /\ queue' = Tail(queue) /\ UNCHANGED <<mode, backlog>>
        BY <1>2 DEF Stream
    <2> QED
        BY <2>1, Popping DEF Inv
<1>3. CASE \/ Timeout(w) \/ StartGroup(w) \/ EndBatch(w) \/ Dispatch(w)
           \/ (\E r \in Request : Succeed(w, r))
           \/ (\E n \in 1..Cardinality(Item) : PutResult(w, n)) \/ EndGroup(w) \/ EndStream(w)
           \/ Raise(w) \/ (\E i \in Item : Unprepared(w, i))
           \/ (\E r \in Request : Fail(w, r)) \/ (\E r \in Request : Terminal(w, r))
           \/ CallFails(w) \/ Abandon(w) \/ Kill(w)
    <2>1. UNCHANGED <<mode, queue, backlog>>
        BY <1>3 DEF Timeout, StartGroup, EndBatch, Dispatch, Succeed, PutResult, EndGroup,
           EndStream, Raise, Unprepared, Fail, Terminal, CallFails, Abandon, Kill
    <2> QED
        BY <2>1 DEF Inv, Supplied, supply, Left
<1> QED
    BY <1>1, <1>2, <1>3 DEF WorkerStep, Failure

\* Recording the outcome of a place changes nothing else.
LEMMA Recording ==
    ASSUME TypeOK, NEW w \in Worker, NEW r, NEW what \in Item \cup {"error"},
           r.place \in DOMAIN outcome[w], Record(w, r, what)
    PROVE  /\ outcome'[w] \in Seq(Item \cup {None, "error"})
           /\ DOMAIN outcome'[w] = DOMAIN outcome[w]
           /\ outcome'[w][r.place] = what
           /\ \A n \in DOMAIN outcome[w] : n # r.place => outcome'[w][n] = outcome[w][n]
<1> DEFINE S == Item \cup {None, "error"}
           p == r.place
<1>1. outcome[w] \in Seq(S) /\ what \in S /\ w \in DOMAIN outcome
    BY Shape, Domains
<1>2. outcome'[w] = [outcome[w] EXCEPT ![p] = what]
    BY <1>1 DEF Record
<1> HIDE DEF S, p
<1>3. /\ DOMAIN outcome'[w] = DOMAIN outcome[w]
      /\ p \in DOMAIN outcome[w] => outcome'[w][p] = what
      /\ \A n \in DOMAIN outcome[w] : n # p => outcome'[w][n] = outcome[w][n]
    BY <1>2
<1>4. outcome'[w] \in Seq(S)
    <2>1. /\ Len(outcome[w]) \in Nat /\ DOMAIN outcome[w] = 1..Len(outcome[w])
          /\ \A n \in 1..Len(outcome[w]) : outcome[w][n] \in S
        BY <1>1
    <2>2. outcome'[w] = [n \in 1..Len(outcome[w]) |-> IF n = p THEN what ELSE outcome[w][n]]
        BY <1>2, <2>1
    <2> QED
        BY <1>1, <2>1, <2>2
<1> QED
    BY <1>3, <1>4 DEF S, p

\* A streaming worker extends its call by the item, if it does not fail.
LEMMA Streaming ==
    ASSUME Inv, NEW w \in Worker, NEW i \in Item \cup {Pill}, Stream(w, i)
    PROVE  /\ UNCHANGED <<flight, put>>
           /\ \/ UNCHANGED <<group, line, outcome>>
              \/ /\ i \in Item /\ Len(group[w]) \in Nat /\ Len(line[w]) \in Nat
                 /\ DOMAIN group[w] = 1..Len(group[w]) /\ DOMAIN outcome[w] = 1..Len(group[w])
                 /\ DOMAIN line[w] = 1..Len(line[w])
                 /\ group'[w] \in Seq(Item) /\ outcome'[w] \in Seq(Item \cup {None, "error"})
                 /\ line' = [line EXCEPT ![w] =
                                Append(@, [place |-> Len(group[w]) + 1, attempt |-> 0])]
                 /\ Len(group'[w]) = Len(group[w]) + 1
                 /\ DOMAIN group'[w] = 1..Len(group[w]) + 1
                 /\ DOMAIN outcome'[w] = 1..Len(group[w]) + 1
                 /\ DOMAIN line'[w] = 1..Len(line[w]) + 1
                 /\ \A n \in 1..Len(group[w]) :
                       group'[w][n] = group[w][n] /\ outcome'[w][n] = outcome[w][n]
                 /\ group'[w][Len(group[w]) + 1] = i /\ outcome'[w][Len(group[w]) + 1] = None
                 /\ \A k \in 1..Len(line[w]) : line'[w][k] = line[w][k]
                 /\ line'[w][Len(line[w]) + 1] = [place |-> Len(group[w]) + 1, attempt |-> 0]
<1> DEFINE S == Item \cup {None, "error"}
           L == Len(group[w])
           K == Len(line[w])
           new == [place |-> L + 1, attempt |-> 0]
<1>1. /\ group[w] \in Seq(Item) /\ outcome[w] \in Seq(S) /\ line[w] \in Seq(Request)
      /\ w \in DOMAIN group /\ w \in DOMAIN line /\ w \in DOMAIN outcome
      /\ DOMAIN outcome[w] = DOMAIN group[w]
    BY Shape, Domains DEF Inv, WorkerInv, Called
<1>2. /\ L \in Nat /\ DOMAIN group[w] = 1..L /\ K \in Nat /\ DOMAIN line[w] = 1..K
      /\ Len(outcome[w]) = L /\ None \in S
    <2>1. /\ L \in Nat /\ DOMAIN group[w] = 1..L /\ K \in Nat /\ DOMAIN line[w] = 1..K
          /\ Len(outcome[w]) \in Nat /\ DOMAIN outcome[w] = 1..Len(outcome[w])
        BY <1>1, Places
    <2>2. Len(outcome[w]) = L
        <3> HIDE DEF L
        <3> QED
            BY <1>1, <2>1
    <2> QED
        BY <2>1, <2>2
<1>3. UNCHANGED <<flight, put>>
    BY DEF Stream
<1>4. \/ UNCHANGED <<group, line, outcome>>
      \/ /\ i \in Item /\ group' = [group EXCEPT ![w] = Append(@, i)]
         /\ line' = [line EXCEPT ![w] = Append(@, new)]
         /\ outcome' = [outcome EXCEPT ![w] = Append(@, None)]
    BY DEF Stream
<1>5. CASE /\ i \in Item /\ group' = [group EXCEPT ![w] = Append(@, i)]
           /\ line' = [line EXCEPT ![w] = Append(@, new)]
           /\ outcome' = [outcome EXCEPT ![w] = Append(@, None)]
    <2>1. /\ group'[w] = Append(group[w], i) /\ line'[w] = Append(line[w], new)
          /\ outcome'[w] = Append(outcome[w], None)
        BY <1>1, <1>5
    <2>2. /\ group'[w] \in Seq(Item) /\ Len(group'[w]) = L + 1 /\ DOMAIN group'[w] = 1..L + 1
          /\ \A n \in 1..L : group'[w][n] = group[w][n]
          /\ group'[w][L + 1] = i
        BY <1>1, <1>5, <2>1, Appending
    <2>3. /\ outcome'[w] \in Seq(S) /\ DOMAIN outcome'[w] = 1..L + 1
          /\ \A n \in 1..L : outcome'[w][n] = outcome[w][n]
          /\ outcome'[w][L + 1] = None
        BY <1>1, <1>2, <2>1, Appending
    <2>4. /\ DOMAIN line'[w] = 1..K + 1
          /\ \A k \in 1..K : line'[w][k] = line[w][k]
          /\ line'[w][K + 1] = new
        <3> HIDE DEF new
        <3>1. line[w] \in Seq(Request) /\ line'[w] = Append(line[w], new)
            BY <1>1, <2>1
        <3> QED
            BY <3>1
    <2> QED
        BY <1>1, <1>2, <1>3, <1>5, <2>2, <2>3, <2>4
<1> QED
    BY <1>3, <1>4, <1>5

\* So the outcomes keep their type.
LEMMA RecordingIsTyped ==
    ASSUME TypeOK, NEW w \in Worker, NEW r, NEW what \in Item \cup {"error"},
           r.place \in DOMAIN outcome[w], Record(w, r, what)
    PROVE  outcome' \in [Worker -> Seq(Item \cup {None, "error"})]
<1>1. outcome'[w] \in Seq(Item \cup {None, "error"})
    BY Recording
<1>2. outcome' = [outcome EXCEPT ![w] = outcome'[w]]
    BY DEF TypeOK, Record
<1> QED
    BY <1>1, <1>2 DEF TypeOK

-----------------------------------------------------------------------------
(* Each part of the invariant, for the worker that moves.                  *)

\* What a worker takes comes from the queue, and stays apart from what it has.
LEMMA OwnedKept ==
    ASSUME Inv, NEW w \in Worker, WorkerStep(w) \/ Failure(w)
    PROVE  Owned(w)' /\ Taken(w)' \subseteq Taken(w) \cup (Left \ Left')
<1>1. ASSUME NEW i \in Item \cup {Pill}, Collect(w, i)
      PROVE  Owned(w)' /\ Taken(w)' \subseteq Taken(w) \cup (Left \ Left')
    BY <1>1, CollectTakes
<1>2. ASSUME NEW i \in Item \cup {Pill}, Stream(w, i)
      PROVE  Owned(w)' /\ Taken(w)' \subseteq Taken(w) \cup (Left \ Left')
    BY <1>2, StreamTakes
<1>3. CASE StartGroup(w)
    BY <1>3, StartKeeps
<1>4. ASSUME NEW n \in 1..Cardinality(Item), PutResult(w, n)
      PROVE  Owned(w)' /\ Taken(w)' \subseteq Taken(w) \cup (Left \ Left')
    <2>1. n \in Nat
        BY <1>4
    <2> QED
        BY <1>4, <2>1, PutAnswers
<1>5. CASE EndGroup(w)
    BY <1>5, EndGroupKeeps
<1>6. ASSUME NEW i \in Item, Unprepared(w, i)
      PROVE  Owned(w)' /\ Taken(w)' \subseteq Taken(w) \cup (Left \ Left')
    BY <1>6, UnpreparedAnswers
<1>7. CASE \/ Timeout(w) \/ EndBatch(w) \/ Dispatch(w) \/ (\E r \in Request : Succeed(w, r))
           \/ EndStream(w) \/ Raise(w) \/ (\E r \in Request : Fail(w, r))
           \/ (\E r \in Request : Terminal(w, r)) \/ CallFails(w) \/ Abandon(w) \/ Kill(w)
    <2>1. UNCHANGED <<pending, batch, group, queue, backlog>>
        BY <1>7 DEF Timeout, EndBatch, Dispatch, Succeed, EndStream, Raise, Fail, Terminal,
           CallFails, Abandon, Kill
    <2>2. Owned(w)
        BY DEF Inv, WorkerInv
    <2> QED
        BY <2>1, <2>2 DEF Owned, Taken, Left
<1> QED
    BY <1>1, <1>2, <1>3, <1>4, <1>5, <1>6, <1>7 DEF WorkerStep, Failure

\* What a call begins with.
LEMMA Sending ==
    ASSUME TypeOK, NEW w \in Worker, NEW items \in Seq(Item), Send(w, items)
    PROVE  /\ group'[w] = items /\ put'[w] = {}
           /\ line'[w] \in Seq([place : DOMAIN items, attempt : {0}])
           /\ Len(line'[w]) = Len(items) /\ DOMAIN line'[w] = DOMAIN items
           /\ \A n \in DOMAIN items : line'[w][n] = [place |-> n, attempt |-> 0]
           /\ outcome'[w] = [n \in DOMAIN items |-> None]
<1>1. DOMAIN items = 1..Len(items) /\ Len(items) \in Nat
    OBVIOUS
<1>2. line'[w] = [n \in DOMAIN items |-> [place |-> n, attempt |-> 0]]
    BY Domains DEF Send
<1>3. \A n \in DOMAIN items : [place |-> n, attempt |-> 0] \in [place : DOMAIN items, attempt : {0}]
    OBVIOUS
<1>4. /\ line'[w] \in Seq([place : DOMAIN items, attempt : {0}]) /\ Len(line'[w]) = Len(items)
      /\ DOMAIN line'[w] = DOMAIN items
    BY <1>1, <1>2, <1>3
<1>5. group'[w] = items /\ put'[w] = {} /\ outcome'[w] = [n \in DOMAIN items |-> None]
    BY Domains DEF Send
<1> QED
    BY <1>2, <1>4, <1>5

\* The outcome of a place is of its item.
LEMMA CalledKept ==
    ASSUME Inv, NEW w \in Worker, WorkerStep(w) \/ Failure(w)
    PROVE  Called(w)'
<1>i. /\ TypeOK /\ Called(w) /\ Requested(w)
      /\ w \in DOMAIN group /\ w \in DOMAIN outcome /\ w \in DOMAIN put
      /\ w \in DOMAIN line /\ w \in DOMAIN flight
    BY Domains DEF Inv, WorkerInv
<1>s. /\ group[w] \in Seq(Item) /\ outcome[w] \in Seq(Item \cup {None, "error"})
      /\ line[w] \in Seq(Request) /\ flight[w] \subseteq Request
      /\ batch[w] \in Seq(Item) /\ Distinct(batch[w])
    BY Shape DEF Inv, WorkerInv, Owned
<1>1. ASSUME NEW i \in Item \cup {Pill}, Stream(w, i) PROVE Called(w)'
    <2>1. CASE UNCHANGED <<group, line, outcome, put>>
        BY <1>i, <2>1 DEF Called
    <2>2. CASE ~UNCHANGED <<group, line, outcome, put>>
        <3> DEFINE L == Len(group[w])
        <3>1. /\ UNCHANGED put /\ L \in Nat /\ DOMAIN group[w] = 1..L
              /\ DOMAIN group'[w] = 1..L + 1 /\ DOMAIN outcome'[w] = 1..L + 1
              /\ \A n \in 1..L :
                    group'[w][n] = group[w][n] /\ outcome'[w][n] = outcome[w][n]
              /\ outcome'[w][L + 1] = None
            BY <1>1, <2>2, Streaming
        <3> HIDE DEF L
        <3>2. \A n \in 1..L + 1 : n \in 1..L \/ n = L + 1
            BY <3>1
        <3>3. \A n \in 1..L : n \in 1..L + 1
            BY <3>1
        <3> QED
            BY <1>i, <3>1, <3>2, <3>3 DEF Called
    <2> QED
        BY <2>1, <2>2
<1>2. CASE StartGroup(w)
    <2> DEFINE some == FirstGroup(batch[w])
    <2>1. some \in Seq(Item) /\ Send(w, some)
        BY <1>2, <1>s, Grouping DEF StartGroup
    <2> HIDE DEF some
    <2>2. group'[w] = some /\ put'[w] = {} /\ outcome'[w] = [n \in DOMAIN some |-> None]
        BY <1>i, <2>1, Sending
    <2> QED
        BY <2>2 DEF Called
<1>3. ASSUME NEW r \in Request, Succeed(w, r) PROVE Called(w)'
    <2>1. /\ r.place \in DOMAIN group[w] /\ group[w][r.place] \in Item
          /\ Record(w, r, group[w][r.place]) /\ UNCHANGED <<group, put>>
        BY <1>3, <1>i, <1>s DEF Succeed, Requested
    <2>2. /\ DOMAIN outcome'[w] = DOMAIN outcome[w] /\ outcome'[w][r.place] = group[w][r.place]
          /\ \A n \in DOMAIN outcome[w] : n # r.place => outcome'[w][n] = outcome[w][n]
        BY <1>i, <2>1, Recording DEF Called
    <2>3. group[w][r.place] # None
        BY <2>1, BatchAssumption
    <2> QED
        BY <1>i, <2>1, <2>2, <2>3 DEF Called
<1>4. ASSUME NEW n \in 1..Cardinality(Item), PutResult(w, n) PROVE Called(w)'
    BY <1>4, <1>i, <1>s DEF PutResult, Called
<1>5. CASE EndGroup(w)
    <2>1. <<>> \in Seq(Item) /\ Send(w, <<>>)
        BY <1>5 DEF EndGroup
    <2>2. group'[w] = <<>> /\ put'[w] = {} /\ outcome'[w] = [n \in DOMAIN <<>> |-> None]
        BY <1>i, <2>1, Sending
    <2> QED
        BY <2>2 DEF Called
<1>6. ASSUME NEW r \in Request, Fail(w, r) PROVE Called(w)'
    <2>1. r.place \in DOMAIN group[w] /\ UNCHANGED <<group, put>>
        BY <1>6, <1>i DEF Fail, Requested
    <2>2. UNCHANGED outcome \/ Record(w, r, "error")
        BY <1>6 DEF Fail
    <2>3. ASSUME Record(w, r, "error") PROVE Called(w)'
        <3>1. "error" \in Item \cup {"error"} /\ r.place \in DOMAIN outcome[w] /\ "error" # None
            BY <1>i, <2>1, BatchAssumption DEF Called
        <3>2. /\ DOMAIN outcome'[w] = DOMAIN outcome[w] /\ outcome'[w][r.place] = "error"
              /\ \A n \in DOMAIN outcome[w] : n # r.place => outcome'[w][n] = outcome[w][n]
            BY <1>i, <2>3, <3>1, Recording
        <3> QED
            BY <1>i, <2>1, <3>1, <3>2 DEF Called
    <2> QED
        BY <1>i, <2>1, <2>2, <2>3 DEF Called
<1>7. CASE CallFails(w)
    BY <1>7, <1>i, <1>s DEF CallFails, Called
<1>8. CASE \/ (\E i \in Item \cup {Pill} : Collect(w, i)) \/ Timeout(w) \/ EndBatch(w)
           \/ Dispatch(w) \/ EndStream(w) \/ Raise(w) \/ (\E i \in Item : Unprepared(w, i))
           \/ (\E r \in Request : Terminal(w, r)) \/ Abandon(w) \/ Kill(w)
    <2>1. UNCHANGED <<group, outcome, put>>
        BY <1>8 DEF Collect, Timeout, EndBatch, Dispatch, EndStream, Raise, Unprepared,
           Terminal, Abandon, Kill
    <2> QED
        BY <1>i, <2>1 DEF Called
<1> QED
    BY <1>1, <1>2, <1>3, <1>4, <1>5, <1>6, <1>7, <1>8 DEF WorkerStep, Failure

\* The requests of a call have a place each, without an outcome.
LEMMA RequestedKept ==
    ASSUME Inv, NEW w \in Worker, WorkerStep(w) \/ Failure(w)
    PROVE  Requested(w)'
<1>i. /\ TypeOK /\ Called(w) /\ Requested(w)
      /\ w \in DOMAIN group /\ w \in DOMAIN outcome /\ w \in DOMAIN put
      /\ w \in DOMAIN line /\ w \in DOMAIN flight
    BY Domains DEF Inv, WorkerInv
<1>s. /\ group[w] \in Seq(Item) /\ outcome[w] \in Seq(Item \cup {None, "error"})
      /\ line[w] \in Seq(Request) /\ flight[w] \subseteq Request
      /\ batch[w] \in Seq(Item) /\ Distinct(batch[w])
    BY Shape DEF Inv, WorkerInv, Owned
<1>1. ASSUME NEW i \in Item \cup {Pill}, Stream(w, i) PROVE Requested(w)'
    <2>1. CASE UNCHANGED <<group, line, outcome, flight>>
        BY <1>i, <2>1 DEF Requested
    <2>2. CASE ~UNCHANGED <<group, line, outcome, flight>>
        <3> DEFINE L == Len(group[w])
                   K == Len(line[w])
        <3>1. /\ UNCHANGED flight /\ L \in Nat /\ K \in Nat
              /\ DOMAIN group[w] = 1..L /\ DOMAIN line[w] = 1..K
              /\ DOMAIN group'[w] = 1..L + 1 /\ DOMAIN line'[w] = 1..K + 1
              /\ \A n \in 1..L : outcome'[w][n] = outcome[w][n]
              /\ outcome'[w][L + 1] = None
              /\ \A k \in 1..K : line'[w][k] = line[w][k]
              /\ line'[w][K + 1] = [place |-> L + 1, attempt |-> 0]
            BY <1>1, <2>2, Streaming
        <3>p. line'[w][K + 1].place = L + 1
            BY <3>1
        <3> HIDE DEF L, K
        <3>2. \A k \in 1..K + 1 : k \in 1..K \/ k = K + 1
            BY <3>1
        <3>3. \A n \in 1..L : n \in 1..L + 1 /\ n # L + 1
            BY <3>1
        <3>4. L + 1 \in 1..L + 1
            BY <3>1
        <3>5. /\ \A q \in flight'[w] : q.place \in DOMAIN group'[w] /\ outcome'[w][q.place] = None
              /\ \A q, s \in flight'[w] : q.place = s.place => q = s
            BY <1>i, <3>1, <3>3 DEF Requested
        <3>6. \A k \in 1..K : line'[w][k].place \in 1..L /\ line'[w][k].place # L + 1
            BY <1>i, <3>1, <3>3 DEF Requested
        <3>7. ASSUME NEW k \in DOMAIN line'[w]
              PROVE  /\ line'[w][k].place \in DOMAIN group'[w]
                     /\ outcome'[w][line'[w][k].place] = None
            <4>1. CASE k \in 1..K
                <5>1. line'[w][k].place \in 1..L /\ outcome[w][line'[w][k].place] = None
                    BY <1>i, <3>1, <4>1 DEF Requested
                <5> QED
                    BY <3>1, <3>3, <5>1
            <4>2. CASE k = K + 1
                BY <3>1, <3>p, <3>4, <4>2
            <4> QED
                BY <3>1, <3>2, <4>1, <4>2
        <3>8. ASSUME NEW k \in DOMAIN line'[w], NEW l \in DOMAIN line'[w],
                     line'[w][k].place = line'[w][l].place
              PROVE  k = l
            <4>1. (k \in 1..K \/ k = K + 1) /\ (l \in 1..K \/ l = K + 1)
                BY <3>1, <3>2
            <4>2. ASSUME k \in 1..K, l \in 1..K PROVE k = l
                <5>1. k \in DOMAIN line[w] /\ l \in DOMAIN line[w] /\ line[w][k].place = line[w][l].place
                    BY <3>1, <3>8, <4>2
                <5> QED
                    BY <1>i, <5>1 DEF Requested
            <4> QED
                BY <3>p, <3>6, <3>8, <4>1, <4>2
        <3>9. ASSUME NEW q \in flight'[w], NEW k \in DOMAIN line'[w]
              PROVE  q.place # line'[w][k].place
            <4>1. q \in flight[w] /\ q.place \in 1..L /\ q.place # L + 1
                BY <1>i, <3>1, <3>3 DEF Requested
            <4>2. CASE k \in 1..K
                BY <1>i, <3>1, <4>1, <4>2 DEF Requested
            <4>3. CASE k = K + 1
                BY <3>p, <4>1, <4>3
            <4> QED
                BY <3>1, <3>2, <4>2, <4>3
        <3> QED
            BY <3>5, <3>7, <3>8, <3>9 DEF Requested
    <2> QED
        BY <2>1, <2>2
<1>2. CASE StartGroup(w)
    <2> DEFINE some == FirstGroup(batch[w])
    <2>1. some \in Seq(Item) /\ Send(w, some) /\ UNCHANGED flight /\ group[w] = <<>>
        BY <1>2, <1>s, Grouping DEF StartGroup, Idle
    <2> HIDE DEF some
    <2>2. /\ group'[w] = some /\ outcome'[w] = [n \in DOMAIN some |-> None]
          /\ DOMAIN line'[w] = DOMAIN some
          /\ \A n \in DOMAIN some : line'[w][n] = [place |-> n, attempt |-> 0]
        BY <1>i, <2>1, Sending
    <2>3. flight'[w] = {}
        BY <1>i, <2>1 DEF Requested
    <2>4. ASSUME NEW n \in DOMAIN some PROVE line'[w][n].place = n
        <3>1. line'[w][n] = [place |-> n, attempt |-> 0]
            BY <2>2
        <3> QED
            BY <3>1
    <2> QED
        BY <2>2, <2>3, <2>4 DEF Requested
<1>3. CASE Dispatch(w)
    <2>1. /\ line[w] # <<>> /\ line'[w] = Tail(line[w]) /\ UNCHANGED <<group, outcome>>
          /\ flight'[w] = flight[w] \cup {Head(line[w])}
        BY <1>3, <1>i DEF Dispatch
    <2> DEFINE K == Len(line[w])
    <2>2. /\ Head(line[w]) = line[w][1] /\ K \in Nat \ {0} /\ DOMAIN line[w] = 1..K
          /\ DOMAIN line'[w] = 1..K - 1
          /\ \A k \in 1..K - 1 : line'[w][k] = line[w][k + 1]
        BY <1>s, <2>1, TakingFirst
    <2> HIDE DEF K
    <2>3. 1 \in 1..K /\ \A k \in 1..K - 1 : k + 1 \in 1..K /\ k + 1 # 1
        BY <2>2
    <2>4. \A k, l \in 1..K - 1 : k + 1 = l + 1 => k = l
        BY <2>2
    <2>5. \A q \in flight'[w] : q \in flight[w] \/ q = line[w][1]
        BY <2>1, <2>2
    <2>6. /\ \A q \in flight'[w] : q.place \in DOMAIN group'[w] /\ outcome'[w][q.place] = None
          /\ \A q, s \in flight'[w] : q.place = s.place => q = s
        BY <1>i, <2>1, <2>2, <2>3, <2>5 DEF Requested
    <2>7. \A k \in DOMAIN line'[w] :
              line'[w][k].place \in DOMAIN group'[w] /\ outcome'[w][line'[w][k].place] = None
        BY <1>i, <2>1, <2>2, <2>3 DEF Requested
    <2>8. ASSUME NEW k \in DOMAIN line'[w], NEW l \in DOMAIN line'[w],
                 line'[w][k].place = line'[w][l].place
          PROVE  k = l
        <3>1. /\ k \in 1..K - 1 /\ l \in 1..K - 1 /\ k + 1 \in DOMAIN line[w] /\ l + 1 \in DOMAIN line[w]
              /\ line[w][k + 1].place = line[w][l + 1].place
            BY <2>2, <2>3, <2>8
        <3>2. k + 1 = l + 1
            BY <1>i, <3>1 DEF Requested
        <3> QED
            BY <2>4, <3>1, <3>2
    <2>9. ASSUME NEW q \in flight'[w], NEW k \in DOMAIN line'[w] PROVE q.place # line'[w][k].place
        <3>1. /\ k + 1 \in DOMAIN line[w] /\ k + 1 # 1 /\ 1 \in DOMAIN line[w]
              /\ line'[w][k].place = line[w][k + 1].place
            BY <2>2, <2>3
        <3>2. CASE q \in flight[w]
            BY <1>i, <3>1, <3>2 DEF Requested
        <3>3. CASE q = line[w][1]
            BY <1>i, <3>1, <3>3 DEF Requested
        <3> QED
            BY <2>5, <3>2, <3>3
    <2> QED
        BY <2>6, <2>7, <2>8, <2>9 DEF Requested
<1>4. ASSUME NEW r \in Request, Succeed(w, r) PROVE Requested(w)'
    BY <1>4, <1>i, <1>s DEF Succeed, Record, Requested, Called, Request
<1>5. CASE EndGroup(w)
    <2>1. <<>> \in Seq(Item) /\ Send(w, <<>>) /\ UNCHANGED flight /\ put[w] = DOMAIN group[w]
        BY <1>5 DEF EndGroup
    <2>2. group'[w] = <<>> /\ DOMAIN line'[w] = DOMAIN <<>>
        BY <1>i, <2>1, Sending
    <2>3. flight'[w] = {}
        BY <1>i, <2>1 DEF Requested, Called
    <2> QED
        BY <2>2, <2>3 DEF Requested
<1>6. ASSUME NEW r \in Request, Fail(w, r) PROVE Requested(w)'
    <2> DEFINE again == [place |-> r.place, attempt |-> r.attempt + 1]
    <2>1. /\ r \in flight[w] /\ UNCHANGED group /\ r.place \in DOMAIN group[w]
          /\ again.place = r.place
          /\ DOMAIN outcome[w] = DOMAIN group[w]
        BY <1>6, <1>i DEF Fail, Requested, Called
    <2>2. \/ flight'[w] = (flight[w] \ {r}) \cup {again} /\ UNCHANGED <<line, outcome>>
          \/ /\ flight'[w] = flight[w] \ {r} /\ line'[w] = Append(line[w], again)
             /\ UNCHANGED outcome
          \/ flight'[w] = flight[w] \ {r} /\ UNCHANGED line /\ Record(w, r, "error")
        BY <1>6, <1>i DEF Fail
    <2> HIDE DEF again
    <2>3. CASE flight'[w] = (flight[w] \ {r}) \cup {again} /\ UNCHANGED <<line, outcome>>
        BY <1>i, <2>1, <2>3 DEF Requested
    <2>4. CASE /\ flight'[w] = flight[w] \ {r} /\ line'[w] = Append(line[w], again)
               /\ UNCHANGED outcome
        <3> DEFINE K == Len(line[w])
        <3>1. /\ K \in Nat /\ DOMAIN line[w] = 1..K /\ DOMAIN line'[w] = 1..K + 1
              /\ \A k \in 1..K : line'[w][k] = line[w][k]
              /\ line'[w][K + 1] = again
            BY <1>s, <2>4
        <3> HIDE DEF K
        <3>2. \A k \in 1..K + 1 : k \in 1..K \/ k = K + 1
            BY <3>1
        <3> QED
            BY <1>i, <2>1, <2>4, <3>1, <3>2 DEF Requested
    <2>5. CASE flight'[w] = flight[w] \ {r} /\ UNCHANGED line /\ Record(w, r, "error")
        BY <1>i, <2>1, <2>5, Recording DEF Requested
    <2> QED
        BY <2>2, <2>3, <2>4, <2>5
<1>7. ASSUME NEW r \in Request, Terminal(w, r) PROVE Requested(w)'
    BY <1>7, <1>i, <1>s DEF Terminal, Requested, Called, Request
<1>8. CASE CallFails(w)
    BY <1>8, <1>i, <1>s DEF CallFails, Requested, Called, Request
<1>9. CASE \/ (\E i \in Item \cup {Pill} : Collect(w, i)) \/ Timeout(w) \/ EndBatch(w)
           \/ (\E n \in 1..Cardinality(Item) : PutResult(w, n)) \/ EndStream(w) \/ Raise(w)
           \/ (\E i \in Item : Unprepared(w, i)) \/ Abandon(w) \/ Kill(w)
    <2>1. UNCHANGED <<group, outcome, line, flight>>
        BY <1>9 DEF Collect, Timeout, EndBatch, PutResult, EndStream, Raise, Unprepared,
           Abandon, Kill
    <2> QED
        BY <1>i, <2>1 DEF Requested
<1> QED
    BY <1>1, <1>2, <1>3, <1>4, <1>5, <1>6, <1>7, <1>8, <1>9 DEF WorkerStep, Failure

\* A worker does what its mode says, and sees its last item last.
LEMMA WorkingKept ==
    ASSUME Inv, NEW w \in Worker, WorkerStep(w) \/ Failure(w)
    PROVE  Working(w)'
<1>i. /\ TypeOK /\ Working(w)
      /\ w \in DOMAIN pending /\ w \in DOMAIN batch /\ w \in DOMAIN last /\ w \in DOMAIN failing
      /\ w \in DOMAIN group /\ w \in DOMAIN pc
      /\ None \notin Item
    BY Domains, BatchAssumption DEF Inv, WorkerInv
<1>s. UNCHANGED mode /\ Left' \subseteq Left
    BY WorkersTake
<1>1. ASSUME NEW i \in Item \cup {Pill}, Collect(w, i) PROVE Working(w)'
    <2>1. /\ pc[w] = "collect" /\ UNCHANGED <<group, failing>> /\ PopsNext(w) /\ i = NextItem(w)
          /\ UNCHANGED backlog
          /\ \/ i = Pill /\ last'[w] = TRUE /\ pc'[w] = "process" /\ UNCHANGED <<pending, batch>>
             \/ i # Pill /\ pc'[w] \in {"collect", "process"} /\ UNCHANGED last
        BY <1>1, <1>i DEF Collect, Process
    <2>2. i = Pill => Left = {} /\ pending[w] = None
        BY <2>1, Nexting, BatchAssumption
    <2> QED
        BY <1>i, <1>s, <2>1, <2>2 DEF Working
<1>2. ASSUME NEW i \in Item \cup {Pill}, Stream(w, i) PROVE Working(w)'
    <2>1. /\ mode = "streaming" /\ UNCHANGED <<pc, batch, failing>>
          /\ pc[w] = "stream" /\ pending[w] = None
          /\ UNCHANGED pending \/ failing[w]
        BY <1>2, <1>i DEF Stream, Working
    <2> QED
        BY <1>i, <1>s, <2>1 DEF Working
<1>3. CASE Timeout(w)
    BY <1>3, <1>i, <1>s DEF Timeout, Process, Working, Running, Idle
<1>4. CASE StartGroup(w)
    <2>1. pc[w] = "process" /\ UNCHANGED <<pc, pending, failing, last>>
        BY <1>4 DEF StartGroup, Idle
    <2> QED
        BY <1>i, <1>s, <2>1 DEF Working
<1>5. CASE EndBatch(w)
    BY <1>5, <1>i, <1>s DEF EndBatch, Working, Running, Idle
<1>6. CASE EndGroup(w)
    <2>1. pc[w] = "process" /\ UNCHANGED <<pc, pending, failing, last, batch>>
        BY <1>6 DEF EndGroup
    <2> QED
        BY <1>i, <1>s, <2>1 DEF Working
<1>7. CASE EndStream(w)
    BY <1>7, <1>i, <1>s DEF EndStream, Working, Running, Idle
<1>8. CASE Raise(w)
    BY <1>8, <1>i, <1>s DEF Raise, Working, Running, Idle
<1>9. ASSUME NEW i \in Item, Unprepared(w, i) PROVE Working(w)'
    <2>1. pc[w] = "process" /\ UNCHANGED <<pc, pending, failing, last>>
        BY <1>9 DEF Unprepared, Idle
    <2> QED
        BY <1>i, <1>s, <2>1 DEF Working
<1>10. ASSUME NEW r \in Request, Terminal(w, r) PROVE Working(w)'
    BY <1>10, <1>i, <1>s DEF Terminal, Working, Running, Idle
<1>11. CASE Abandon(w)
    BY <1>11, <1>i, <1>s DEF Abandon, Working, Running, Idle
<1>12. CASE Kill(w)
    BY <1>12, <1>i, <1>s DEF Kill, Working, Running, Idle
<1>13. CASE \/ Dispatch(w) \/ (\E r \in Request : Succeed(w, r))
            \/ (\E n \in 1..Cardinality(Item) : PutResult(w, n))
            \/ (\E r \in Request : Fail(w, r)) \/ CallFails(w)
    <2>1. UNCHANGED <<pc, last, batch, pending, failing, group>>
        BY <1>13 DEF Dispatch, Succeed, PutResult, Fail, CallFails
    <2> QED
        BY <1>i, <1>s, <2>1 DEF Working
<1> QED
    BY <1>1, <1>2, <1>3, <1>4, <1>5, <1>6, <1>7, <1>8, <1>9, <1>10, <1>11, <1>12, <1>13
       DEF WorkerStep, Failure

\* A batch grows within its bounds, and then shrinks.
LEMMA CollectingKept ==
    ASSUME Inv, NEW w \in Worker, WorkerStep(w) \/ Failure(w)
    PROVE  Collecting(w)'
<1>i. /\ Collecting(w) /\ batch[w] \in Seq(Item) /\ Distinct(batch[w])
      /\ w \in DOMAIN batch /\ w \in DOMAIN pc
    BY Shape, Domains DEF Inv, WorkerInv, Owned
<1>b. ChunkSize \in Nat \ {0} /\ Budget \in Nat /\ Pill \notin Item
    BY BatchAssumption
<1>l. ASSUME NEW s \in Seq(Item), Range(s) \subseteq Range(batch[w]), Len(s) <= Len(batch[w]),
             batch'[w] = s, pc'[w] # "collect"
      PROVE  Collecting(w)'
    <2>1. SamplesOf(s) <= SamplesOf(batch[w]) /\ SamplesOf(s) \in Nat /\ SamplesOf(batch[w])
       \in Nat
        BY <1>i, <1>l, SamplesCounted
    <2>2. SamplesOf(s) = 0 <=> s = <<>>
        BY SamplesCounted
    <2>3. Len(s) \in Nat /\ Len(batch[w]) \in Nat /\ (s = <<>> <=> Len(s) = 0)
        BY <1>i
    <2>4. Budget > 0 /\ SamplesOf(s) > Budget => Len(s) = 1
        BY <1>i, <1>b, <1>l, <2>1, <2>2, <2>3 DEF Collecting
    <2>5. Len(s) <= ChunkSize
        BY <1>i, <1>b, <1>l, <2>3 DEF Collecting
    <2> QED
        BY <1>l, <2>4, <2>5 DEF Collecting
<1>1. ASSUME NEW i \in Item \cup {Pill}, Collect(w, i) PROVE Collecting(w)'
    <2>1. /\ pc[w] = "collect"
          /\ \/ pc'[w] = "process" /\ UNCHANGED batch
             \/ /\ i \in Item /\ Fits(w, i)
                /\ batch'[w] = Append(batch[w], i)
                /\ IF Full(batch'[w]) THEN pc'[w] = "process" ELSE UNCHANGED pc
        BY <1>1, <1>i DEF Collect, Process
    <2>2. CASE pc'[w] = "process" /\ UNCHANGED batch
        BY <1>i, <2>2 DEF Collecting
    <2>3. CASE /\ i \in Item /\ Fits(w, i)
               /\ batch'[w] = Append(batch[w], i)
               /\ IF Full(batch'[w]) THEN pc'[w] = "process" ELSE UNCHANGED pc
        <3> DEFINE s == Append(batch[w], i)
        <3>1. /\ s \in Seq(Item) /\ Len(s) = Len(batch[w]) + 1 /\ Len(batch[w]) \in Nat
              /\ batch[w] = <<>> => Len(batch[w]) = 0
            BY <1>i, <2>3, Appending
        <3>2. /\ SamplesOf(s) <= SamplesOf(batch[w]) + Samples[i]
              /\ SamplesOf(s) \in Nat /\ SamplesOf(batch[w]) \in Nat /\ Samples[i] \in Nat
            BY <1>i, <2>3, <3>1, SamplesCounted, SamplesFinite
        <3>3. ~Full(batch[w]) /\ batch'[w] = s
            BY <1>i, <2>1, <2>3 DEF Collecting
        <3> HIDE DEF s
        <3>4. Len(s) <= ChunkSize
            BY <1>b, <3>1, <3>3 DEF Full
        <3>5. Budget > 0 /\ SamplesOf(s) > Budget => Len(s) = 1
            BY <1>b, <2>3, <3>1, <3>2 DEF Fits
        <3>6. pc'[w] = "collect" => ~Full(s)
            BY <2>3, <3>3
        <3> QED
            BY <3>3, <3>4, <3>5, <3>6 DEF Collecting
    <2> QED
        BY <2>1, <2>2, <2>3
<1>2. CASE StartGroup(w)
    <2> DEFINE rest == RestOf(batch[w], FirstGroup(batch[w]))
    <2>1. batch'[w] = rest /\ pc'[w] # "collect"
        BY <1>2, <1>i DEF StartGroup, Idle
    <2>2. rest \in Seq(Item) /\ Range(rest) \subseteq Range(batch[w]) /\ Len(rest) <=
       Len(batch[w])
        BY <1>i, Grouping
    <2> HIDE DEF rest
    <2> QED
        BY <1>l, <2>1, <2>2
<1>3. CASE EndBatch(w)
    <2>1. batch[w] = <<>> /\ UNCHANGED batch
        BY <1>3 DEF EndBatch
    <2>2. Len(batch[w]) = 0 /\ SamplesOf(batch[w]) = 0
        BY <1>i, <2>1, SamplesCounted
    <2> QED
        BY <1>b, <2>1, <2>2 DEF Collecting, Full
<1>4. ASSUME NEW i \in Item, Unprepared(w, i) PROVE Collecting(w)'
    <2> DEFINE rest == RestOf(batch[w], <<i>>)
    <2>1. batch'[w] = rest /\ pc'[w] # "collect" /\ i \in Range(FirstGroup(batch[w]))
        BY <1>4, <1>i DEF Unprepared, Idle
    <2>2. Range(FirstGroup(batch[w])) \subseteq Range(batch[w])
        BY <1>i, Grouping
    <2>3. rest \in Seq(Item) /\ Range(rest) \subseteq Range(batch[w]) /\ Len(rest) <=
       Len(batch[w])
        BY <1>i, <2>1, <2>2, TakingOut
    <2> HIDE DEF rest
    <2> QED
        BY <1>l, <2>1, <2>3
<1>5. CASE \/ (\E i \in Item \cup {Pill} : Stream(w, i)) \/ Timeout(w) \/ Dispatch(w)
           \/ (\E r \in Request : Succeed(w, r))
           \/ (\E n \in 1..Cardinality(Item) : PutResult(w, n)) \/ EndGroup(w) \/ EndStream(w)
           \/ Raise(w) \/ (\E r \in Request : Fail(w, r))
           \/ (\E r \in Request : Terminal(w, r)) \/ CallFails(w) \/ Abandon(w) \/ Kill(w)
    <2>1. UNCHANGED batch /\ (pc'[w] # "collect" \/ pc'[w] = pc[w])
        BY <1>5, <1>i DEF Process, Stream, Timeout, Dispatch, Succeed, PutResult, EndGroup,
           EndStream, Raise, Fail, Terminal, CallFails, Abandon, Kill
    <2> QED
        BY <1>i, <2>1 DEF Collecting
<1> QED
    BY <1>1, <1>2, <1>3, <1>4, <1>5 DEF WorkerStep, Failure

-----------------------------------------------------------------------------
(* Type correctness.                                                       *)

\* A call of distinct items is well typed.
LEMMA SendingIsTyped ==
    ASSUME TypeOK, NEW w \in Worker, NEW items \in Seq(Item), Distinct(items), Send(w, items)
    PROVE  /\ group' \in [Worker -> Seq(Item)] /\ line' \in [Worker -> Seq(Request)]
           /\ outcome' \in [Worker -> Seq(Item \cup {None, "error"})]
           /\ put' \in [Worker -> SUBSET (1..Cardinality(Item))]
<1> DEFINE P == 1..Cardinality(Item)
           S == Item \cup {None, "error"}
<1>1. DOMAIN items = 1..Len(items) /\ Len(items) \in 0..Cardinality(Item)
    BY DistinctIsShort
<1>2. Cardinality(Item) \in Nat
    BY BatchAssumption, FS_CardinalityType
<1>3. \A n \in DOMAIN items : [place |-> n, attempt |-> 0] \in Request
    <2>1. 0 \in 0..MaxRetries
        BY BatchAssumption
    <2>2. DOMAIN items \subseteq P
        BY <1>1, <1>2
    <2> HIDE DEF P
    <2> QED
        BY <2>1, <2>2 DEF Request, P
<1>4. [n \in DOMAIN items |-> [place |-> n, attempt |-> 0]] \in Seq(Request)
    BY <1>1, <1>3
<1>5. [n \in DOMAIN items |-> None] \in Seq(S)
    BY <1>1
<1> HIDE DEF P, S
<1>6. group' \in [Worker -> Seq(Item)]
    BY DEF TypeOK, Send
<1>7. line' \in [Worker -> Seq(Request)]
    BY <1>4 DEF TypeOK, Send
<1>8. outcome' \in [Worker -> Seq(S)]
    BY <1>5 DEF TypeOK, Send, S
<1>9. put' \in [Worker -> SUBSET P]
    BY DEF TypeOK, Send, P
<1> QED
    BY <1>6, <1>7, <1>8, <1>9 DEF P, S

\* TypeOK, in three parts: the queue and what is carried over, a worker's batch
\* and where it is, its call.
TypeQueue ==
    /\ mode \in {"batched", "per_request", "streaming"}
    /\ backlog \in Seq(Item \cup {Pill}) /\ queue \in Seq(Item \cup {Pill})
    /\ pending \in [Worker -> Item \cup {None}]
    /\ errors \in 0..MaxErrors /\ faults \in 0..MaxFaults
TypeBatch ==
    /\ batch \in [Worker -> Seq(Item)]
    /\ last \in [Worker -> BOOLEAN] /\ failing \in [Worker -> BOOLEAN]
    /\ pc \in [Worker -> Running \cup {"gone", "fatal", "killed", "jammed"}]
    /\ answers \in [Item -> Seq(Item \cup {"error"})]
TypeCall ==
    /\ group \in [Worker -> Seq(Item)] /\ line \in [Worker -> Seq(Request)]
    /\ flight \in [Worker -> SUBSET Request]
    /\ outcome \in [Worker -> Seq(Item \cup {None, "error"})]
    /\ put \in [Worker -> SUBSET (1..Cardinality(Item))]

\* The queue and the item carried over are items and pills.
LEMMA QueueTyped ==
    ASSUME Inv, NEW w \in Worker, WorkerStep(w) \/ Failure(w)
    PROVE  TypeQueue'
<1>i. /\ TypeOK /\ w \in DOMAIN pc
      /\ pending[w] \in Item \cup {None} /\ batch[w] \in Seq(Item) /\ group[w] \in Seq(Item)
      /\ line[w] \in Seq(Request) /\ flight[w] \subseteq Request
      /\ outcome[w] \in Seq(Item \cup {None, "error"}) /\ put[w] \subseteq 1..Cardinality(Item)
      /\ Called(w) /\ Requested(w) /\ Distinct(batch[w])
    BY Shape, Domains DEF Inv, WorkerInv, Owned
<1>c. MaxErrors \in Nat /\ MaxFaults \in Nat /\ MaxRetries \in Nat
    BY BatchAssumption
<1>1. ASSUME NEW i \in Item \cup {Pill}, Collect(w, i) PROVE TypeQueue'
    <2>1. /\ PopsNext(w) /\ UNCHANGED <<mode, backlog, errors, faults>>
          /\ UNCHANGED pending \/ pending' = [pending EXCEPT ![w] = None]
                \/ (i # Pill /\ pending' = [pending EXCEPT ![w] = i])
        BY <1>1 DEF Collect
    <2>q. UNCHANGED queue \/ (queue # <<>> /\ queue' = Tail(queue))
        BY <2>1 DEF PopsNext
    <2>2. queue' \in Seq(Item \cup {Pill})
        <3>1. queue \in Seq(Item \cup {Pill})
            BY <1>i DEF TypeOK
        <3>2. queue # <<>> => Tail(queue) \in Seq(Item \cup {Pill})
            BY <3>1
        <3> QED
            BY <2>q, <3>1, <3>2
    <2>3. pending' \in [Worker -> Item \cup {None}]
        BY <1>i, <2>1 DEF TypeOK
    <2> QED
        BY <1>i, <2>1, <2>2, <2>3 DEF TypeQueue, TypeOK
<1>2. ASSUME NEW i \in Item \cup {Pill}, Stream(w, i) PROVE TypeQueue'
    <2>1. /\ queue # <<>> /\ queue' = Tail(queue) /\ UNCHANGED <<mode, backlog, errors, faults>>
          /\ UNCHANGED pending \/ (i # Pill /\ pending' = [pending EXCEPT ![w] = i])
        BY <1>2 DEF Stream
    <2>2. queue' \in Seq(Item \cup {Pill})
        BY <1>i, <2>1 DEF TypeOK
    <2>3. pending' \in [Worker -> Item \cup {None}]
        BY <1>i, <2>1 DEF TypeOK
    <2> QED
        BY <1>i, <2>1, <2>2, <2>3 DEF TypeQueue, TypeOK
<1>3. CASE \/ Timeout(w) \/ StartGroup(w) \/ EndBatch(w) \/ Dispatch(w)
           \/ (\E r \in Request : Succeed(w, r))
           \/ (\E n \in 1..Cardinality(Item) : PutResult(w, n)) \/ EndGroup(w) \/ EndStream(w)
           \/ Raise(w) \/ (\E i \in Item : Unprepared(w, i))
           \/ (\E r \in Request : Fail(w, r)) \/ (\E r \in Request : Terminal(w, r))
           \/ CallFails(w) \/ Abandon(w) \/ Kill(w)
    <2>1. /\ UNCHANGED <<mode, backlog, queue, pending>>
          /\ UNCHANGED errors \/ (errors < MaxErrors /\ errors' = errors + 1)
          /\ UNCHANGED faults \/ (faults < MaxFaults /\ faults' = faults + 1)
        BY <1>3 DEF Error, Fault, Timeout, StartGroup, EndBatch, Dispatch, Succeed, PutResult,
           EndGroup, EndStream, Raise, Unprepared, Fail, Terminal, CallFails, Abandon, Kill
    <2>2. errors' \in 0..MaxErrors /\ faults' \in 0..MaxFaults
        BY <1>i, <1>c, <2>1 DEF TypeOK
    <2> QED
        BY <1>i, <2>1, <2>2 DEF TypeQueue, TypeOK
<1> QED
    BY <1>1, <1>2, <1>3 DEF WorkerStep, Failure

\* A worker's batch and the answers have their types.
LEMMA BatchTyped ==
    ASSUME Inv, NEW w \in Worker, WorkerStep(w) \/ Failure(w)
    PROVE  TypeBatch'
<1>i. /\ TypeOK /\ w \in DOMAIN pc
      /\ pending[w] \in Item \cup {None} /\ batch[w] \in Seq(Item) /\ group[w] \in Seq(Item)
      /\ line[w] \in Seq(Request) /\ flight[w] \subseteq Request
      /\ outcome[w] \in Seq(Item \cup {None, "error"}) /\ put[w] \subseteq 1..Cardinality(Item)
      /\ Called(w) /\ Requested(w) /\ Distinct(batch[w])
    BY Shape, Domains DEF Inv, WorkerInv, Owned
<1>c. MaxErrors \in Nat /\ MaxFaults \in Nat /\ MaxRetries \in Nat
    BY BatchAssumption
<1>1. ASSUME NEW i \in Item \cup {Pill}, Collect(w, i) PROVE TypeBatch'
    <2>1. /\ UNCHANGED <<failing, answers>>
          /\ UNCHANGED batch \/ (i \in Item /\ batch' = [batch EXCEPT ![w] = Append(@, i)])
          /\ UNCHANGED last \/ last' = [last EXCEPT ![w] = TRUE]
          /\ UNCHANGED pc \/ pc' = [pc EXCEPT ![w] = "process"]
        BY <1>1 DEF Collect, Process
    <2>2. batch' \in [Worker -> Seq(Item)]
        <3>1. i \in Item => Append(batch[w], i) \in Seq(Item)
            BY <1>i
        <3>2. batch \in [Worker -> Seq(Item)]
            BY <1>i DEF TypeOK
        <3>3. CASE i \in Item /\ batch' = [batch EXCEPT ![w] = Append(@, i)]
            BY <3>1, <3>2, <3>3
        <3> QED
            BY <2>1, <3>2, <3>3
    <2>3. last' \in [Worker -> BOOLEAN]
        BY <1>i, <2>1 DEF TypeOK
    <2>4. pc' \in [Worker -> Running \cup {"gone", "fatal", "killed", "jammed"}]
        BY <1>i, <2>1 DEF TypeOK, Running
    <2> QED
        BY <1>i, <2>1, <2>2, <2>3, <2>4 DEF TypeBatch, TypeOK
<1>2. ASSUME NEW i \in Item \cup {Pill}, Stream(w, i) PROVE TypeBatch'
    BY <1>2, <1>i DEF Stream, TypeBatch, TypeOK, Running
<1>3. CASE Timeout(w)
    BY <1>3, <1>i DEF Timeout, Process, TypeBatch, TypeOK, Running
<1>4. CASE StartGroup(w)
    <2>1. /\ batch' = [batch EXCEPT ![w] = RestOf(batch[w], FirstGroup(batch[w]))]
          /\ UNCHANGED <<last, failing, pc, answers>>
        BY <1>4, <1>i, Domains DEF StartGroup
    <2>2. RestOf(batch[w], FirstGroup(batch[w])) \in Seq(Item)
        BY <1>i, Grouping
    <2> QED
        BY <1>i, <2>1, <2>2 DEF TypeBatch, TypeOK
<1>5. CASE EndBatch(w)
    BY <1>5, <1>i DEF EndBatch, TypeBatch, TypeOK, Running
<1>6. ASSUME NEW n \in 1..Cardinality(Item), PutResult(w, n) PROVE TypeBatch'
    <2>1. /\ n \in DOMAIN group[w] /\ outcome[w][n] # None
          /\ answers' = [answers EXCEPT ![group[w][n]] = Append(@, outcome[w][n])]
          /\ UNCHANGED <<batch, last, failing, pc>>
        BY <1>6 DEF PutResult, Put
    <2>2. group[w][n] \in Item /\ outcome[w][n] \in Item \cup {"error"}
        BY <1>i, <2>1 DEF Called
    <2>3. answers' \in [Item -> Seq(Item \cup {"error"})]
        BY <1>i, <2>1, <2>2 DEF TypeOK
    <2> QED
        BY <1>i, <2>1, <2>3 DEF TypeBatch, TypeOK
<1>7. CASE EndStream(w)
    BY <1>7, <1>i DEF EndStream, TypeBatch, TypeOK, Running
<1>8. CASE Raise(w)
    BY <1>8, <1>i DEF Raise, TypeBatch, TypeOK, Running
<1>9. ASSUME NEW i \in Item, Unprepared(w, i) PROVE TypeBatch'
    <2>1. /\ batch' = [batch EXCEPT ![w] = RestOf(batch[w], <<i>>)]
          /\ answers' = [answers EXCEPT ![i] = Append(@, "error")]
          /\ UNCHANGED <<last, failing, pc>>
        BY <1>9, <1>i, Domains DEF Unprepared, Put
    <2>2. RestOf(batch[w], <<i>>) \in Seq(Item)
        BY <1>i, OnlyTakes DEF RestOf
    <2>3. answers' \in [Item -> Seq(Item \cup {"error"})]
        BY <1>i, <2>1 DEF TypeOK
    <2> QED
        BY <1>i, <2>1, <2>2, <2>3 DEF TypeBatch, TypeOK
<1>10. ASSUME NEW r \in Request, Terminal(w, r) PROVE TypeBatch'
    BY <1>10, <1>i DEF Terminal, TypeBatch, TypeOK, Running
<1>11. CASE Abandon(w)
    BY <1>11, <1>i DEF Abandon, TypeBatch, TypeOK, Running
<1>12. CASE Kill(w)
    BY <1>12, <1>i DEF Kill, TypeBatch, TypeOK, Running
<1>13. CASE \/ Dispatch(w) \/ (\E r \in Request : Succeed(w, r)) \/ EndGroup(w)
            \/ (\E r \in Request : Fail(w, r)) \/ CallFails(w)
    <2>1. UNCHANGED <<batch, last, failing, pc, answers>>
        BY <1>13 DEF Dispatch, Succeed, EndGroup, Fail, CallFails
    <2> QED
        BY <1>i, <2>1 DEF TypeBatch, TypeOK
<1> QED
    BY <1>1, <1>2, <1>3, <1>4, <1>5, <1>6, <1>7, <1>8, <1>9, <1>10, <1>11, <1>12, <1>13
       DEF WorkerStep, Failure

\* The call of a worker has its type: no request is sent more often than its retries allow.
LEMMA CallTyped ==
    ASSUME Inv, NEW w \in Worker, WorkerStep(w) \/ Failure(w)
    PROVE  TypeCall'
<1>i. /\ TypeOK /\ w \in DOMAIN pc
      /\ pending[w] \in Item \cup {None} /\ batch[w] \in Seq(Item) /\ group[w] \in Seq(Item)
      /\ line[w] \in Seq(Request) /\ flight[w] \subseteq Request
      /\ outcome[w] \in Seq(Item \cup {None, "error"}) /\ put[w] \subseteq 1..Cardinality(Item)
      /\ Called(w) /\ Requested(w) /\ Distinct(batch[w])
    BY Shape, Domains DEF Inv, WorkerInv, Owned
<1>c. MaxErrors \in Nat /\ MaxFaults \in Nat /\ MaxRetries \in Nat
    BY BatchAssumption
<1>1. ASSUME NEW i \in Item \cup {Pill}, Stream(w, i) PROVE TypeCall'
    <2>1. CASE UNCHANGED <<group, line, outcome, flight, put>>
        BY <1>i, <2>1 DEF TypeCall, TypeOK
    <2>2. CASE ~UNCHANGED <<group, line, outcome, flight, put>>
        <3> DEFINE new == [place |-> Len(group[w]) + 1, attempt |-> 0]
                   S == Item \cup {None, "error"}
        <3>1. /\ UNCHANGED <<flight, put>> /\ Len(group[w]) \in Nat
              /\ group'[w] \in Seq(Item) /\ Len(group'[w]) = Len(group[w]) + 1
              /\ outcome'[w] \in Seq(S)
              /\ line' = [line EXCEPT ![w] = Append(@, new)]
            BY <1>1, <2>2, Streaming
        <3>2. Distinct(group'[w])
            BY <1>1, StreamTakes DEF Owned
        <3>3. Len(group[w]) + 1 \in 1..Cardinality(Item)
            BY <3>1, <3>2, DistinctIsShort
        <3>4. new \in Request
            BY <1>c, <3>3 DEF Request
        <3> HIDE DEF new, S
        <3>5. line' \in [Worker -> Seq(Request)]
            BY <1>i, <3>1, <3>4 DEF TypeOK
        <3>6. /\ group' = [group EXCEPT ![w] = group'[w]]
              /\ outcome' = [outcome EXCEPT ![w] = outcome'[w]]
            BY <1>1, <1>i DEF Stream, TypeOK
        <3>7. group' \in [Worker -> Seq(Item)]
            BY <1>i, <3>1, <3>6 DEF TypeOK
        <3>8. outcome' \in [Worker -> Seq(S)]
            BY <1>i, <3>1, <3>6 DEF TypeOK, S
        <3> QED
            BY <1>i, <3>1, <3>5, <3>7, <3>8 DEF TypeCall, TypeOK, S
    <2> QED
        BY <2>1, <2>2
<1>2. CASE StartGroup(w)
    <2> DEFINE some == FirstGroup(batch[w])
    <2>1. some \in Seq(Item) /\ Distinct(some) /\ Send(w, some) /\ UNCHANGED flight
        BY <1>2, <1>i, Grouping DEF StartGroup
    <2> HIDE DEF some
    <2> QED
        BY <1>i, <2>1, SendingIsTyped DEF TypeCall, TypeOK
<1>3. CASE Dispatch(w)
    <2>1. /\ line[w] # <<>> /\ line' = [line EXCEPT ![w] = Tail(@)]
          /\ flight' = [flight EXCEPT ![w] = @ \cup {Head(line[w])}]
          /\ UNCHANGED <<group, outcome, put>>
        BY <1>3 DEF Dispatch
    <2>2. Head(line[w]) \in Request /\ Tail(line[w]) \in Seq(Request)
        BY <1>i, <2>1
    <2>3. line' \in [Worker -> Seq(Request)]
        BY <1>i, <2>1, <2>2 DEF TypeOK
    <2>4. flight' \in [Worker -> SUBSET Request]
        BY <1>i, <2>1, <2>2 DEF TypeOK
    <2> QED
        BY <1>i, <2>1, <2>3, <2>4 DEF TypeCall, TypeOK
<1>4. ASSUME NEW r \in Request, Succeed(w, r) PROVE TypeCall'
    <2>1. /\ r.place \in DOMAIN group[w] /\ Record(w, r, group[w][r.place])
          /\ flight' = [flight EXCEPT ![w] = @ \ {r}] /\ UNCHANGED <<group, line, put>>
        BY <1>4, <1>i DEF Succeed, Requested
    <2>2. flight' \in [Worker -> SUBSET Request]
        BY <1>i, <2>1 DEF TypeOK
    <2>3. outcome' \in [Worker -> Seq(Item \cup {None, "error"})]
        BY <1>i, <2>1, RecordingIsTyped DEF Called
    <2> QED
        BY <1>i, <2>1, <2>2, <2>3 DEF TypeCall, TypeOK
<1>5. ASSUME NEW n \in 1..Cardinality(Item), PutResult(w, n) PROVE TypeCall'
    BY <1>5, <1>i, <1>c DEF PutResult, TypeCall, TypeOK
<1>6. CASE EndGroup(w)
    <2>1. <<>> \in Seq(Item) /\ Distinct(<<>>) /\ Send(w, <<>>) /\ UNCHANGED flight
        BY <1>6 DEF EndGroup, Distinct
    <2> QED
        BY <1>i, <2>1, SendingIsTyped DEF TypeCall, TypeOK
<1>7. ASSUME NEW r \in Request, Fail(w, r) PROVE TypeCall'
    <2> DEFINE again == [place |-> r.place, attempt |-> r.attempt + 1]
    <2>1. r \in flight[w] /\ UNCHANGED <<group, put>> /\ r.place \in DOMAIN outcome[w]
        BY <1>7, <1>i DEF Fail, Requested, Called
    <2>2. \/ /\ r.attempt < Retries(w)
             /\ flight' = [flight EXCEPT ![w] = (@ \ {r}) \cup {again}] /\ UNCHANGED <<line,
                outcome>>
          \/ /\ r.attempt < Retries(w)
             /\ flight' = [flight EXCEPT ![w] = @ \ {r}]
             /\ line' = [line EXCEPT ![w] = Append(@, again)]
             /\ UNCHANGED outcome
          \/ /\ flight' = [flight EXCEPT ![w] = @ \ {r}] /\ UNCHANGED line
             /\ Record(w, r, "error")
        BY <1>7 DEF Fail
    <2>r. r.attempt < Retries(w) => again \in Request
        BY <1>c DEF Retries, Request
    <2> HIDE DEF again
    <2>3. \/ /\ again \in Request
             /\ flight' = [flight EXCEPT ![w] = (@ \ {r}) \cup {again}] /\ UNCHANGED line
          \/ /\ again \in Request
             /\ flight' = [flight EXCEPT ![w] = @ \ {r}]
             /\ line' = [line EXCEPT ![w] = Append(@, again)]
          \/ flight' = [flight EXCEPT ![w] = @ \ {r}] /\ UNCHANGED line
        BY <2>2, <2>r
    <2>4. flight' \in [Worker -> SUBSET Request]
        <3>1. \/ again \in Request /\ flight' = [flight EXCEPT ![w] = (@ \ {r}) \cup {again}]
              \/ flight' = [flight EXCEPT ![w] = @ \ {r}]
            BY <2>3
        <3>2. CASE again \in Request /\ flight' = [flight EXCEPT ![w] = (@ \ {r}) \cup {again}]
            BY <1>i, <3>2 DEF TypeOK
        <3>3. CASE flight' = [flight EXCEPT ![w] = @ \ {r}]
            BY <1>i, <3>3 DEF TypeOK
        <3> QED
            BY <3>1, <3>2, <3>3
    <2>5. line' \in [Worker -> Seq(Request)]
        <3>1. UNCHANGED line \/ (again \in Request /\ line' = [line EXCEPT ![w] = Append(@,
           again)])
            BY <2>3
        <3>2. CASE again \in Request /\ line' = [line EXCEPT ![w] = Append(@, again)]
            BY <1>i, <3>2 DEF TypeOK
        <3>3. CASE UNCHANGED line
            BY <1>i, <3>3 DEF TypeOK
        <3> QED
            BY <3>1, <3>2, <3>3
    <2>6. outcome' \in [Worker -> Seq(Item \cup {None, "error"})]
        BY <1>i, <2>1, <2>2, RecordingIsTyped DEF TypeOK
    <2> QED
        BY <1>i, <2>1, <2>4, <2>5, <2>6 DEF TypeCall, TypeOK
<1>8. ASSUME NEW r \in Request, Terminal(w, r) PROVE TypeCall'
    BY <1>8, <1>i, <1>c DEF Terminal, TypeCall, TypeOK
<1>9. CASE CallFails(w)
    <2> DEFINE S == Item \cup {None, "error"}
    <2>1. PICK built \in 0..Len(group[w]) - 1 :
              outcome' = [outcome EXCEPT ![w] =
                             [n \in DOMAIN @ |-> IF n <= built THEN @[n] ELSE "error"]]
        BY <1>9 DEF CallFails
    <2> DEFINE new == [n \in DOMAIN outcome[w] |-> IF n <= built THEN outcome[w][n] ELSE "error"]
    <2>2. outcome' = [outcome EXCEPT ![w] = new]
        BY <1>i, <2>1, Domains
    <2>3. new \in Seq(S)
        BY <1>i
    <2> HIDE DEF new, S
    <2>4. outcome' \in [Worker -> Seq(S)]
        BY <1>i, <2>2, <2>3 DEF TypeOK, S
    <2>5. /\ line' = [line EXCEPT ![w] = <<>>] /\ flight' = [flight EXCEPT ![w] = {}]
          /\ UNCHANGED <<group, put>>
        BY <1>9 DEF CallFails
    <2>6. <<>> \in Seq(Request)
        OBVIOUS
    <2> QED
        BY <1>i, <2>4, <2>5, <2>6 DEF TypeCall, TypeOK, S
<1>10. CASE \/ (\E i \in Item \cup {Pill} : Collect(w, i)) \/ Timeout(w) \/ EndBatch(w)
            \/ EndStream(w) \/ Raise(w) \/ (\E i \in Item : Unprepared(w, i)) \/ Abandon(w)
            \/ Kill(w)
    <2>1. UNCHANGED <<group, line, flight, outcome, put>>
        BY <1>10 DEF Collect, Timeout, EndBatch, EndStream, Raise, Unprepared, Abandon, Kill
    <2> QED
        BY <1>i, <2>1 DEF TypeCall, TypeOK
<1> QED
    BY <1>1, <1>2, <1>3, <1>4, <1>5, <1>6, <1>7, <1>8, <1>9, <1>10 DEF WorkerStep, Failure

-----------------------------------------------------------------------------
(* The invariant.                                                          *)

\* A worker is not disturbed by the feeder and by other workers, which only take
\* from what is left.
LEMMA Undisturbed ==
    ASSUME NEW v \in Worker, WorkerInv(v), Untouched(v), UNCHANGED mode, Left' \subseteq Left
    PROVE  WorkerInv(v)' /\ Taken(v)' = Taken(v)
<1>1. /\ pending'[v] = pending[v] /\ batch'[v] = batch[v] /\ last'[v] = last[v]
      /\ group'[v] = group[v] /\ line'[v] = line[v] /\ flight'[v] = flight[v]
      /\ outcome'[v] = outcome[v] /\ put'[v] = put[v] /\ failing'[v] = failing[v]
      /\ pc'[v] = pc[v]
    BY DEF Untouched
<1>2. Taken(v)' = Taken(v)
    BY <1>1 DEF Taken
<1>3. Owned(v)'
    BY <1>1, <1>2 DEF WorkerInv, Owned
<1>4. Called(v)'
    BY <1>1 DEF WorkerInv, Called
<1>5. Requested(v)'
    BY <1>1 DEF WorkerInv, Requested
<1>6. Working(v)'
    BY <1>1 DEF WorkerInv, Working
<1>7. Collecting(v)'
    BY <1>1 DEF WorkerInv, Collecting
<1> QED
    BY <1>2, <1>3, <1>4, <1>5, <1>6, <1>7 DEF WorkerInv

\* The queue begins with every item once, and then the pills.
LEMMA FirstSupply ==
    ASSUME Init
    PROVE  backlog \in Seq(Item \cup {Pill}) /\ Supplied /\ Left = Item
<1> DEFINE I == Cardinality(Item)
           W == Cardinality(Worker)
           pills == [n \in 1..W |-> Pill]
<1>1. IsFiniteSet(Item) /\ I \in Nat /\ W \in Nat /\ Pill \notin Item
    BY BatchAssumption, FS_CardinalityType
<1>2. PICK order \in SetToSeqs(Item) : backlog = order \o pills
    BY DEF Init
<1>3. order \in [1..I -> Item] /\ \A m, n \in 1..I : m # n => order[m] # order[n]
    BY <1>2 DEF SetToSeqs
<1>4. \A i \in Item : \E n \in 1..I : order[n] = i
    <2>1. order \in Injection(1..I, Item)
        BY <1>3 DEF Injection, IsInjective
    <2>2. Cardinality(1..I) = Cardinality(Item)
        BY <1>1, Interval
    <2>3. order \in Surjection(1..I, Item)
        BY <1>1, <2>1, <2>2, FS_Injection
    <2> QED
        BY <2>3 DEF Surjection
<1>5. order \in Seq(Item \cup {Pill}) /\ Len(order) = I
    BY <1>1, <1>3
<1>6. pills \in Seq(Item \cup {Pill}) /\ Len(pills) = W /\ \A n \in 1..W : pills[n] = Pill
    BY <1>1
<1> HIDE DEF pills, I, W
<1>7. /\ backlog \in Seq(Item \cup {Pill}) /\ DOMAIN backlog = 1..I + W
      /\ \A n \in 1..I : backlog[n] = order[n]
      /\ \A n \in 1..I + W : n > I => backlog[n] = pills[n - I]
    BY <1>1, <1>2, <1>5, <1>6
<1>8. supply = backlog
    BY <1>7 DEF supply, Init
<1>9. \A n \in 1..I + W : IF n <= I THEN n \in 1..I ELSE n - I \in 1..W
    BY <1>1
<1>10. \A n \in DOMAIN backlog :
           /\ n \in 1..I => backlog[n] \in Item /\ backlog[n] = order[n]
           /\ n \notin 1..I => backlog[n] = Pill
    <2>1. ASSUME NEW n \in 1..I + W, n \notin 1..I PROVE backlog[n] = Pill
        <3>1. n > I /\ n - I \in 1..W
            BY <1>1, <2>1
        <3> QED
            BY <1>6, <1>7, <3>1
    <2> QED
        BY <1>3, <1>7, <2>1
<1>11. Supplied
    <2>1. ASSUME NEW m \in DOMAIN backlog, NEW n \in DOMAIN backlog,
                 m < n, backlog[m] = backlog[n] \/ backlog[m] = Pill
          PROVE  backlog[n] = Pill
        <3>1. n \in 1..I => m \in 1..I /\ m # n
            BY <1>1, <1>7, <2>1
        <3> QED
            BY <1>1, <1>3, <1>10, <2>1, <3>1
    <2> QED
        BY <1>8, <2>1 DEF Supplied
<1>12. Range(backlog) \ {Pill} = Item
    <2>1. 1..I \subseteq DOMAIN backlog
        BY <1>1, <1>7
    <2>2. ASSUME NEW i \in Item PROVE i \in Range(backlog)
        <3>1. PICK n \in 1..I : order[n] = i
            BY <1>4
        <3> QED
            BY <1>10, <2>1, <3>1 DEF Range
    <2>3. \A n \in DOMAIN backlog : backlog[n] \in Item \cup {Pill}
        BY <1>10
    <2> QED
        BY <1>1, <2>2, <2>3 DEF Range
<1> QED
    BY <1>7, <1>8, <1>11, <1>12 DEF Left, supply

\* The initial states satisfy it.
LEMMA InitHolds == Init => Inv
<1> SUFFICES ASSUME Init PROVE Inv
    OBVIOUS
<1>1. backlog \in Seq(Item \cup {Pill}) /\ Supplied /\ Left = Item
    BY FirstSupply
<1>2. \A w \in Worker :
          /\ pending[w] = None /\ batch[w] = <<>> /\ last[w] = FALSE /\ group[w] = <<>>
          /\ line[w] = <<>> /\ flight[w] = {} /\ outcome[w] = <<>> /\ put[w] = {}
          /\ pc[w] = Start
    BY DEF Init
<1>3. ChunkSize \in Nat \ {0} /\ Budget \in Nat /\ MaxErrors \in Nat /\ MaxFaults \in Nat
    BY BatchAssumption
<1>4. TypeOK
    <2>1. Start \in Running
        BY DEF Start, Running
    <2> QED
        BY <1>1, <1>3, <2>1 DEF TypeOK, Init
<1>5. SamplesOf(<<>>) = 0 /\ Len(<<>>) = 0
    <2>1. <<>> \in Seq(Item)
        OBVIOUS
    <2> QED
        BY <2>1, SamplesCounted
<1>6. ASSUME NEW w \in Worker PROVE WorkerInv(w) /\ Taken(w) = {}
    <2>1. DOMAIN <<>> = {}
        OBVIOUS
    <2>2. Taken(w) = {}
        BY <1>2, <2>1 DEF Taken, Range
    <2>3. Owned(w)
        BY <1>2, <2>1, <2>2 DEF Owned, Distinct, Range
    <2>4. Called(w) /\ Requested(w)
        BY <1>2, <2>1 DEF Called, Requested
    <2>5. Working(w)
        BY <1>2 DEF Working, Start, Init
    <2>6. Collecting(w)
        BY <1>2, <1>3, <1>5 DEF Collecting, Full
    <2> QED
        BY <2>2, <2>3, <2>4, <2>5, <2>6 DEF WorkerInv
<1>7. \A w, v \in Worker : Apart(w, v)
    BY <1>6 DEF Apart
<1> QED
    BY <1>1, <1>4, <1>6, <1>7 DEF Inv

\* Every step keeps it.
LEMMA StepKeeps == Inv /\ [Next]_vars => Inv'
<1> SUFFICES ASSUME Inv, [Next]_vars PROVE Inv'
    OBVIOUS
<1>1. TypeOK /\ Supplied /\ \A w \in Worker : WorkerInv(w)
    BY DEF Inv
<1>2. ASSUME \A v \in Worker : Untouched(v), UNCHANGED mode, Left' = Left
      PROVE  (\A v \in Worker : WorkerInv(v)') /\ \A u, v \in Worker : Apart(u, v)'
    <2>1. \A v \in Worker : WorkerInv(v)' /\ Taken(v)' = Taken(v)
        BY <1>1, <1>2, Undisturbed
    <2> QED
        BY <2>1 DEF Inv, Apart
<1>3. CASE Feed
    <2>1. supply' = supply /\ Left' = Left
        BY <1>1, <1>3, Feeding
    <2>2. (\A v \in Worker : Untouched(v)) /\ UNCHANGED mode
        BY <1>3 DEF Feed, work, Untouched
    <2>3. TypeOK'
        <3>1. backlog' \in Seq(Item \cup {Pill}) /\ queue' \in Seq(Item \cup {Pill})
            BY <1>1, <1>3 DEF Feed, TypeOK
        <3> QED
            BY <1>1, <1>3, <3>1 DEF Feed, work, TypeOK
    <2>4. Supplied'
        BY <1>1, <2>1 DEF Supplied
    <2> QED
        BY <1>2, <2>1, <2>2, <2>3, <2>4 DEF Inv
<1>4. ASSUME NEW w \in Worker, WorkerStep(w) \/ Failure(w) PROVE Inv'
    <2>1. Supplied' /\ Left' \subseteq Left /\ UNCHANGED mode
        BY <1>4, WorkersTake
    <2>2. TypeOK'
        <3>1. TypeQueue' /\ TypeBatch' /\ TypeCall'
            BY <1>4, QueueTyped, BatchTyped, CallTyped
        <3> QED
            BY <3>1 DEF TypeOK, TypeQueue, TypeBatch, TypeCall
    <2>3. WorkerInv(w)' /\ Taken(w)' \subseteq Taken(w) \cup (Left \ Left')
        BY <1>4, OwnedKept, CalledKept, RequestedKept, WorkingKept, CollectingKept DEF WorkerInv
    <2>4. \A v \in Worker : v # w => WorkerInv(v)' /\ Taken(v)' = Taken(v)
        BY <1>1, <1>4, <2>1, OthersKept, Undisturbed
    <2>5. \A v \in Worker : Taken(v) \cap Left = {}
        BY <1>1 DEF WorkerInv, Owned
    <2>6. \A u, v \in Worker : u # v => Taken(u) \cap Taken(v) = {}
        BY DEF Inv, Apart
    <2>7. \A u, v \in Worker : Apart(u, v)'
        BY <2>3, <2>4, <2>5, <2>6 DEF Apart
    <2> QED
        BY <2>1, <2>2, <2>3, <2>4, <2>7 DEF Inv
<1>5. CASE UNCHANGED vars
    <2>1. /\ (\A v \in Worker : Untouched(v)) /\ UNCHANGED mode
          /\ supply' = supply /\ Left' = Left
        BY <1>5 DEF vars, work, Untouched, supply, Left
    <2>2. TypeOK'
        BY <1>1, <1>5 DEF vars, work, TypeOK
    <2>3. Supplied'
        BY <1>1, <2>1 DEF Supplied
    <2> QED
        BY <1>2, <2>1, <2>2, <2>3 DEF Inv
<1> QED
    BY <1>3, <1>4, <1>5 DEF Next

\* So it holds in every reachable state.
THEOREM Inductive == Spec => []Inv
BY InitHolds, StepKeeps, PTL DEF Spec

\* Every variable has its type, and no request is sent more often than its
\* retries allow, for any workers, items, bounds and retries (run_results).
THEOREM TypeCorrect == Spec => []TypeOK
<1>1. Inv => TypeOK
    BY DEF Inv
<1> QED
    BY <1>1, Inductive, PTL

\* A batch never exceeds its number of items, nor its budget of samples unless a
\* single item does, whatever was carried over from the one before (collect_batch).
THEOREM BatchesFit == Spec => []BatchWithinBudget
<1>1. Inv => BatchWithinBudget
    BY DEF Inv, WorkerInv, Collecting, BatchWithinBudget
<1> QED
    BY <1>1, Inductive, PTL

-----------------------------------------------------------------------------
(* The workers are a pool.                                                 *)

\* What a worker's step leaves of the others, and of the mode.
Elsewhere(w) ==
    /\ \A v \in Worker : v # w => Holds(v)' = Holds(v) /\ State(v)' = State(v)
    /\ UNCHANGED mode

\* The other workers hold what they held, and go on as they did.
LEMMA ElsewhereSame ==
    ASSUME TypeOK, NEW w \in Worker, WorkerStep(w) \/ Failure(w), UNCHANGED mode
    PROVE  Elsewhere(w)
<1>1. ASSUME NEW v \in Worker, v # w PROVE Holds(v)' = Holds(v) /\ State(v)' = State(v)
    <2>1. Untouched(v)
        BY <1>1, OthersKept
    <2> QED
        BY <2>1 DEF Untouched, Holds, State
<1> QED
    BY <1>1 DEF Elsewhere

\* A step that hands nothing over is a stutter of the pool.
LEMMA PoolStutters ==
    ASSUME NEW w \in Worker, Elsewhere(w), Left' = Left, Holds(w)' = Holds(w),
           State(w)' = State(w), UNCHANGED answers
    PROVE  UNCHANGED Pool!pool
<1>1. \A v \in Worker : Holds(v)' = Holds(v) /\ State(v)' = State(v)
    BY DEF Elsewhere
<1>2. [v \in Worker |-> Holds(v)]' = [v \in Worker |-> Holds(v)]
    BY <1>1
<1>3. [v \in Worker |-> State(v)]' = [v \in Worker |-> State(v)]
    BY <1>1
<1>4. [i \in Item |-> Answered(i)]' = [i \in Item |-> Answered(i)]
    BY DEF Answered
<1> QED
    BY <1>2, <1>3, <1>4 DEF Pool!pool, Elsewhere

\* An item moves from what is left to a worker.
LEMMA PoolTakes ==
    ASSUME NEW w \in Worker, NEW i \in Item, Elsewhere(w), i \in Left, Left' = Left \ {i},
           Holds(w)' = Holds(w) \cup {i}, State(w) = "run", State(w)' = "run", UNCHANGED answers
    PROVE  Pool!Take(w, i)
<1>1. \A v \in Worker : State(v)' = State(v) /\ (v # w => Holds(v)' = Holds(v))
    BY DEF Elsewhere
<1>2. [v \in Worker |-> Holds(v)]' = [[v \in Worker |-> Holds(v)] EXCEPT ![w] = @ \cup {i}]
    BY <1>1
<1>3. [v \in Worker |-> State(v)]' = [v \in Worker |-> State(v)]
    BY <1>1
<1>4. [j \in Item |-> Answered(j)]' = [j \in Item |-> Answered(j)]
    BY DEF Answered
<1> QED
    BY <1>2, <1>3, <1>4 DEF Pool!Take, Elsewhere

\* An item a worker holds is answered.
LEMMA PoolAnswers ==
    ASSUME TypeOK, NEW w \in Worker, NEW i \in Item, NEW what \in Item \cup {"error"},
           Elsewhere(w), Put(i, what), Left' = Left, i \in Holds(w),
           Holds(w)' = Holds(w) \ {i}, State(w) = "run", State(w)' = "run"
    PROVE  Pool!Answer(w, i, what)
<1>1. \A v \in Worker : State(v)' = State(v) /\ (v # w => Holds(v)' = Holds(v))
    BY DEF Elsewhere
<1>2. [v \in Worker |-> Holds(v)]' = [[v \in Worker |-> Holds(v)] EXCEPT ![w] = @ \ {i}]
    BY <1>1
<1>3. [v \in Worker |-> State(v)]' = [v \in Worker |-> State(v)]
    BY <1>1
<1>4. answers \in [Item -> Seq(Item \cup {"error"})]
    BY DEF TypeOK
<1>5. /\ answers'[i] = Append(answers[i], what)
      /\ \A j \in Item : j # i => answers'[j] = answers[j]
    BY <1>4 DEF Put
<1>6. Answered(i)' = what
    <2>1. answers[i] \in Seq(Item \cup {"error"})
        BY <1>4
    <2> DEFINE s == answers[i]
    <2> HIDE DEF s
    <2>2. s \in Seq(Item \cup {"error"}) => Append(s, what) # <<>> /\ Last(Append(s, what)) = what
        BY DEF Last
    <2>3. answers'[i] # <<>> /\ Last(answers'[i]) = what
        BY <1>5, <2>1, <2>2 DEF s
    <2> QED
        BY <2>3 DEF Answered
<1>7. \A j \in Item : j # i => Answered(j)' = Answered(j)
    BY <1>5 DEF Answered
<1>8. [j \in Item |-> Answered(j)]' = [[j \in Item |-> Answered(j)] EXCEPT ![i] = what]
    BY <1>6, <1>7
<1> QED
    BY <1>2, <1>3, <1>8 DEF Pool!Answer, Elsewhere

\* A worker that holds nothing leaves.
LEMMA PoolLeaves ==
    ASSUME NEW w \in Worker, Elsewhere(w), Left' = Left, Holds(w)' = Holds(w), Holds(w) = {},
           Left = {} \/ mode = "streaming", State(w) = "run", State(w)' = "gone",
           UNCHANGED answers
    PROVE  Pool!Leave(w)
<1>1. \A v \in Worker : Holds(v)' = Holds(v) /\ (v # w => State(v)' = State(v))
    BY DEF Elsewhere
<1>2. [v \in Worker |-> Holds(v)]' = [v \in Worker |-> Holds(v)]
    BY <1>1
<1>3. [v \in Worker |-> State(v)]' = [[v \in Worker |-> State(v)] EXCEPT ![w] = "gone"]
    BY <1>1
<1>4. [i \in Item |-> Answered(i)]' = [i \in Item |-> Answered(i)]
    BY DEF Answered
<1> QED
    BY <1>2, <1>3, <1>4 DEF Pool!Leave, Elsewhere

\* A worker dies with what it holds.
LEMMA PoolLoses ==
    ASSUME NEW w \in Worker, Elsewhere(w), Left' = Left, Holds(w)' = Holds(w),
           State(w) = "run", State(w)' = "died", UNCHANGED answers
    PROVE  Pool!Die(w)
<1>1. \A v \in Worker : Holds(v)' = Holds(v) /\ (v # w => State(v)' = State(v))
    BY DEF Elsewhere
<1>2. [v \in Worker |-> Holds(v)]' = [v \in Worker |-> Holds(v)]
    BY <1>1
<1>3. [v \in Worker |-> State(v)]' = [[v \in Worker |-> State(v)] EXCEPT ![w] = "died"]
    BY <1>1
<1>4. [i \in Item |-> Answered(i)]' = [i \in Item |-> Answered(i)]
    BY DEF Answered
<1> QED
    BY <1>2, <1>3, <1>4 DEF Pool!Die, Elsewhere

\* Every step of a worker is one of the pool's or a stutter.
LEMMA WorkerImplements ==
    ASSUME Inv, NEW w \in Worker, WorkerStep(w) \/ Failure(w)
    PROVE  [Pool!Next]_Pool!pool
<1>1. TypeOK /\ WorkerInv(w) /\ UNCHANGED <<mode, backlog>>
    BY WorkersTake DEF Inv
<1>2. Elsewhere(w)
    BY <1>1, ElsewhereSame
<1>3. w \in DOMAIN pc /\ pc[w] \in Running \cup {"gone", "fatal", "killed", "jammed"}
    BY <1>1, Shape, Domains
<1>4. /\ {"collect", "process", "stream"} = Running
      /\ "gone" \notin Running /\ "fatal" \notin Running /\ "killed" \notin Running /\ "jammed" \notin Running
    BY DEF Running
<1>5. ASSUME UNCHANGED answers, UNCHANGED pc \/ (pc[w] \in Running /\ pc'[w] \in Running),
             Left' = Left, Holds(w)' = Holds(w)
      PROVE  [Pool!Next]_Pool!pool
    <2>1. State(w)' = State(w)
        BY <1>5 DEF State
    <2> QED
        BY <1>2, <1>5, <2>1, PoolStutters
<1>6. ASSUME UNCHANGED answers, pc[w] \in Running, pc'[w] \in Running,
             NEW i \in Item, i \in Left, Left' = Left \ {i}, Holds(w)' = Holds(w) \cup {i}
      PROVE  [Pool!Next]_Pool!pool
    <2>1. State(w) = "run" /\ State(w)' = "run"
        BY <1>6 DEF State
    <2> QED
        BY <1>2, <1>6, <2>1, PoolTakes DEF Pool!Next
<1>7. ASSUME pc[w] \in Running, UNCHANGED pc, NEW i \in Item, NEW what \in {i, "error"},
             Put(i, what), Left' = Left, i \in Holds(w), Holds(w)' = Holds(w) \ {i}
      PROVE  [Pool!Next]_Pool!pool
    <2>1. State(w) = "run" /\ State(w)' = "run"
        BY <1>7 DEF State
    <2>2. Pool!Answer(w, i, what)
        BY <1>1, <1>2, <1>7, <2>1, PoolAnswers
    <2> QED
        BY <1>7, <2>2 DEF Pool!Next
<1>8. ASSUME pc[w] \in Running, pc'[w] = "gone", UNCHANGED answers, Left' = Left,
             Holds(w)' = Holds(w), Holds(w) = {}, Left = {} \/ mode = "streaming"
      PROVE  [Pool!Next]_Pool!pool
    <2>1. State(w) = "run" /\ State(w)' = "gone"
        BY <1>4, <1>8 DEF State
    <2> QED
        BY <1>2, <1>8, <2>1, PoolLeaves DEF Pool!Next
<1>9. ASSUME pc[w] \in Running, pc'[w] \in {"fatal", "killed", "jammed"}, UNCHANGED answers, Left' = Left,
             Holds(w)' = Holds(w)
      PROVE  [Pool!Next]_Pool!pool
    <2>1. State(w) = "run" /\ State(w)' = "died"
        BY <1>4, <1>9 DEF State
    <2> QED
        BY <1>2, <1>9, <2>1, PoolLoses DEF Pool!Next
<1>10. ASSUME NEW i \in Item \cup {Pill}, Collect(w, i) PROVE [Pool!Next]_Pool!pool
    <2>1. UNCHANGED answers /\ pc[w] \in Running /\ pc'[w] \in Running
        BY <1>3, <1>4, <1>10 DEF Collect, Process
    <2>2. \/ Left' = Left /\ Holds(w)' = Holds(w)
          \/ /\ i \in Item /\ i \in Left /\ Left' = Left \ {i}
             /\ Holds(w)' = Holds(w) \cup {i}
        BY <1>10, CollectTakes
    <2>3. CASE Left' = Left /\ Holds(w)' = Holds(w)
        BY <1>5, <2>1, <2>3
    <2>4. CASE i \in Item /\ i \in Left /\ Left' = Left \ {i} /\ Holds(w)' = Holds(w) \cup {i}
        BY <1>6, <2>1, <2>4
    <2> QED
        BY <2>2, <2>3, <2>4
<1>11. ASSUME NEW i \in Item \cup {Pill}, Stream(w, i) PROVE [Pool!Next]_Pool!pool
    <2>1. UNCHANGED answers /\ pc[w] \in Running /\ UNCHANGED pc
        BY <1>4, <1>11 DEF Stream
    <2>2. \/ Left' = Left /\ Holds(w)' = Holds(w)
          \/ /\ i \in Item /\ i \in Left /\ Left' = Left \ {i}
             /\ Holds(w)' = Holds(w) \cup {i}
        BY <1>11, StreamTakes
    <2>3. CASE Left' = Left /\ Holds(w)' = Holds(w)
        BY <1>5, <2>1, <2>3
    <2>4. CASE i \in Item /\ i \in Left /\ Left' = Left \ {i} /\ Holds(w)' = Holds(w) \cup {i}
        BY <1>6, <2>1, <2>4
    <2> QED
        BY <2>2, <2>3, <2>4
<1>12. CASE StartGroup(w)
    BY <1>5, <1>12, StartKeeps DEF StartGroup
<1>13. CASE EndGroup(w)
    BY <1>5, <1>13, EndGroupKeeps DEF EndGroup
<1>14. ASSUME UNCHANGED <<pending, batch, group, put, queue, backlog>>
       PROVE  Left' = Left /\ Holds(w)' = Holds(w)
    BY <1>14 DEF Left, Holds
<1>15. CASE Timeout(w)
    <2>1. pc[w] \in Running /\ pc'[w] \in Running
        BY <1>3, <1>4, <1>15 DEF Timeout, Process
    <2> QED
        BY <1>5, <1>14, <1>15, <2>1 DEF Timeout
<1>16. CASE Dispatch(w) \/ CallFails(w) \/ Abandon(w)
    BY <1>1, <1>5, <1>14, <1>16 DEF Dispatch, CallFails, Abandon
<1>17. ASSUME NEW r \in Request, Succeed(w, r) \/ Fail(w, r) PROVE [Pool!Next]_Pool!pool
    BY <1>1, <1>5, <1>14, <1>17 DEF Succeed, Fail
<1>18. ASSUME NEW r \in Request, Terminal(w, r) PROVE [Pool!Next]_Pool!pool
    <2>1. /\ UNCHANGED <<pending, batch, group, put, queue, backlog, answers>>
          /\ pc[w] \in Running
          /\ UNCHANGED pc \/ pc'[w] = "fatal"
        BY <1>3, <1>18 DEF Terminal
    <2> QED
        BY <1>5, <1>9, <1>14, <2>1
<1>19. CASE Raise(w) \/ Kill(w)
    <2>1. /\ UNCHANGED <<pending, batch, group, put, queue, backlog, answers>>
          /\ pc[w] \in Running
          /\ pc'[w] \in {"fatal", "killed", "jammed"}
        BY <1>3, <1>4, <1>19 DEF Raise, Kill
    <2> QED
        BY <1>9, <1>14, <2>1
<1>20. CASE EndBatch(w)
    <2>1. /\ UNCHANGED <<pending, batch, group, put, queue, backlog, answers>>
          /\ pc[w] = "process" /\ batch[w] = <<>> /\ group[w] = <<>>
          /\ pc'[w] = IF last[w] THEN "gone" ELSE "collect"
        BY <1>3, <1>20 DEF EndBatch, Idle
    <2>2. CASE ~last[w]
        BY <1>4, <1>5, <1>14, <2>1, <2>2
    <2>3. CASE last[w]
        <3>1. Left = {} /\ pending[w] = None
            BY <1>1, <2>1, <2>3 DEF WorkerInv, Working
        <3>2. Holds(w) = {}
            BY <2>1, <3>1 DEF Holds, Range
        <3> QED
            BY <1>4, <1>8, <1>14, <2>1, <2>3, <3>1, <3>2
    <2> QED
        BY <2>2, <2>3
<1>21. CASE EndStream(w)
    <2>1. /\ UNCHANGED <<pending, batch, group, put, queue, backlog, answers>>
          /\ pc[w] = "stream" /\ put[w] = DOMAIN group[w] /\ ~failing[w]
          /\ pc'[w] = "gone"
        BY <1>3, <1>21 DEF EndStream
    <2>2. mode = "streaming" /\ batch[w] = <<>> /\ pending[w] = None
        BY <1>1, <2>1 DEF WorkerInv, Working
    <2>3. Holds(w) = {}
        BY <2>1, <2>2 DEF Holds, Range
    <2> QED
        BY <1>4, <1>8, <1>14, <2>1, <2>2, <2>3
<1>22. ASSUME NEW n \in 1..Cardinality(Item), PutResult(w, n) PROVE [Pool!Next]_Pool!pool
    <2>1. n \in Nat
        BY <1>22
    <2>2. /\ Left' = Left /\ group[w][n] \in Item /\ group[w][n] \in Holds(w)
          /\ outcome[w][n] \in {group[w][n], "error"}
          /\ Holds(w)' = Holds(w) \ {group[w][n]}
        BY <1>22, <2>1, PutAnswers
    <2>3. pc[w] \in Running /\ UNCHANGED pc /\ Put(group[w][n], outcome[w][n])
        BY <1>22 DEF PutResult
    <2> QED
        BY <1>7, <2>2, <2>3
<1>23. ASSUME NEW i \in Item, Unprepared(w, i) PROVE [Pool!Next]_Pool!pool
    <2>1. Left' = Left /\ i \in Holds(w) /\ Holds(w)' = Holds(w) \ {i}
        BY <1>23, UnpreparedAnswers
    <2>2. pc[w] \in Running /\ UNCHANGED pc /\ Put(i, "error")
        BY <1>4, <1>23 DEF Unprepared, Idle
    <2> QED
        BY <1>7, <2>1, <2>2
<1>24. CASE WorkerStep(w)
    BY <1>10, <1>11, <1>12, <1>13, <1>15, <1>16, <1>17, <1>19, <1>20, <1>21, <1>22, <1>24
       DEF WorkerStep
<1>25. CASE Failure(w)
    BY <1>16, <1>17, <1>18, <1>19, <1>23, <1>25 DEF Failure
<1> QED
    BY <1>24, <1>25

\* Every step is one of the pool's or a stutter.
LEMMA PoolSteps == Inv /\ [Next]_vars => [Pool!Next]_Pool!pool
<1> SUFFICES ASSUME Inv, [Next]_vars PROVE [Pool!Next]_Pool!pool
    OBVIOUS
<1>1. ASSUME Left' = Left, \A v \in Worker : Untouched(v), UNCHANGED <<mode, answers>>
      PROVE  UNCHANGED Pool!pool
    <2>1. \A v \in Worker : Holds(v)' = Holds(v) /\ State(v)' = State(v)
        BY <1>1 DEF Untouched, Holds, State
    <2>2. [v \in Worker |-> Holds(v)]' = [v \in Worker |-> Holds(v)]
        BY <2>1
    <2>3. [v \in Worker |-> State(v)]' = [v \in Worker |-> State(v)]
        BY <2>1
    <2>4. [i \in Item |-> Answered(i)]' = [i \in Item |-> Answered(i)]
        BY <1>1 DEF Answered
    <2> QED
        BY <1>1, <2>2, <2>3, <2>4 DEF Pool!pool
<1>2. CASE Feed
    <2>1. Left' = Left
        BY <1>2, Feeding DEF Inv
    <2>2. (\A v \in Worker : Untouched(v)) /\ UNCHANGED <<mode, answers>>
        BY <1>2 DEF Feed, work, Untouched
    <2> QED
        BY <1>1, <2>1, <2>2
<1>3. ASSUME NEW w \in Worker, WorkerStep(w) \/ Failure(w) PROVE [Pool!Next]_Pool!pool
    BY <1>3, WorkerImplements
<1>4. CASE UNCHANGED vars
    <2>1. (\A v \in Worker : Untouched(v)) /\ UNCHANGED <<mode, answers>> /\ Left' = Left
        BY <1>4 DEF vars, work, Untouched, Left
    <2> QED
        BY <1>1, <2>1
<1> QED
    BY <1>2, <1>3, <1>4 DEF Next

\* At first everything is left, and nothing taken or answered.
LEMMA PoolStarts == Init => Pool!Init
<1> SUFFICES ASSUME Init PROVE Pool!Init
    OBVIOUS
<1>1. Left = Item
    BY FirstSupply
<1>2. \A w \in Worker :
          pending[w] = None /\ batch[w] = <<>> /\ group[w] = <<>> /\ pc[w] \in Running
    BY DEF Init, Start, Running
<1>3. \A w \in Worker : Holds(w) = {} /\ State(w) = "run"
    BY <1>2 DEF Holds, Range, State
<1>4. \A i \in Item : Answered(i) = None
    BY DEF Init, Answered
<1> QED
    BY <1>1, <1>3, <1>4 DEF Pool!Init

\* For any workers, items, bounds and retries, the workers of a run are the pool
\* its collecting side takes them to be: no item is lost between the queue, the
\* item carried over, the batch, the call and its retries, none is answered twice
\* or with another's output, and a worker leaves with nothing in hand (processing.py).
THEOREM ImplementsPool == Spec => WorksAsPool
BY PoolStarts, Inductive, PoolSteps, PTL DEF Spec, WorksAsPool, Pool!Spec

-----------------------------------------------------------------------------
(* What follows from the pool alone.                                       *)

\* An item without an answer is left or in the hands of a worker; a worker that has
\* left has nothing in hand, and has left nothing unless it streamed.
Somewhere(i) == i \in Left \/ Answered(i) \in {i, "error"} \/ \E w \in Worker : i \in Holds(w)
NothingInHand(w) == State(w) = "gone" => Holds(w) = {}
NothingLeft == mode # "streaming" /\ (\E w \in Worker : State(w) = "gone") => Left = {}
Accounted ==
    /\ \A i \in Item : Somewhere(i)
    /\ \A w \in Worker : NothingInHand(w)
    /\ NothingLeft

\* A function of the pool that changes at one place stays as it is elsewhere.
LEMMA OnePlace ==
    ASSUME NEW S, NEW f, NEW g, DOMAIN f = S, NEW w \in S, NEW e, g = [f EXCEPT ![w] = e]
    PROVE  g[w] = e /\ \A v \in S : v # w => g[v] = f[v]
OBVIOUS

\* A step of the pool, at each worker and item.
SameHolds == \A v \in Worker : Holds(v)' = Holds(v)
HoldsBut(w) == \A v \in Worker : v # w => Holds(v)' = Holds(v)
SameStates == \A v \in Worker : State(v)' = State(v)
StatesBut(w) == \A v \in Worker : v # w => State(v)' = State(v)
SameAnswers == \A j \in Item : Answered(j)' = Answered(j)
AnswersBut(i) == \A j \in Item : j # i => Answered(j)' = Answered(j)
SamePatience == (mode # "streaming")' = (mode # "streaming")

\* What is in hand after a step, if the pool says it is the same ...
LEMMA HoldsStay ==
    ASSUME UNCHANGED [v \in Worker |-> Holds(v)]
    PROVE  SameHolds
<1>1. PICK f : f = [v \in Worker |-> Holds(v)]
    OBVIOUS
<1>2. PICK g : g = [v \in Worker |-> Holds(v)]'
    OBVIOUS
<1>3. f = g /\ \A v \in Worker : f[v] = Holds(v) /\ g[v] = Holds(v)'
    BY <1>1, <1>2
<1> QED
    BY <1>3 DEF SameHolds

\* ... or that it is another for one worker.
LEMMA HoldsChange ==
    ASSUME NEW w \in Worker, NEW e,
           [v \in Worker |-> Holds(v)]' = [[v \in Worker |-> Holds(v)] EXCEPT ![w] = e]
    PROVE  Holds(w)' = e /\ HoldsBut(w)
<1>1. PICK f : f = [v \in Worker |-> Holds(v)]
    OBVIOUS
<1>2. PICK g : g = [v \in Worker |-> Holds(v)]'
    OBVIOUS
<1>3. DOMAIN f = Worker /\ g = [f EXCEPT ![w] = e]
    BY <1>1, <1>2
<1>4. \A v \in Worker : f[v] = Holds(v) /\ g[v] = Holds(v)'
    BY <1>1, <1>2
<1>5. g[w] = e /\ \A v \in Worker : v # w => g[v] = f[v]
    BY <1>3, OnePlace
<1> QED
    BY <1>4, <1>5 DEF HoldsBut

\* The same for the states of the workers ...
LEMMA StatesStay ==
    ASSUME UNCHANGED [v \in Worker |-> State(v)]
    PROVE  SameStates
<1>1. PICK f : f = [v \in Worker |-> State(v)]
    OBVIOUS
<1>2. PICK g : g = [v \in Worker |-> State(v)]'
    OBVIOUS
<1>3. f = g /\ \A v \in Worker : f[v] = State(v) /\ g[v] = State(v)'
    BY <1>1, <1>2
<1> QED
    BY <1>3 DEF SameStates

\* ... one of which changes ...
LEMMA StatesChange ==
    ASSUME NEW w \in Worker, NEW e,
           [v \in Worker |-> State(v)]' = [[v \in Worker |-> State(v)] EXCEPT ![w] = e]
    PROVE  State(w)' = e /\ StatesBut(w)
<1>1. PICK f : f = [v \in Worker |-> State(v)]
    OBVIOUS
<1>2. PICK g : g = [v \in Worker |-> State(v)]'
    OBVIOUS
<1>3. DOMAIN f = Worker /\ g = [f EXCEPT ![w] = e]
    BY <1>1, <1>2
<1>4. \A v \in Worker : f[v] = State(v) /\ g[v] = State(v)'
    BY <1>1, <1>2
<1>5. g[w] = e /\ \A v \in Worker : v # w => g[v] = f[v]
    BY <1>3, OnePlace
<1> QED
    BY <1>4, <1>5 DEF StatesBut

\* ... and for the answers ...
LEMMA AnswersStay ==
    ASSUME UNCHANGED [i \in Item |-> Answered(i)]
    PROVE  SameAnswers
<1>1. PICK f : f = [i \in Item |-> Answered(i)]
    OBVIOUS
<1>2. PICK g : g = [i \in Item |-> Answered(i)]'
    OBVIOUS
<1>3. f = g /\ \A j \in Item : f[j] = Answered(j) /\ g[j] = Answered(j)'
    BY <1>1, <1>2
<1> QED
    BY <1>3 DEF SameAnswers

\* ... one of which is new.
LEMMA AnswersChange ==
    ASSUME NEW i \in Item, NEW e,
           [j \in Item |-> Answered(j)]' = [[j \in Item |-> Answered(j)] EXCEPT ![i] = e]
    PROVE  Answered(i)' = e /\ AnswersBut(i)
<1>1. PICK f : f = [j \in Item |-> Answered(j)]
    OBVIOUS
<1>2. PICK g : g = [j \in Item |-> Answered(j)]'
    OBVIOUS
<1>3. DOMAIN f = Item /\ g = [f EXCEPT ![i] = e]
    BY <1>1, <1>2
<1>4. \A j \in Item : f[j] = Answered(j) /\ g[j] = Answered(j)'
    BY <1>1, <1>2
<1>5. g[i] = e /\ \A j \in Item : j # i => g[j] = f[j]
    BY <1>3, OnePlace
<1> QED
    BY <1>4, <1>5 DEF AnswersBut

\* No step of the pool loses an item.
LEMMA AccountedKept ==
    ASSUME Accounted, [Pool!Next]_Pool!pool
    PROVE  Accounted'
<1>a. /\ \A i \in Item : Somewhere(i)
      /\ \A w \in Worker : NothingInHand(w)
      /\ NothingLeft
    BY DEF Accounted
<1>h. \A v \in Worker : [x \in Worker |-> Holds(x)][v] = Holds(v)
    OBVIOUS
<1>s. \A v \in Worker : [x \in Worker |-> State(x)][v] = State(v)
    OBVIOUS
<1>1. ASSUME NEW w \in Worker, NEW i \in Item, Pool!Take(w, i) PROVE Accounted'
    <2>1. /\ State(w) = "run" /\ i \in Left /\ Left' = Left \ {i}
          /\ [v \in Worker |-> Holds(v)]'
                = [[v \in Worker |-> Holds(v)] EXCEPT ![w] = Holds(w) \cup {i}]
          /\ UNCHANGED [v \in Worker |-> State(v)] /\ UNCHANGED [j \in Item |-> Answered(j)]
          /\ SamePatience
        BY <1>1, <1>h, <1>s DEF Pool!Take, SamePatience
    <2>2. /\ Holds(w)' = Holds(w) \cup {i} /\ HoldsBut(w) /\ SameStates /\ SameAnswers
        BY <2>1, HoldsChange, StatesStay, AnswersStay
    <2>3. ASSUME NEW j \in Item PROVE Somewhere(j)'
        BY <1>a, <2>1, <2>2 DEF Somewhere, HoldsBut, SameAnswers
    <2>4. ASSUME NEW v \in Worker PROVE NothingInHand(v)'
        BY <1>a, <2>1, <2>2 DEF NothingInHand, HoldsBut, SameStates
    <2>5. NothingLeft'
        BY <1>a, <2>1, <2>2 DEF NothingLeft, SameStates, SamePatience
    <2> QED
        BY <2>3, <2>4, <2>5 DEF Accounted
<1>2. ASSUME NEW w \in Worker, NEW i \in Item, NEW what \in {i, "error"}, Pool!Answer(w, i, what)
      PROVE  Accounted'
    <2>1. /\ State(w) = "run" /\ i \in Holds(w) /\ Left' = Left
          /\ [v \in Worker |-> Holds(v)]'
                = [[v \in Worker |-> Holds(v)] EXCEPT ![w] = Holds(w) \ {i}]
          /\ [j \in Item |-> Answered(j)]' = [[j \in Item |-> Answered(j)] EXCEPT ![i] = what]
          /\ UNCHANGED [v \in Worker |-> State(v)] /\ SamePatience
        BY <1>2, <1>h, <1>s DEF Pool!Answer, SamePatience
    <2>2. /\ Holds(w)' = Holds(w) \ {i} /\ HoldsBut(w) /\ SameStates
          /\ Answered(i)' = what /\ AnswersBut(i)
        BY <2>1, HoldsChange, StatesStay, AnswersChange
    <2>3. ASSUME NEW j \in Item PROVE Somewhere(j)'
        <3>1. CASE j = i
            BY <2>2, <3>1 DEF Somewhere
        <3>2. CASE j # i
            BY <1>a, <2>1, <2>2, <3>2 DEF Somewhere, HoldsBut, AnswersBut
        <3> QED
            BY <3>1, <3>2
    <2>4. ASSUME NEW v \in Worker PROVE NothingInHand(v)'
        BY <1>a, <2>1, <2>2 DEF NothingInHand, HoldsBut, SameStates
    <2>5. NothingLeft'
        BY <1>a, <2>1, <2>2 DEF NothingLeft, SameStates, SamePatience
    <2> QED
        BY <2>3, <2>4, <2>5 DEF Accounted
<1>3. ASSUME NEW w \in Worker, NEW end \in {"gone", "died"}, Left' = Left,
             end = "gone" => (Left = {} \/ mode = "streaming") /\ Holds(w) = {},
             UNCHANGED [v \in Worker |-> Holds(v)], UNCHANGED [j \in Item |-> Answered(j)],
             [v \in Worker |-> State(v)]' = [[v \in Worker |-> State(v)] EXCEPT ![w] = end],
             SamePatience
      PROVE  Accounted'
    <2>1. SameHolds /\ SameAnswers /\ State(w)' = end /\ StatesBut(w)
        BY <1>3, HoldsStay, AnswersStay, StatesChange
    <2>2. ASSUME NEW j \in Item PROVE Somewhere(j)'
        BY <1>a, <1>3, <2>1 DEF Somewhere, SameHolds, SameAnswers
    <2>3. ASSUME NEW v \in Worker PROVE NothingInHand(v)'
        BY <1>a, <1>3, <2>1 DEF NothingInHand, SameHolds, StatesBut
    <2>4. NothingLeft'
        BY <1>a, <1>3, <2>1 DEF NothingLeft, StatesBut, SamePatience
    <2> QED
        BY <2>2, <2>3, <2>4 DEF Accounted
<1>4. ASSUME NEW w \in Worker, Pool!Leave(w) PROVE Accounted'
    <2>1. /\ Left' = Left /\ (Left = {} \/ mode = "streaming") /\ Holds(w) = {}
          /\ UNCHANGED [v \in Worker |-> Holds(v)] /\ UNCHANGED [j \in Item |-> Answered(j)]
          /\ [v \in Worker |-> State(v)]' = [[v \in Worker |-> State(v)] EXCEPT ![w] = "gone"]
          /\ SamePatience
        BY <1>4, <1>h DEF Pool!Leave, SamePatience
    <2> QED
        BY <1>3, <2>1
<1>5. ASSUME NEW w \in Worker, Pool!Die(w) PROVE Accounted'
    <2>1. /\ Left' = Left
          /\ UNCHANGED [v \in Worker |-> Holds(v)] /\ UNCHANGED [j \in Item |-> Answered(j)]
          /\ [v \in Worker |-> State(v)]' = [[v \in Worker |-> State(v)] EXCEPT ![w] = "died"]
          /\ SamePatience
        BY <1>5 DEF Pool!Die, SamePatience
    <2> QED
        BY <1>3, <2>1
<1>6. CASE UNCHANGED Pool!pool
    <2>1. /\ Left' = Left /\ SamePatience
          /\ UNCHANGED [v \in Worker |-> Holds(v)] /\ UNCHANGED [v \in Worker |-> State(v)]
          /\ UNCHANGED [j \in Item |-> Answered(j)]
        BY <1>6 DEF Pool!pool, SamePatience
    <2>2. SameHolds /\ SameStates /\ SameAnswers
        BY <2>1, HoldsStay, StatesStay, AnswersStay
    <2> QED
        BY <1>a, <2>1, <2>2 DEF Accounted, Somewhere, NothingInHand, NothingLeft, SameHolds,
                                SameStates, SameAnswers, SamePatience
<1> QED
    BY <1>1, <1>2, <1>4, <1>5, <1>6 DEF Pool!Next

\* Once a worker has left, every item has its answer, its own output or an error,
\* but for those that another worker still has, or had when it died: the run goes
\* on with every instance accounted for (inference_worker, process_items).
NoItemForgotten ==
    mode # "streaming" /\ (\E w \in Worker : State(w) = "gone") =>
        \A i \in Item :
            \/ Answered(i) \in {i, "error"}
            \/ \E w \in Worker : State(w) # "gone" /\ i \in Holds(w)

\* At first every item is left.
LEMMA AccountedAtFirst ==
    ASSUME Pool!Init
    PROVE  Accounted
<1>1. /\ Left = Item /\ [v \in Worker |-> State(v)] = [v \in Worker |-> "run"]
      /\ \A v \in Worker : [x \in Worker |-> State(x)][v] = State(v)
    BY DEF Pool!Init
<1>2. \A v \in Worker : State(v) = "run"
    BY <1>1
<1> QED
    BY <1>1, <1>2 DEF Accounted, Somewhere, NothingInHand, NothingLeft

\* For any workers, items, bounds and retries: once a worker has left, every item has
\* its own output or an error for an answer, or is with a worker that has not ended by
\* itself.  That is what the collecting side waits for (workers.py, processing.py).
THEOREM EveryItemAnswered == Spec => []NoItemForgotten
<1>1. Pool!Init => Accounted
    BY AccountedAtFirst
<1>2. Accounted /\ [Pool!Next]_Pool!pool => Accounted'
    BY AccountedKept
<1>3. Accounted => NoItemForgotten
    BY DEF Accounted, Somewhere, NothingInHand, NothingLeft, NoItemForgotten
<1> QED
    BY <1>1, <1>2, <1>3, ImplementsPool, PTL DEF WorksAsPool, Pool!Spec
=============================================================================
