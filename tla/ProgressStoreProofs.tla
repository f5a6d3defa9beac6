------------------------ MODULE ProgressStoreProofs ------------------------
(***************************************************************************)
(* Theorems about ProgressStore: its type invariant, that no attempt is    *)
(* refused, that a segment is written once, that the process and the       *)
(* readers of the stream agree on the trace in force, and that the stream  *)
(* keeps what RecordLog promises.                                          *)
(***************************************************************************)
EXTENDS ProgressStore, FiniteSetTheorems, WellFoundedInduction, TLAPS

-----------------------------------------------------------------------------
(* The inductive invariant.                                                *)

\* The process records.
Recording == pc \in {"run", "write", "rename", "index"}

\* Where a process goes on is settled before a write, and asked after it only.
Resting == pc \notin {"write", "rename", "index"} => then = "exit"

\* A number to be used is past those of all segments.
Numbered ==
    Recording \/ pc \in {"swap", "reindex", "unlink"} => \A n \in DOMAIN segs : n < next

\* What the process believes to have published is there.
Published ==
    Recording /\ shared => \A n \in DOMAIN published : n \in DOMAIN segs /\ segs[n] = published[n]

\* A shared stream has its index before its first segment.
Inventoried ==
    /\ shared /\ pc \in {"rename", "index", "swap", "reindex", "unlink"} => index # NoIndex
    /\ pc \in {"index", "reindex"} => shared

\* What is renamed into place was written, and the index is about what was renamed.
Copied ==
    /\ pc \in {"rename", "swap"} => tmp \in Seq(Entry)
    /\ pc = "rename" => tmp = buffer
    /\ pc = "index" => /\ next # 0 /\ next - 1 \in DOMAIN segs /\ segs[next - 1] = buffer
                       /\ \A n \in DOMAIN published : n < next - 1

\* Only segments that do not count any more are removed.
Removing ==
    /\ IsFiniteSet(old)
    /\ shared /\ pc = "unlink" => DOMAIN index \cap old = {}

\* The trace of a task is the reader's, or will be once the entry under way is.
InStep ==
    Recording => \A t \in recording :
        LastTrace(Known)[t] =
            IF entering # None /\ entering.task = t THEN entering.trace ELSE trace[t]

\* A record under way is the running process's, and of the task that is writing.
Entering ==
    /\ pc \in {"off", "restore"} => entering = None
    /\ then \in Task /\ entering # None => entering.task = then

Inv ==
    /\ TypeOK /\ Readable
    /\ Resting /\ Numbered /\ Published /\ Inventoried /\ Copied /\ Removing
    /\ InStep /\ Entering

-----------------------------------------------------------------------------
(* Natural numbers.  A property is the set of the numbers that have it.    *)

\* A set of natural numbers has a least one.
LEMMA Least ==
    ASSUME NEW S \in SUBSET Nat, S # {}
    PROVE  \E m \in S : \A k \in S : m <= k
<1> DEFINE R == OpToRel(<, Nat)
<1>1. IsWellFoundedOn(R, Nat)
    BY NatLessThanWellFounded
<1>2. R = {ss \in Nat \X Nat : ss[1] < ss[2]}
    BY DEF OpToRel
<1>3. \A x, y \in Nat : <<x, y>> \in R <=> x < y
    BY <1>2
<1> HIDE DEF R
<1>4. PICK m \in S : \A k \in S : ~(<<k, m>> \in R)
    BY <1>1, WFMin
<1>5. ASSUME NEW k \in S PROVE m <= k
    <2>1. k \in Nat /\ m \in Nat
        OBVIOUS
    <2>2. ~(k < m)
        BY <1>3, <1>4, <2>1
    <2> QED
        BY <2>1, <2>2
<1> QED
    BY <1>5

\* Induction.
LEMMA Every ==
    ASSUME NEW S \in SUBSET Nat, 0 \in S, \A n \in S : n + 1 \in S
    PROVE  \A n \in Nat : n \in S
<1> DEFINE T == Nat \ S
<1>1. SUFFICES ASSUME T # {} PROVE FALSE
    OBVIOUS
<1>2. PICK m \in T : \A k \in T : m <= k
    BY <1>1, Least
<1>3. m \in Nat /\ m # 0 /\ m \notin S
    OBVIOUS
<1>4. m - 1 \in Nat /\ ~(m <= m - 1) /\ (m - 1) + 1 = m
    BY <1>3
<1>5. m - 1 \in S
    BY <1>2, <1>4
<1> QED
    BY <1>3, <1>4, <1>5

\* A finite set of natural numbers has a bound.
LEMMA Bound ==
    ASSUME NEW S \in SUBSET Nat, IsFiniteSet(S)
    PROVE  \E b \in Nat : \A k \in S : k <= b
<1> DEFINE Bounded(A) == \E b \in Nat : \A k \in A : k <= b
           T == {n \in Nat : \A A \in SUBSET Nat :
                                IsFiniteSet(A) /\ Cardinality(A) = n => Bounded(A)}
<1>1. 0 \in T
    <2>1. ASSUME NEW A \in SUBSET Nat, IsFiniteSet(A), Cardinality(A) = 0 PROVE Bounded(A)
        <3>1. A = {}
            BY <2>1, FS_EmptySet
        <3> QED
            BY <3>1
    <2> HIDE DEF Bounded
    <2> QED
        BY <2>1
<1>2. ASSUME NEW n \in T PROVE n + 1 \in T
    <2>1. ASSUME NEW A \in SUBSET Nat, IsFiniteSet(A), Cardinality(A) = n + 1
          PROVE  Bounded(A)
        <3>n. n \in Nat /\ n + 1 # 0 /\ (n + 1) - 1 = n
            OBVIOUS
        <3>1. PICK x \in A : TRUE
            BY <2>1, <3>n, FS_EmptySet
        <3>2. IsFiniteSet(A \ {x}) /\ Cardinality(A \ {x}) = n
            BY <2>1, <3>n, FS_RemoveElement
        <3>3. PICK b \in Nat : \A k \in A \ {x} : k <= b
            BY <3>2
        <3>4. x \in Nat
            OBVIOUS
        <3>5. CASE x <= b
            BY <3>3, <3>5
        <3>6. CASE ~(x <= b)
            <4>1. \A k \in A : k <= x
                BY <3>3, <3>4, <3>6
            <4> QED
                BY <3>4, <4>1
        <3> QED
            BY <3>5, <3>6
    <2> HIDE DEF Bounded
    <2> QED
        BY <2>1
<1>3. Cardinality(S) \in Nat
    BY FS_CardinalityType
<1>4. Cardinality(S) \in T
    <2> HIDE DEF T
    <2>1. T \in SUBSET Nat
        BY DEF T
    <2> QED
        BY <1>1, <1>2, <1>3, <2>1, Every
<1> QED
    BY <1>4

\* Max is what it says.
LEMMA MaxIs ==
    ASSUME NEW S \in SUBSET Nat, IsFiniteSet(S), S # {}
    PROVE  Max(S) \in S /\ \A k \in S : k <= Max(S)
<1> DEFINE U == {b \in Nat : \A k \in S : k <= b}
<1>1. U # {}
    BY Bound
<1>2. PICK m \in U : \A b \in U : m <= b
    BY <1>1, Least
<1>3. m \in S
    <2>1. SUFFICES ASSUME m \notin S PROVE FALSE
        OBVIOUS
    <2>2. PICK x \in S : TRUE
        OBVIOUS
    <2>3. m \in Nat /\ x \in Nat /\ x < m
        BY <2>1, <1>2
    <2>4. \A k \in S : k \in Nat /\ k <= m /\ k # m
        BY <2>1
    <2>5. m - 1 \in U
        BY <2>3, <2>4
    <2> QED
        BY <1>2, <2>3, <2>5
<1>4. \A k \in S : k \in Nat /\ m >= k
    OBVIOUS
<1>5. Max(S) \in S /\ \A k \in S : Max(S) >= k
    BY <1>3, <1>4 DEF Max
<1> QED
    BY <1>5

\* A function is defined by its first value and by what follows a value.
Steps(F, S) == \A n \in Nat, s \in S : F[<<n, s>>] \in S
Follows(f, a, F) == f[0] = a /\ \A n \in Nat : f[n + 1] = F[<<n, f[n]>>]

\* There is such a function.
LEMMA Recursion ==
    ASSUME NEW S, NEW a \in S, NEW F, Steps(F, S)
    PROVE  \E f \in [Nat -> S] : Follows(f, a, F)
<1>0. \A n \in Nat, s \in S : F[<<n, s>>] \in S
    BY DEF Steps
<1> DEFINE Begins(f, n) == f[0] = a /\ \A m \in 0 .. n - 1 : f[m + 1] = F[<<m, f[m]>>]
           T == {n \in Nat : \E f \in [0 .. n -> S] : Begins(f, n)}
           Same(n) == \A k, l \in Nat : \A f \in [0 .. k -> S], g \in [0 .. l -> S] :
                          n <= k /\ n <= l /\ Begins(f, k) /\ Begins(g, l) => f[n] = g[n]
           E == {n \in Nat : Same(n)}
<1>1. 0 \in T
    <2>1. [m \in 0 .. 0 |-> a] \in [0 .. 0 -> S] /\ Begins([m \in 0 .. 0 |-> a], 0)
        OBVIOUS
    <2> QED
        BY <2>1
<1>2. ASSUME NEW n \in T PROVE n + 1 \in T
    <2>1. PICK f \in [0 .. n -> S] : Begins(f, n)
        OBVIOUS
    <2> DEFINE g == [m \in 0 .. n + 1 |-> IF m <= n THEN f[m] ELSE F[<<n, f[n]>>]]
    <2>2. n \in Nat /\ n \in 0 .. n /\ f[n] \in S /\ F[<<n, f[n]>>] \in S
        BY <1>0
    <2>3. g \in [0 .. n + 1 -> S]
        <3>1. ASSUME NEW m \in 0 .. n + 1
              PROVE  (IF m <= n THEN f[m] ELSE F[<<n, f[n]>>]) \in S
            <4>1. m <= n => m \in 0 .. n
                BY <2>2
            <4> QED
                BY <2>2, <4>1
        <3> QED
            BY <3>1
    <2>4. (\A m \in 0 .. n : g[m] = f[m]) /\ g[n + 1] = F[<<n, f[n]>>]
        <3>1. \A m \in 0 .. n : m \in 0 .. n + 1 /\ m <= n
            BY <2>2
        <3>2. n + 1 \in 0 .. n + 1 /\ ~(n + 1 <= n)
            BY <2>2
        <3> QED
            BY <3>1, <3>2
    <2> HIDE DEF g
    <2>5. g[0] = a
        BY <2>1, <2>2, <2>4
    <2>6. ASSUME NEW m \in 0 .. n PROVE g[m + 1] = F[<<m, g[m]>>]
        <3>1. CASE m = n
            BY <2>2, <2>4, <3>1
        <3>2. CASE m # n
            <4>1. m \in 0 .. n - 1 /\ m + 1 \in 0 .. n
                BY <2>2, <3>2
            <4> QED
                BY <2>1, <2>4, <4>1
        <3> QED
            BY <3>1, <3>2
    <2>7. Begins(g, n + 1)
        <3>1. (n + 1) - 1 = n
            BY <2>2
        <3> QED
            BY <2>5, <2>6, <3>1
    <2> QED
        BY <2>2, <2>3, <2>7
<1>3. \A n \in Nat : n \in T
    <2>1. T \in SUBSET Nat
        OBVIOUS
    <2> HIDE DEF T
    <2> QED
        BY <1>1, <1>2, <2>1, Every
<1>4. 0 \in E
    OBVIOUS
<1>5. ASSUME NEW n \in E PROVE n + 1 \in E
    <2>1. ASSUME NEW k \in Nat, NEW l \in Nat, NEW f \in [0 .. k -> S], NEW g \in [0 .. l -> S],
                 n + 1 <= k, n + 1 <= l, Begins(f, k), Begins(g, l)
          PROVE  f[n + 1] = g[n + 1]
        <3>1. n \in Nat /\ n <= k /\ n <= l /\ n \in 0 .. k - 1 /\ n \in 0 .. l - 1
            BY <2>1
        <3>2. f[n] = g[n]
            BY <2>1, <3>1
        <3>3. f[n + 1] = F[<<n, f[n]>>] /\ g[n + 1] = F[<<n, g[n]>>]
            BY <2>1, <3>1
        <3> QED
            BY <3>2, <3>3
    <2>2. Same(n + 1)
        <3> HIDE DEF Begins
        <3> QED
            BY <2>1
    <2> HIDE DEF Same
    <2> QED
        BY <2>2
<1>6. \A n \in Nat : n \in E
    <2>1. E \in SUBSET Nat
        OBVIOUS
    <2> HIDE DEF E
    <2> QED
        BY <1>4, <1>5, <2>1, Every
<1> DEFINE h == [n \in Nat |-> CHOOSE f \in [0 .. n -> S] : Begins(f, n)]
           r == [n \in Nat |-> h[n][n]]
<1>7. ASSUME NEW n \in Nat PROVE h[n] \in [0 .. n -> S] /\ Begins(h[n], n)
    <2>1. \E f \in [0 .. n -> S] : Begins(f, n)
        BY <1>3
    <2> HIDE DEF Begins
    <2> QED
        BY <2>1
<1> HIDE DEF h
<1>8. r \in [Nat -> S]
    <2>1. ASSUME NEW n \in Nat PROVE h[n][n] \in S
        BY <1>7
    <2> QED
        BY <2>1
<1>9. r[0] = a
    BY <1>7
<1>10. ASSUME NEW n \in Nat PROVE r[n + 1] = F[<<n, r[n]>>]
    <2>1. Same(n)
        BY <1>6
    <2>2. /\ h[n] \in [0 .. n -> S] /\ Begins(h[n], n)
          /\ h[n + 1] \in [0 .. n + 1 -> S] /\ Begins(h[n + 1], n + 1)
        BY <1>7
    <2>3. h[n + 1][n] = h[n][n]
        <3> HIDE DEF Begins
        <3>1. n + 1 \in Nat /\ n <= n + 1 /\ n <= n
            OBVIOUS
        <3> DEFINE f == h[n]
               g == h[n + 1]
        <3>2. f \in [0 .. n -> S] /\ g \in [0 .. n + 1 -> S] /\ Begins(f, n) /\ Begins(g, n + 1)
            BY <2>2
        <3> HIDE DEF f, g
        <3>3. g[n] = f[n]
            BY <2>1, <3>1, <3>2
        <3> QED
            BY <3>3 DEF f, g
    <2>4. n \in 0 .. (n + 1) - 1
        OBVIOUS
    <2>5. h[n + 1][n + 1] = F[<<n, h[n + 1][n]>>]
        BY <2>2, <2>4
    <2> QED
        BY <2>3, <2>5
<1> QED
    BY <1>8, <1>9, <1>10 DEF Follows

-----------------------------------------------------------------------------
(* The entries of a set of segments.                                       *)

\* A segment that is not there has no entries.
LEMMA SegmentTyped ==
    ASSUME NEW files, IsFiles(files), NEW n
    PROVE  Segment(files, n) \in Seq(Entry)
BY DEF IsFiles, Segment

\* The entries up to a segment are those up to the one before it, and its own.
LEMMA UpToIs ==
    ASSUME NEW files, IsFiles(files)
    PROVE  /\ UpTo(files) \in [Nat -> Seq(Entry)]
           /\ UpTo(files)[0] = Segment(files, 0)
           /\ \A n \in Nat : UpTo(files)[n + 1] = UpTo(files)[n] \o Segment(files, n + 1)
<1> DEFINE S == Seq(Entry)
           F == [p \in Nat \X S |-> p[2] \o Segment(files, p[1] + 1)]
           Defines(g) == g = [n \in Nat |-> (IF n = 0 THEN <<>> ELSE g[n - 1]) \o Segment(files, n)]
<1>1. \A n : Segment(files, n) \in S
    BY SegmentTyped
<1>2. \A s, t \in S : s \o t \in S
    OBVIOUS
<1>3. \A n \in Nat, s \in S : F[<<n, s>>] = s \o Segment(files, n + 1)
    OBVIOUS
<1>4. Steps(F, S)
    <2> HIDE DEF S, F
    <2> QED
        BY <1>1, <1>2, <1>3 DEF Steps
<1> HIDE DEF S, F
<1>5. PICK f \in [Nat -> S] :
          f[0] = Segment(files, 0) /\ \A n \in Nat : f[n + 1] = F[<<n, f[n]>>]
    <2> DEFINE a == Segment(files, 0)
    <2>1. a \in S
        BY <1>1
    <2> HIDE DEF a
    <2>2. \E f \in [Nat -> S] : Follows(f, a, F)
        BY <1>4, <2>1, Recursion
    <2> QED
        BY <2>2 DEF a, Follows
<1>6. ASSUME NEW n \in Nat
      PROVE  f[n] = (IF n = 0 THEN <<>> ELSE f[n - 1]) \o Segment(files, n)
    <2>1. CASE n = 0
        <3>1. <<>> \o Segment(files, 0) = Segment(files, 0)
            BY <1>1 DEF S
        <3> QED
            BY <1>5, <2>1, <3>1
    <2>2. CASE n # 0
        <3>1. n - 1 \in Nat /\ (n - 1) + 1 = n
            BY <2>2
        <3>2. f[(n - 1) + 1] = F[<<n - 1, f[n - 1]>>] /\ f[n - 1] \in S
            BY <1>5, <3>1
        <3>3. F[<<n - 1, f[n - 1]>>] = f[n - 1] \o Segment(files, (n - 1) + 1)
            BY <1>3, <3>1, <3>2
        <3> QED
            BY <2>2, <3>1, <3>2, <3>3
    <2> QED
        BY <2>1, <2>2
<1>7. Defines(f)
    <2>1. f = [n \in Nat |-> f[n]]
        BY <1>5
    <2> QED
        BY <1>6, <2>1
<1>8. UpTo(files) = CHOOSE g : Defines(g)
    BY DEF UpTo
<1> DEFINE u == UpTo(files)
<1>9. Defines(u)
    <2> HIDE DEF Defines
    <2> QED
        BY <1>7, <1>8
<1> HIDE DEF u
<1>10. \A n \in Nat : u[n] = (IF n = 0 THEN <<>> ELSE u[n - 1]) \o Segment(files, n)
    BY <1>9
<1>11. u[0] = Segment(files, 0)
    <2>1. u[0] = <<>> \o Segment(files, 0)
        BY <1>10
    <2> QED
        BY <1>1, <2>1 DEF S
<1>12. ASSUME NEW n \in Nat PROVE u[n + 1] = u[n] \o Segment(files, n + 1)
    <2>1. n + 1 \in Nat /\ n + 1 # 0 /\ (n + 1) - 1 = n
        OBVIOUS
    <2>2. u[n + 1] = (IF n + 1 = 0 THEN <<>> ELSE u[(n + 1) - 1]) \o Segment(files, n + 1)
        BY <1>10, <2>1
    <2> QED
        BY <2>1, <2>2
<1> DEFINE T == {n \in Nat : u[n] \in S}
<1>13. \A n \in Nat : u[n] \in S
    <2>1. 0 \in T
        BY <1>1, <1>11
    <2>2. ASSUME NEW n \in T PROVE n + 1 \in T
        <3>1. n \in Nat /\ n + 1 \in Nat /\ u[n] \in S /\ Segment(files, n + 1) \in S
            BY <1>1
        <3>2. u[n + 1] \in S
            BY <1>2, <1>12, <3>1
        <3> QED
            BY <3>1, <3>2
    <2>3. T \in SUBSET Nat
        OBVIOUS
    <2> HIDE DEF T
    <2>4. \A n \in Nat : n \in T
        BY <2>1, <2>2, <2>3, Every
    <2> QED
        BY <2>4 DEF T
<1>14. u \in [Nat -> S]
    <2>1. u = [n \in Nat |-> u[n]]
        BY <1>9
    <2> QED
        BY <1>13, <2>1
<1> QED
    BY <1>11, <1>12, <1>14 DEF u, S

\* The same segments up to a number have the same entries up to it.
LEMMA UpToSame ==
    ASSUME NEW f, NEW g, IsFiles(f), IsFiles(g), NEW b \in Nat,
           \A n \in 0 .. b : Segment(f, n) = Segment(g, n)
    PROVE  UpTo(f)[b] = UpTo(g)[b]
<1> DEFINE T == {n \in Nat : n <= b => UpTo(f)[n] = UpTo(g)[n]}
<1>1. 0 \in T
    <2>1. 0 \in 0 .. b
        OBVIOUS
    <2> QED
        BY <2>1, UpToIs
<1>2. ASSUME NEW n \in T PROVE n + 1 \in T
    <2>1. CASE n + 1 <= b
        <3>1. n \in Nat /\ n <= b /\ n + 1 \in 0 .. b
            BY <2>1
        <3>2. UpTo(f)[n] = UpTo(g)[n] /\ Segment(f, n + 1) = Segment(g, n + 1)
            BY <3>1
        <3>3. /\ UpTo(f)[n + 1] = UpTo(f)[n] \o Segment(f, n + 1)
              /\ UpTo(g)[n + 1] = UpTo(g)[n] \o Segment(g, n + 1)
            BY <3>1, UpToIs
        <3>4. UpTo(f)[n + 1] = UpTo(g)[n + 1]
            BY <3>2, <3>3
        <3> QED
            BY <3>1, <3>4
    <2>2. n + 1 \in Nat
        OBVIOUS
    <2> QED
        BY <2>1, <2>2
<1>3. b \in T
    <2>1. T \in SUBSET Nat
        OBVIOUS
    <2> HIDE DEF T
    <2> QED
        BY <1>1, <1>2, <2>1, Every
<1> QED
    BY <1>3

\* There are no entries past the last segment.
LEMMA UpToPast ==
    ASSUME NEW f, IsFiles(f), NEW b \in Nat, \A n \in DOMAIN f : n <= b
    PROVE  EntriesOf(f) = UpTo(f)[b] /\ EntriesOf(f) \in Seq(Entry)
<1> DEFINE T(m) == {n \in Nat : UpTo(f)[m + n] = UpTo(f)[m]}
<1>1. \A n \in Nat : UpTo(f)[n] \in Seq(Entry)
    BY UpToIs
<1>2. ASSUME NEW m \in Nat, \A n \in DOMAIN f : n <= m, NEW n \in Nat
      PROVE  UpTo(f)[m + n] = UpTo(f)[m]
    <2>1. 0 \in T(m)
        BY <1>2
    <2>2. ASSUME NEW k \in T(m) PROVE k + 1 \in T(m)
        <3>1. m + k \in Nat /\ m + (k + 1) = (m + k) + 1 /\ ~((m + k) + 1 <= m)
            OBVIOUS
        <3>2. Segment(f, (m + k) + 1) = <<>>
            BY <1>2, <3>1 DEF Segment
        <3>3. UpTo(f)[(m + k) + 1] = UpTo(f)[m + k] \o <<>>
            BY <3>1, <3>2, UpToIs
        <3>4. UpTo(f)[m + k] \o <<>> = UpTo(f)[m + k]
            BY <1>1, <3>1
        <3> QED
            BY <3>1, <3>3, <3>4
    <2>3. T(m) \in SUBSET Nat
        OBVIOUS
    <2> HIDE DEF T
    <2>4. n \in T(m)
        BY <2>1, <2>2, <2>3, Every
    <2> QED
        BY <2>4 DEF T
<1>3. CASE DOMAIN f = {}
    <2>1. UpTo(f)[0 + b] = UpTo(f)[0] /\ 0 + b = b
        <3>1. 0 \in Nat /\ b \in Nat /\ 0 + b = b /\ \A n \in DOMAIN f : n <= 0
            BY <1>3
        <3>2. UpTo(f)[0 + b] = UpTo(f)[0]
            BY <1>2, <3>1
        <3> QED
            BY <3>1, <3>2
    <2>2. UpTo(f)[0] = <<>>
        BY <1>3, UpToIs DEF Segment
    <2> QED
        BY <1>3, <2>1, <2>2 DEF EntriesOf
<1>4. CASE DOMAIN f # {}
    <2> DEFINE m == Max(DOMAIN f)
    <2>1. m \in DOMAIN f /\ \A n \in DOMAIN f : n <= m
        BY <1>4, MaxIs DEF IsFiles
    <2> HIDE DEF m
    <2>2. m \in Nat /\ m <= b
        BY <2>1 DEF IsFiles
    <2>3. b - m \in Nat /\ m + (b - m) = b
        BY <2>2
    <2>4. UpTo(f)[b] = UpTo(f)[m]
        BY <1>2, <2>1, <2>2, <2>3
    <2>5. EntriesOf(f) = UpTo(f)[m]
        BY <1>4 DEF EntriesOf, m
    <2> QED
        BY <1>1, <2>2, <2>4, <2>5
<1> QED
    BY <1>3, <1>4

\* Entries are entries.
LEMMA EntriesTyped ==
    ASSUME NEW f, IsFiles(f)
    PROVE  EntriesOf(f) \in Seq(Entry)
<1>1. PICK b \in Nat : \A n \in DOMAIN f : n <= b
    BY Bound DEF IsFiles
<1> QED
    BY <1>1, UpToPast

\* A segment with a number of its own.
WithOne(f, n, es) == [m \in DOMAIN f \cup {n} |-> IF m = n THEN es ELSE f[m]]

\* The files g are f with es written as segment n.
Adds(g, f, n, es) ==
    /\ IsFiles(g) /\ DOMAIN g = DOMAIN f \cup {n} /\ g[n] = es
    /\ \A m \in DOMAIN f : m # n => g[m] = f[m]

\* It makes files of files.
LEMMA WithOneIs ==
    ASSUME NEW f, IsFiles(f), NEW n \in Nat, NEW es \in Seq(Entry)
    PROVE  Adds(WithOne(f, n, es), f, n, es)
<1>1. IsFiniteSet(DOMAIN f \cup {n})
    BY FS_AddElement DEF IsFiles
<1>2. DOMAIN f \cup {n} \in SUBSET Nat
    BY DEF IsFiles
<1>3. WithOne(f, n, es) \in [DOMAIN f \cup {n} -> Seq(Entry)]
    BY DEF WithOne, IsFiles
<1> QED
    BY <1>1, <1>2, <1>3 DEF Adds, WithOne, IsFiles

\* Written behind the others, its entries come after theirs.
LEMMA EntriesAppended ==
    ASSUME NEW f, IsFiles(f), NEW n \in Nat, NEW es \in Seq(Entry), \A m \in DOMAIN f : m < n
    PROVE  EntriesOf(WithOne(f, n, es)) = EntriesOf(f) \o es
<1> DEFINE g == WithOne(f, n, es)
<1>a. Adds(g, f, n, es)
    BY WithOneIs
<1> HIDE DEF g
<1>1. /\ IsFiles(g) /\ DOMAIN g = DOMAIN f \cup {n} /\ g[n] = es
      /\ \A m \in DOMAIN f : m # n => g[m] = f[m]
    BY <1>a DEF Adds
<1>n. DOMAIN f \in SUBSET Nat
    BY DEF IsFiles
<1>2. \A m \in DOMAIN g : m <= n
    BY <1>1, <1>n
<1>3. EntriesOf(g) = UpTo(g)[n]
    BY <1>1, <1>2, UpToPast
<1>4. Segment(g, n) = es
    BY <1>1 DEF Segment
<1>5. CASE n = 0
    <2>1. DOMAIN f = {}
        <3>1. ASSUME NEW m \in DOMAIN f PROVE FALSE
            <4>1. m \in Nat /\ m < 0
                BY <1>n, <1>5
            <4> QED
                BY <4>1
        <3> QED
            BY <3>1
    <2>2. EntriesOf(f) = <<>> /\ <<>> \o es = es
        BY <2>1 DEF EntriesOf
    <2> QED
        BY <1>1, <1>3, <1>4, <1>5, <2>2, UpToIs DEF g
<1>6. CASE n # 0
    <2>1. n - 1 \in Nat /\ (n - 1) + 1 = n
        BY <1>6
    <2>2. \A m \in DOMAIN f : m <= n - 1
        BY <1>n, <2>1
    <2>3. EntriesOf(f) = UpTo(f)[n - 1]
        BY <2>1, <2>2, UpToPast
    <2>4. ASSUME NEW m \in 0 .. n - 1 PROVE Segment(f, m) = Segment(g, m)
        <3>1. m # n
            BY <2>1
        <3> QED
            BY <1>1, <3>1 DEF Segment
    <2>5. UpTo(f)[n - 1] = UpTo(g)[n - 1]
        BY <1>1, <2>1, <2>4, UpToSame
    <2>6. UpTo(g)[(n - 1) + 1] = UpTo(g)[n - 1] \o Segment(g, (n - 1) + 1)
        BY <1>1, <2>1, UpToIs
    <2> QED
        BY <1>3, <1>4, <2>1, <2>3, <2>5, <2>6 DEF g
<1> QED
    BY <1>5, <1>6

\* Files that are taken away leave files.
LEMMA WithoutIs ==
    ASSUME NEW f, IsFiles(f), NEW S
    PROVE  /\ IsFiles(Without(f, S)) /\ DOMAIN Without(f, S) = DOMAIN f \ S
           /\ \A n \in DOMAIN f \ S : Without(f, S)[n] = f[n]
<1>1. IsFiniteSet(DOMAIN f \ S)
    BY FS_Subset DEF IsFiles
<1> QED
    BY <1>1 DEF Without, IsFiles

\* The number after those of some files is past all of them.
LEMMA AfterIs ==
    ASSUME NEW f, IsFiles(f)
    PROVE  After(f) \in Nat /\ \A n \in DOMAIN f : n < After(f)
<1>1. CASE DOMAIN f = {}
    BY <1>1 DEF After
<1>2. CASE DOMAIN f # {}
    <2>1. /\ DOMAIN f \in SUBSET Nat /\ Max(DOMAIN f) \in DOMAIN f
          /\ \A n \in DOMAIN f : n <= Max(DOMAIN f)
        BY <1>2, MaxIs DEF IsFiles
    <2> QED
        BY <1>2, <2>1 DEF After
<1> QED
    BY <1>1, <1>2

\* No files are files.
LEMMA NoFilesIs == IsFiles(NoFiles) /\ DOMAIN NoFiles = {} /\ EntriesOf(NoFiles) = <<>>
BY FS_EmptySet DEF NoFiles, IsFiles, EntriesOf

-----------------------------------------------------------------------------
(* The trace in force.                                                     *)

\* What an entry has depends on its kind.
LEMMA EntryIs ==
    ASSUME NEW e \in Entry
    PROVE  /\ e.task \in Task /\ e.kind \in {"header", "trace", "result"}
           /\ e.kind = "header" => e = Header(e.task)
           /\ e.kind = "trace" => e.trace \in Trace /\ e = DefaultTrace(e.task, e.trace)
           /\ e.kind = "result" => e.idx \in Idx /\ e = Result(e.task, e.idx)
<1>1. CASE e \in {Header(t) : t \in Task}
    BY <1>1 DEF Header
<1>2. CASE e \in {DefaultTrace(t, v) : t \in Task, v \in Trace}
    BY <1>2 DEF DefaultTrace
<1>3. CASE e \in {Result(t, i) : t \in Task, i \in Idx}
    BY <1>3 DEF Result
<1> QED
    BY <1>1, <1>2, <1>3 DEF Entry

\* Entries of each kind.
LEMMA EntryOf ==
    ASSUME NEW t \in Task
    PROVE  /\ Header(t) \in Entry /\ Header(t).task = t /\ Header(t).kind = "header"
           /\ \A v \in Trace :
                 /\ DefaultTrace(t, v) \in Entry /\ DefaultTrace(t, v).task = t
                 /\ DefaultTrace(t, v).kind = "trace" /\ DefaultTrace(t, v).trace = v
           /\ \A i \in Idx :
                 /\ Result(t, i) \in Entry /\ Result(t, i).task = t
                 /\ Result(t, i).kind = "result"
BY DEF Entry, Header, DefaultTrace, Result

\* An entry sets the trace of its task: to its own, or back to the first.
Sets(es, j) ==
    \/ es[j].kind = "trace"
    \/ es[j].kind = "header" /\ \E k \in 1 .. j - 1 : es[k] = es[j]

\* It is the last of the first n to set the trace of t.
LastSet(es, n, t, j) ==
    /\ es[j].task = t /\ Sets(es, j)
    /\ \A k \in j + 1 .. n : es[k].task = t => ~Sets(es, k)

\* The trace in force is what the last entry that sets it says.
LEMMA TraceIs ==
    ASSUME NEW es \in Seq(Entry), NEW n \in 0 .. Len(es), NEW t \in Task
    PROVE  /\ \A j \in 1 .. n : LastSet(es, n, t, j) =>
                  TraceAt(es, n, t) = IF es[j].kind = "trace" THEN es[j].trace ELSE NoTrace
           /\ (\A j \in 1 .. n : ~LastSet(es, n, t, j)) => TraceAt(es, n, t) = NoTrace
<1> DEFINE last == {j \in 1 .. n : LastSet(es, n, t, j)}
<1>1. TraceAt(es, n, t) = IF \E j \in last : es[j].kind = "trace"
                          THEN es[CHOOSE j \in last : TRUE].trace ELSE NoTrace
    BY DEF TraceAt, LastSet, Sets
<1>2. ASSUME NEW j \in last, NEW k \in last PROVE j = k
    <2>1. j \in 1 .. n /\ k \in 1 .. n /\ LastSet(es, n, t, j) /\ LastSet(es, n, t, k)
        OBVIOUS
    <2>2. j \in Int /\ k \in Int /\ n \in Int
        BY <2>1
    <2>3. ~(j < k)
        <3>1. j < k => k \in j + 1 .. n
            BY <2>1, <2>2
        <3> QED
            BY <2>1, <3>1 DEF LastSet
    <2>4. ~(k < j)
        <3>1. k < j => j \in k + 1 .. n
            BY <2>1, <2>2
        <3> QED
            BY <2>1, <3>1 DEF LastSet
    <2> QED
        BY <2>2, <2>3, <2>4
<1>3. ASSUME NEW j \in 1 .. n, LastSet(es, n, t, j)
      PROVE  TraceAt(es, n, t) = IF es[j].kind = "trace" THEN es[j].trace ELSE NoTrace
    <2>1. j \in last
        BY <1>3
    <2> HIDE DEF last
    <2>2. (CHOOSE k \in last : TRUE) = j
        BY <1>2, <2>1
    <2> QED
        BY <1>1, <1>2, <2>1, <2>2
<1>4. ASSUME \A j \in 1 .. n : ~LastSet(es, n, t, j) PROVE TraceAt(es, n, t) = NoTrace
    <2>1. last = {}
        BY <1>4
    <2> HIDE DEF last
    <2> QED
        BY <1>1, <2>1
<1> QED
    BY <1>3, <1>4

\* It is a trace.
LEMMA TraceTyped ==
    ASSUME NEW es \in Seq(Entry), NEW n \in 0 .. Len(es), NEW t \in Task
    PROVE  TraceAt(es, n, t) \in Trace
<1>1. NoTrace \in Trace
    BY StoreAssumption
<1>2. ASSUME NEW j \in 1 .. n, LastSet(es, n, t, j) PROVE TraceAt(es, n, t) \in Trace
    <2>1. es[j] \in Entry
        OBVIOUS
    <2>2. es[j].kind = "trace" => es[j].trace \in Trace
        BY <2>1, EntryIs
    <2>3. TraceAt(es, n, t) = IF es[j].kind = "trace" THEN es[j].trace ELSE NoTrace
        BY <1>2, TraceIs
    <2> QED
        BY <1>1, <2>2, <2>3
<1> QED
    BY <1>1, <1>2, TraceIs

\* Entries that set nothing, after entries that are the same, leave it as it is.
LEMMA TraceSilent ==
    ASSUME NEW es \in Seq(Entry), NEW fs \in Seq(Entry), NEW n \in 0 .. Len(es),
           NEW m \in n .. Len(fs), NEW t \in Task,
           \A j \in 1 .. n : fs[j] = es[j],
           \A k \in n + 1 .. m : fs[k].task = t => ~Sets(fs, k)
    PROVE  TraceAt(fs, m, t) = TraceAt(es, n, t)
<1>1. n \in Nat /\ m \in Nat /\ n <= m /\ m \in 0 .. Len(fs)
    OBVIOUS
<1>2. ASSUME NEW j \in 1 .. n PROVE fs[j] = es[j] /\ (Sets(fs, j) <=> Sets(es, j))
    <2>1. \A k \in 1 .. j - 1 : k \in 1 .. n
        BY <1>1
    <2>2. \A k \in 1 .. j - 1 : fs[k] = es[k]
        BY <2>1
    <2> QED
        BY <2>2 DEF Sets
<1>3. ASSUME NEW j \in 1 .. n PROVE LastSet(fs, m, t, j) <=> LastSet(es, n, t, j)
    <2>1. /\ \A k \in j + 1 .. n : k \in 1 .. n /\ k \in j + 1 .. m
          /\ \A k \in j + 1 .. m : k \in j + 1 .. n \/ k \in n + 1 .. m
        BY <1>1
    <2>2. (\A k \in j + 1 .. m : fs[k].task = t => ~Sets(fs, k))
              <=> (\A k \in j + 1 .. n : es[k].task = t => ~Sets(es, k))
        <3>1. ASSUME NEW k \in j + 1 .. n, \A l \in j + 1 .. m : fs[l].task = t => ~Sets(fs, l)
              PROVE  es[k].task = t => ~Sets(es, k)
            BY <1>2, <2>1, <3>1
        <3>2. ASSUME NEW k \in j + 1 .. m, \A l \in j + 1 .. n : es[l].task = t => ~Sets(es, l)
              PROVE  fs[k].task = t => ~Sets(fs, k)
            BY <1>2, <2>1, <3>2
        <3> QED
            BY <3>1, <3>2
    <2> QED
        BY <1>2, <2>2 DEF LastSet
<1>4. ASSUME NEW j \in 1 .. m, LastSet(fs, m, t, j) PROVE j \in 1 .. n
    <2>1. j \in n + 1 .. m \/ j \in 1 .. n
        BY <1>1
    <2> QED
        BY <1>4, <2>1 DEF LastSet
<1>5. \A j \in 1 .. n : j \in 1 .. m
    BY <1>1
<1>6. CASE \E j \in 1 .. n : LastSet(es, n, t, j)
    <2>1. PICK j \in 1 .. n : LastSet(es, n, t, j)
        BY <1>6
    <2>2. /\ TraceAt(es, n, t) = IF es[j].kind = "trace" THEN es[j].trace ELSE NoTrace
          /\ TraceAt(fs, m, t) = IF fs[j].kind = "trace" THEN fs[j].trace ELSE NoTrace
        BY <1>1, <1>3, <1>5, <2>1, TraceIs
    <2> QED
        BY <1>2, <2>2
<1>7. CASE \A j \in 1 .. n : ~LastSet(es, n, t, j)
    <2>1. \A j \in 1 .. m : ~LastSet(fs, m, t, j)
        BY <1>3, <1>4, <1>7
    <2> QED
        BY <1>1, <1>7, <2>1, TraceIs
<1> QED
    BY <1>6, <1>7

\* What one more entry makes of it.
LEMMA TraceAppended ==
    ASSUME NEW es \in Seq(Entry), NEW e \in Entry, NEW t \in Task
    PROVE  LET fs == Append(es, e)
           IN  /\ fs \in Seq(Entry) /\ Len(fs) = Len(es) + 1
               /\ e.task # t \/ e.kind = "result" =>
                     TraceAt(fs, Len(fs), t) = TraceAt(es, Len(es), t)
               /\ e.task = t /\ e.kind = "trace" => TraceAt(fs, Len(fs), t) = e.trace
<1> DEFINE n == Len(es)
           fs == Append(es, e)
<1>1. /\ fs \in Seq(Entry) /\ Len(fs) = n + 1 /\ n \in Nat /\ fs[n + 1] = e
      /\ \A j \in 1 .. n : fs[j] = es[j]
    OBVIOUS
<1> HIDE DEF n, fs
<1>2. n \in 0 .. n /\ n + 1 \in n .. n + 1 /\ n + 1 \in 0 .. n + 1 /\ n + 1 \in 1 .. n + 1
      /\ \A k \in n + 1 .. n + 1 : k = n + 1
    BY <1>1
<1>3. ASSUME e.task # t \/ e.kind = "result"
      PROVE  TraceAt(fs, n + 1, t) = TraceAt(es, n, t)
    <2>1. \A k \in n + 1 .. n + 1 : fs[k].task = t => ~Sets(fs, k)
        BY <1>1, <1>2, <1>3 DEF Sets
    <2> QED
        BY <1>1, <1>2, <2>1, TraceSilent DEF n
<1>4. ASSUME e.task = t, e.kind = "trace" PROVE TraceAt(fs, n + 1, t) = e.trace
    <2>1. LastSet(fs, n + 1, t, n + 1)
        <3>1. (n + 1) + 1 .. n + 1 = {}
            BY <1>1
        <3> QED
            BY <1>1, <1>4, <3>1 DEF LastSet, Sets
    <2> QED
        BY <1>1, <1>2, <1>4, <2>1, TraceIs
<1> QED
    BY <1>1, <1>3, <1>4 DEF n, fs

\* Headers that were not there, each once, set nothing.
LEMMA TraceHeaders ==
    ASSUME NEW es \in Seq(Entry), NEW hs \in Seq(Entry), NEW t \in Task,
           \A k \in 1 .. Len(hs) :
               /\ hs[k].kind = "header" /\ hs[k] \notin Range(es)
               /\ \A l \in 1 .. Len(hs) : k # l => hs[k] # hs[l]
    PROVE  TraceAt(es \o hs, Len(es \o hs), t) = TraceAt(es, Len(es), t)
<1> DEFINE n == Len(es)
           h == Len(hs)
           fs == es \o hs
<1>1. /\ fs \in Seq(Entry) /\ Len(fs) = n + h /\ n \in Nat /\ h \in Nat
      /\ \A j \in 1 .. n : fs[j] = es[j]
      /\ \A k \in n + 1 .. n + h : fs[k] = hs[k - n]
    OBVIOUS
<1>2. \A j \in 1 .. n : es[j] \in Range(es)
    BY DEF Range
<1>n. n = Len(es) /\ fs = es \o hs
    OBVIOUS
<1> HIDE DEF n, h, fs
<1>3. ASSUME NEW k \in n + 1 .. n + h PROVE ~Sets(fs, k)
    <2>1. k - n \in 1 .. h /\ fs[k] = hs[k - n] /\ fs[k].kind = "header"
        BY <1>1 DEF h
    <2>2. ASSUME NEW l \in 1 .. k - 1 PROVE fs[l] # fs[k]
        <3>1. CASE l \in 1 .. n
            BY <1>1, <1>2, <2>1, <3>1 DEF h
        <3>2. CASE l \notin 1 .. n
            <4>1. l \in n + 1 .. n + h /\ l - n \in 1 .. h /\ l - n # k - n
                BY <1>1, <3>2
            <4>2. fs[l] = hs[l - n]
                BY <1>1, <4>1
            <4> QED
                BY <2>1, <4>1, <4>2 DEF h
        <3> QED
            BY <3>1, <3>2
    <2> QED
        BY <2>1, <2>2 DEF Sets
<1>4. n \in 0 .. Len(es) /\ n + h \in n .. Len(fs)
    BY <1>1, <1>n
<1>5. \A k \in n + 1 .. n + h : fs[k].task = t => ~Sets(fs, k)
    BY <1>3
<1>6. TraceAt(fs, n + h, t) = TraceAt(es, n, t)
    BY <1>1, <1>4, <1>5, TraceSilent
<1> QED
    BY <1>1, <1>6, <1>n

-----------------------------------------------------------------------------
(* The entries of the other tasks.                                         *)

\* Those up to a place.
Upto(places, j) == {m \in places : m <= j}

\* The numbers up to n are n.
LEMMA Interval ==
    ASSUME NEW n \in Nat
    PROVE  IsFiniteSet(1..n) /\ Cardinality(1..n) = n
<1>1. 1 \in Int /\ n \in Int
    OBVIOUS
<1>2. IsFiniteSet(1..n) /\ Cardinality(1..n) = IF 1 > n THEN 0 ELSE n - 1 + 1
    BY <1>1, FS_Interval
<1> QED
    BY <1>2

\* A set of places has a k-th one for every k up to its cardinality, in order,
\* and they are all its places.
LEMMA Ranks ==
    ASSUME NEW L \in Nat, NEW P \in SUBSET (1..L)
    PROVE  /\ Cardinality(P) \in Nat
           /\ \A k \in 1..Cardinality(P) : Nth(P, k) \in P
           /\ \A k, l \in 1..Cardinality(P) : k < l => Nth(P, k) < Nth(P, l)
           /\ \A j \in P : \E k \in 1..Cardinality(P) : Nth(P, k) = j
<1> DEFINE rank == [n \in P |-> Cardinality(Upto(P, n))]
           K == 1..Cardinality(P)
<1>n. \A n \in P : n \in Int
    OBVIOUS
<1>1. IsFiniteSet(P)
    BY Interval, FS_Subset
<1>2. Cardinality(P) \in Nat
    BY <1>1, FS_CardinalityType
<1>3. IsFiniteSet(K) /\ Cardinality(K) = Cardinality(P)
    BY <1>2, Interval
<1>4. ASSUME NEW n \in P
      PROVE  Upto(P, n) \subseteq P /\ n \in Upto(P, n) /\ Cardinality(Upto(P, n)) \in K
    <2>1. Upto(P, n) \subseteq P /\ n \in Upto(P, n)
        BY DEF Upto
    <2>2. IsFiniteSet(Upto(P, n)) /\ Cardinality(Upto(P, n)) <= Cardinality(P)
        BY <1>1, <2>1, FS_Subset
    <2>3. Cardinality(Upto(P, n)) \in Nat /\ Cardinality(Upto(P, n)) # 0
        BY <2>1, <2>2, FS_CardinalityType, FS_EmptySet
    <2> QED
        BY <1>2, <2>1, <2>2, <2>3
<1>5. ASSUME NEW m \in P, NEW n \in P, m < n
      PROVE  Cardinality(Upto(P, m)) # Cardinality(Upto(P, n))
    <2>1. Upto(P, m) \subseteq Upto(P, n) /\ n \notin Upto(P, m)
        <3>1. m \in Int /\ n \in Int /\ m < n
            BY <1>n, <1>5
        <3>2. \A l \in P : l <= m => l <= n
            BY <1>n, <3>1
        <3>3. ~(n <= m)
            BY <3>1
        <3> QED
            BY <3>2, <3>3 DEF Upto
    <2>2. n \in Upto(P, n)
        BY <1>4
    <2>3. IsFiniteSet(Upto(P, n))
        BY <1>1, <1>4, FS_Subset
    <2>4. Cardinality(Upto(P, n)) = Cardinality(Upto(P, m)) => Upto(P, n) = Upto(P, m)
        BY <2>1, <2>3, FS_Subset
    <2> QED
        BY <2>1, <2>2, <2>4
<1>6. rank \in Injection(P, K)
    <2>1. rank \in [P -> K]
        BY <1>4
    <2>2. ASSUME NEW m \in P, NEW n \in P, rank[m] = rank[n] PROVE m = n
        <3>1. ~(m < n) /\ ~(n < m)
            BY <1>5, <2>2
        <3>2. m \in Int /\ n \in Int
            BY <1>n
        <3> HIDE DEF rank
        <3> QED
            BY <3>1, <3>2
    <2> HIDE DEF rank, K
    <2> QED
        BY <2>1, <2>2 DEF Injection, IsInjective
<1>7. rank \in Surjection(P, K)
    <2> HIDE DEF rank, K
    <2> QED
        BY <1>3, <1>6, FS_Injection
<1>8. ASSUME NEW k \in K PROVE \E n \in P : Cardinality(Upto(P, n)) = k
    BY <1>7 DEF Surjection
<1>9. ASSUME NEW k \in K PROVE Nth(P, k) \in P /\ Cardinality(Upto(P, Nth(P, k))) = k
    <2>1. Nth(P, k) = CHOOSE j \in P : Cardinality(Upto(P, j)) = k
        BY DEF Nth, Upto
    <2> QED
        BY <1>8, <2>1
<1>10. ASSUME NEW k \in K, NEW l \in K, k < l PROVE Nth(P, k) < Nth(P, l)
    <2> DEFINE m == Nth(P, k)
               n == Nth(P, l)
    <2>1. /\ m \in P /\ n \in P
          /\ Cardinality(Upto(P, m)) = k /\ Cardinality(Upto(P, n)) = l
        BY <1>9
    <2> HIDE DEF m, n
    <2>2. m \in Int /\ n \in Int /\ k \in Int /\ l \in Int
        BY <1>n, <1>2, <2>1
    <2>3. SUFFICES ASSUME n <= m PROVE FALSE
        BY <2>2 DEF m, n
    <2>4. \A j \in P : j <= n => j <= m
        BY <1>n, <2>2, <2>3
    <2>5. Upto(P, n) \subseteq Upto(P, m)
        BY <2>4 DEF Upto
    <2>6. IsFiniteSet(Upto(P, m))
        BY <1>1, <1>4, <2>1, FS_Subset
    <2>7. Cardinality(Upto(P, n)) <= Cardinality(Upto(P, m))
        BY <2>5, <2>6, FS_Subset
    <2> QED
        BY <1>10, <2>1, <2>2, <2>7
<1>11. ASSUME NEW j \in P PROVE \E k \in K : Nth(P, k) = j
    <2> DEFINE k == Cardinality(Upto(P, j))
               n == Nth(P, k)
    <2>1. k \in K /\ n \in P /\ Cardinality(Upto(P, n)) = k
        BY <1>4, <1>9
    <2>2. n \in Int /\ j \in Int
        BY <1>n, <2>1
    <2>3. ~(n < j) /\ ~(j < n)
        BY <1>5, <2>1
    <2> HIDE DEF n
    <2>4. n = j
        BY <2>2, <2>3
    <2> QED
        BY <2>1, <2>4 DEF n
<1> QED
    BY <1>2, <1>9, <1>10, <1>11

\* Of entries, the others are entries, and there are none among none.
LEMMA OthersTyped ==
    ASSUME NEW es \in Seq(Entry), NEW S
    PROVE  Others(es, S) \in Seq(Entry) /\ (es = <<>> => Others(es, S) = <<>>)
<1> DEFINE P == {j \in DOMAIN es : es[j].task \notin S}
           some == [k \in 1..Cardinality(P) |-> es[Nth(P, k)]]
<1>1. Len(es) \in Nat /\ DOMAIN es = 1..Len(es) /\ P \in SUBSET (1..Len(es))
    OBVIOUS
<1>2. \A j \in 1..Len(es) : es[j] \in Entry
    OBVIOUS
<1>3. Others(es, S) = some
    BY DEF Others
<1>4. es = <<>> => P = {}
    OBVIOUS
<1> HIDE DEF P
<1>5. Cardinality(P) \in Nat /\ \A k \in 1..Cardinality(P) : Nth(P, k) \in P
    BY <1>1, Ranks
<1>6. \A k \in 1..Cardinality(P) : es[Nth(P, k)] \in Entry
    BY <1>1, <1>2, <1>5
<1>7. some \in Seq(Entry)
    BY <1>5, <1>6
<1>8. es = <<>> => some = <<>>
    <2>1. es = <<>> => Cardinality(P) = 0
        BY <1>4, FS_EmptySet
    <2> QED
        BY <2>1
<1> QED
    BY <1>3, <1>7, <1>8

-----------------------------------------------------------------------------
(* What the steps do to the files.                                         *)

\* The segments that count are files, and their entries entries.
LEMMA CommittedTyped ==
    ASSUME TypeOK
    PROVE  /\ IsFiles(Committed) /\ EntriesOf(Committed) \in Seq(Entry)
           /\ Kept \in Seq(Entry)
           /\ IsFiles(Written) /\ EntriesOf(Written) \in Seq(Entry) /\ Known \in Seq(Entry)
<1>1. IsFiles(Committed) /\ IsFiles(Written)
    BY NoFilesIs DEF TypeOK, Committed, Written
<1>2. EntriesOf(Committed) \in Seq(Entry) /\ EntriesOf(Written) \in Seq(Entry)
    BY <1>1, EntriesTyped
<1>3. Kept \in Seq(Entry)
    BY <1>2, OthersTyped DEF Kept
<1>4. Known \in Seq(Entry)
    <2>1. buffer \in Seq(Entry)
        BY DEF TypeOK
    <2> QED
        BY <1>2, <2>1 DEF Known
<1> QED
    BY <1>1, <1>2, <1>3, <1>4

\* Loading the segments leaves those that count, and a number past all seen.
LEMMA Loading ==
    ASSUME TypeOK, Readable, LoadSegments, UNCHANGED <<shared, index>>
    PROVE  /\ IsFiles(segs') /\ IsFiles(published') /\ next' \in Nat
           /\ DOMAIN segs' \subseteq DOMAIN segs
           /\ \A n \in DOMAIN segs' : segs'[n] = segs[n] /\ n < next'
           /\ ~shared => segs' = segs
           /\ shared => published' = Committed
           /\ Readable' /\ Committed' = Committed
<1>1. IsFiles(Committed) /\ IsFiles(segs) /\ IsFiles(published) /\ next \in Nat
    BY CommittedTyped DEF TypeOK
<1>2. /\ After(segs) \in Nat /\ After(Committed) \in Nat
      /\ \A n \in DOMAIN segs : n < After(segs)
    BY <1>1, AfterIs
<1>3. /\ next' \in Nat /\ next' >= After(segs)
    BY <1>1, <1>2 DEF LoadSegments, Larger
<1>4. DOMAIN segs \subseteq Nat
    BY <1>1 DEF IsFiles
<1>5. \A n \in DOMAIN segs : n < next'
    BY <1>2, <1>3, <1>4
<1>6. ~shared => segs' = segs /\ published' = published
    BY DEF LoadSegments
<1> DEFINE gone == DOMAIN segs \ DOMAIN Committed
<1>7. shared => segs' = Without(segs, gone) /\ published' = Committed
    BY DEF LoadSegments
<1>8. /\ IsFiles(Without(segs, gone)) /\ DOMAIN Without(segs, gone) = DOMAIN segs \ gone
      /\ \A n \in DOMAIN segs \ gone : Without(segs, gone)[n] = segs[n]
    BY <1>1, WithoutIs
<1> HIDE DEF gone
<1>9. /\ IsFiles(segs') /\ IsFiles(published') /\ DOMAIN segs' \subseteq DOMAIN segs
      /\ \A n \in DOMAIN segs' : segs'[n] = segs[n]
    BY <1>1, <1>6, <1>7, <1>8
<1>10. Committed' = Committed
    BY <1>6 DEF Committed
<1>11. Readable'
    <2>1. CASE ~shared
        BY <2>1 DEF Readable
    <2>2. CASE shared
        <3>1. ASSUME index = NoIndex PROVE segs' = NoFiles
            <4>1. segs = NoFiles
                BY <2>2, <3>1 DEF Readable
            <4>2. DOMAIN segs = {}
                BY <4>1, NoFilesIs
            <4>3. Without(segs, gone) = NoFiles
                BY <4>2 DEF Without, NoFiles
            <4> QED
                BY <1>7, <2>2, <4>3
        <3>2. ASSUME NEW n \in DOMAIN Committed PROVE n \in DOMAIN segs' /\ segs'[n] = Committed[n]
            <4>1. n \in DOMAIN segs /\ segs[n] = Committed[n]
                BY <2>2, <3>2 DEF Readable
            <4>2. n \in DOMAIN segs \ gone
                BY <3>2, <4>1 DEF gone
            <4> QED
                BY <1>7, <1>8, <2>2, <4>1, <4>2
        <3> QED
            BY <1>10, <2>2, <3>1, <3>2 DEF Readable
    <2> QED
        BY <2>1, <2>2
<1> QED
    BY <1>3, <1>5, <1>6, <1>7, <1>9, <1>10, <1>11

\* A segment renamed into place is one more.
LEMMA SegmentAdded ==
    ASSUME TypeOK, NEW n \in Nat, NEW es \in Seq(Entry)
    PROVE  /\ WithSegment(n, es) = WithOne(segs, n, es)
           /\ IsFiles(WithSegment(n, es)) /\ DOMAIN WithSegment(n, es) = DOMAIN segs \cup {n}
           /\ WithSegment(n, es)[n] = es
           /\ \A m \in DOMAIN segs : m # n => WithSegment(n, es)[m] = segs[m]
<1>1. WithSegment(n, es) = WithOne(segs, n, es)
    BY DEF WithSegment, WithOne
<1>2. IsFiles(segs)
    BY DEF TypeOK
<1> DEFINE g == WithOne(segs, n, es)
<1>a. Adds(g, segs, n, es)
    BY <1>2, WithOneIs
<1> HIDE DEF g
<1>3. /\ IsFiles(g) /\ DOMAIN g = DOMAIN segs \cup {n} /\ g[n] = es
      /\ \A m \in DOMAIN segs : m # n => g[m] = segs[m]
    BY <1>a DEF Adds
<1> QED
    BY <1>1, <1>3 DEF g

\* And so is one added to the index.
LEMMA NewestAdded ==
    ASSUME TypeOK, Copied, pc = "index"
    PROVE  /\ WithNewest = WithOne(published, next - 1, buffer) /\ next - 1 \in Nat
           /\ IsFiles(WithNewest) /\ DOMAIN WithNewest = DOMAIN published \cup {next - 1}
           /\ WithNewest[next - 1] = segs[next - 1]
           /\ \A m \in DOMAIN published : m # next - 1 => WithNewest[m] = published[m]
<1>1. next - 1 \in Nat /\ buffer \in Seq(Entry) /\ IsFiles(published) /\ segs[next - 1] = buffer
    BY DEF TypeOK, Copied
<1>2. WithNewest = WithOne(published, next - 1, buffer)
    <2>1. ASSUME NEW n \in DOMAIN published \cup {next - 1}
          PROVE  (IF n = next - 1 THEN segs[n] ELSE published[n])
                     = (IF n = next - 1 THEN buffer ELSE published[n])
        BY <1>1
    <2> QED
        BY <2>1 DEF WithNewest, WithOne
<1> DEFINE g == WithOne(published, next - 1, buffer)
<1>a. Adds(g, published, next - 1, buffer)
    BY <1>1, WithOneIs
<1> HIDE DEF g
<1>3. /\ IsFiles(g) /\ DOMAIN g = DOMAIN published \cup {next - 1} /\ g[next - 1] = buffer
      /\ \A m \in DOMAIN published : m # next - 1 => g[m] = published[m]
    BY <1>a DEF Adds
<1> QED
    BY <1>1, <1>2, <1>3 DEF g

\* What is left without the segments drop removes.
LEMMA RewrittenIs ==
    ASSUME TypeOK
    PROVE  /\ IsFiles(Rewritten) /\ DOMAIN Rewritten = DOMAIN segs \ old
           /\ \A n \in DOMAIN segs \ old : Rewritten[n] = segs[n]
BY WithoutIs DEF TypeOK, Rewritten

\* The segment to go next is one of those to go.
LEMMA GoingIs ==
    ASSUME TypeOK, Removing, old # {}
    PROVE  NextToGo(old) \in old
<1>1. old \in SUBSET Nat /\ IsFiniteSet(old)
    BY DEF TypeOK, Removing
<1> QED
    BY <1>1, MaxIs DEF NextToGo

\* The headers a stream lacks are a sequence of entries, each once, and all of
\* them.
LEMMA HeadersAre ==
    ASSUME NEW S \in SUBSET Task, NEW hs \in SetToSeqs({Header(t) : t \in S})
    PROVE  /\ hs \in Seq(Entry)
           /\ \A k \in 1 .. Len(hs) :
                 /\ hs[k] \in {Header(t) : t \in S} /\ hs[k].kind = "header"
                 /\ \A l \in 1 .. Len(hs) : k # l => hs[k] # hs[l]
           /\ \A t \in S : \E k \in 1 .. Len(hs) : hs[k] = Header(t)
<1> DEFINE H == {Header(t) : t \in S}
           C == Cardinality(H)
           f == [t \in S |-> Header(t)]
<1>1. IsFiniteSet(S)
    BY StoreAssumption, FS_Subset
<1>2. f \in Surjection(S, H)
    BY DEF Surjection
<1>3. IsFiniteSet(H)
    <2> HIDE DEF f, H
    <2> QED
        BY <1>1, <1>2, FS_Surjection
<1>4. \A h \in H : h \in Entry /\ h.kind = "header"
    BY EntryOf
<1> HIDE DEF H
<1>5. C \in Nat
    BY <1>3, FS_CardinalityType
<1>6. hs \in [1 .. C -> H] /\ \A k, l \in 1 .. C : k # l => hs[k] # hs[l]
    BY DEF SetToSeqs, H
<1>7. \A h \in H : \E k \in 1 .. C : hs[k] = h
    <2>1. IsFiniteSet(1 .. C) /\ Cardinality(1 .. C) = C
        BY <1>5, Interval
    <2>2. hs \in Injection(1 .. C, H)
        BY <1>6 DEF Injection, IsInjective
    <2>3. Cardinality(1 .. C) = Cardinality(H)
        BY <2>1
    <2> HIDE DEF C
    <2>4. hs \in Surjection(1 .. C, H)
        BY <1>3, <2>1, <2>2, <2>3, FS_Injection
    <2> QED
        BY <2>4 DEF Surjection
<1>8. \A t \in S : Header(t) \in H
    BY DEF H
<1> HIDE DEF C
<1>9. hs \in Seq(Entry) /\ Len(hs) = C
    BY <1>4, <1>5, <1>6
<1> QED
    BY <1>4, <1>6, <1>7, <1>8, <1>9 DEF H

-----------------------------------------------------------------------------
(* Each part of the invariant, in a step.                                  *)

\* A process goes on where it said; one that said nothing is over.
LEMMA Proceeding ==
    ASSUME TypeOK, Proceed
    PROVE  /\ pc' \in {"run", "exit", "discard"} /\ then' = "exit"
           /\ pc' = "run" <=> then \in Task \/ then = "run"
           /\ then = "exit" => pc' = "exit"
BY StoreAssumption DEF Proceed, TypeOK

\* The variables of the process, but for the files.
TypeRest ==
    /\ pc \in PCs /\ then \in {"exit", "run", "discard"} \cup Task
    /\ active \in SUBSET Task /\ recording \in SUBSET Task /\ trace \in [Task -> Trace]
    /\ entering = None \/ entering \in [task : Task, idx : Idx, trace : Trace]
    /\ buffer \in Seq(Entry)
    /\ runs \in 0 .. MaxRuns /\ faults \in 0 .. MaxFaults
\* And those of the files.
TypeFiles ==
    /\ shared \in BOOLEAN
    /\ IsFiles(segs) /\ IsFiles(published)
    /\ index = NoIndex \/ IsFiles(index)
    /\ tmp = None \/ tmp \in Seq(Entry)
    /\ next \in Nat /\ old \in SUBSET Nat

\* Appending adds an entry to what is not written yet.
LEMMA AppendTyped ==
    ASSUME TypeOK, NEW t \in Task, NEW e \in Entry, NEW full \in BOOLEAN, AppendEntry(t, e, full)
    PROVE  /\ buffer' \in Seq(Entry) /\ pc' \in PCs
           /\ then' \in {"exit", "run", "discard"} \cup Task
           /\ pc' \in {"run", "write"} /\ (pc' = "run" => then' = "exit")
           /\ then' \in Task => then' = t
           /\ (shared' = shared /\ published' = published /\ segs' = segs
                   => Known' = Append(Known, e))
<1>1. buffer \in Seq(Entry) /\ buffer' = Append(buffer, e)
    BY DEF TypeOK, AppendEntry
<1>2. buffer' \in Seq(Entry)
    BY <1>1
<1>3. "run" \in PCs /\ "write" \in PCs
    BY DEF PCs
<1>4. ASSUME shared' = shared, published' = published, segs' = segs
      PROVE  Known' = Append(Known, e)
    <2>1. Written' = Written
        BY <1>4 DEF Written
    <2>2. EntriesOf(Written) \in Seq(Entry)
        BY CommittedTyped
    <2> DEFINE es == EntriesOf(Written)
    <2>3. Known' = es \o buffer'
        BY <2>1 DEF Known
    <2> HIDE DEF es
    <2>4. es \o Append(buffer, e) = Append(es \o buffer, e)
        BY <1>1, <2>2 DEF es
    <2> QED
        BY <1>1, <2>3, <2>4 DEF Known, es
<1> QED
    BY <1>2, <1>3, <1>4, StoreAssumption DEF AppendEntry

\* The process keeps its types.
LEMMA RestTyped == Inv /\ Next => TypeRest'
<1> SUFFICES ASSUME Inv, Next PROVE TypeRest'
    OBVIOUS
<1>1. TypeOK /\ Removing /\ Copied /\ Readable
    BY DEF Inv
<1>2. {"off", "restore", "run", "write", "rename", "index", "discard", "drop", "swap",
       "reindex", "unlink", "exit"} = PCs
    BY DEF PCs
<1>3. MaxRuns \in Nat /\ MaxFaults \in Nat /\ NoTrace \in Trace
    BY StoreAssumption
<1>4. [t \in Task |-> NoTrace] \in [Task -> Trace] /\ <<>> \in Seq(Entry)
    BY <1>3
<1>5. ASSUME NEW S \in SUBSET Task, NEW fresh \in BOOLEAN, Start(S, fresh) PROVE TypeRest'
    BY <1>1, <1>2, <1>3, <1>5 DEF Start, TypeOK, TypeRest
<1>6. CASE End
    BY <1>1, <1>2, <1>3, <1>4, <1>6 DEF End, TypeOK, TypeRest
<1>7. CASE Restore
    <2>1. EntriesOf(Committed) \in Seq(Entry)
        BY <1>1, CommittedTyped
    <2> DEFINE es == EntriesOf(Committed)
               lacking == {t \in active : ~HasHeader(es, t)}
    <2>2. buffer' \in SetToSeqs({Header(t) : t \in lacking}) /\ trace' = RestoredTrace(es)
        BY <1>7 DEF Restore
    <2>3. active \in SUBSET Task /\ lacking \in SUBSET Task
        BY <1>1 DEF TypeOK
    <2> HIDE DEF lacking, es
    <2>4. buffer' \in Seq(Entry)
        BY <2>2, <2>3, HeadersAre
    <2>5. Len(es) \in 0 .. Len(es)
        BY <2>1 DEF es
    <2>6. ASSUME NEW t \in Task PROVE (IF t \in active THEN LastTrace(es)[t] ELSE NoTrace) \in Trace
        BY <1>3, <2>1, <2>5, TraceTyped DEF LastTrace, es
    <2>7. trace' \in [Task -> Trace]
        BY <2>2, <2>6 DEF RestoredTrace
    <2>8. UNCHANGED <<then, active, entering, runs, faults>> /\ recording' = active /\ pc' = "run"
        BY <1>7 DEF Restore
    <2> QED
        BY <1>1, <1>2, <2>3, <2>4, <2>7, <2>8 DEF TypeOK, TypeRest
<1>8. ASSUME NEW t \in Task, NEW i \in Idx, NEW v \in Trace, NEW full \in BOOLEAN,
             Record(t, i, v, full)
      PROVE  TypeRest'
    <2>1. PICK e \in Entry : AppendEntry(t, e, full)
        BY <1>8, EntryOf DEF Record
    <2>2. /\ buffer' \in Seq(Entry) /\ pc' \in PCs
          /\ then' \in {"exit", "run", "discard"} \cup Task
        BY <1>1, <2>1, AppendTyped
    <2>3. UNCHANGED <<active, recording, trace, runs, faults>>
        BY <1>8 DEF Record
    <2>4. entering' = entering \/ entering' = [task |-> t, idx |-> i, trace |-> v]
        BY <1>8 DEF Record
    <2>5. [task |-> t, idx |-> i, trace |-> v] \in [task : Task, idx : Idx, trace : Trace]
        OBVIOUS
    <2>6. entering' = None \/ entering' \in [task : Task, idx : Idx, trace : Trace]
        BY <1>1, <2>4, <2>5 DEF TypeOK
    <2> QED
        BY <1>1, <2>2, <2>3, <2>6 DEF TypeOK, TypeRest
<1>9. ASSUME NEW full \in BOOLEAN, RecordRest(full) PROVE TypeRest'
    <2>1. entering \in [task : Task, idx : Idx, trace : Trace]
        BY <1>1, <1>9 DEF RecordRest, TypeOK
    <2>2. entering.task \in Task /\ entering.idx \in Idx /\ entering.trace \in Trace
        BY <2>1
    <2>3. Result(entering.task, entering.idx) \in Entry
        BY <2>2, EntryOf
    <2>4. /\ buffer' \in Seq(Entry) /\ pc' \in PCs
          /\ then' \in {"exit", "run", "discard"} \cup Task
        BY <1>1, <1>9, <2>2, <2>3, AppendTyped DEF RecordRest
    <2>5. trace' \in [Task -> Trace]
        BY <1>1, <1>9, <2>2 DEF RecordRest, TypeOK
    <2>6. UNCHANGED <<active, recording, runs, faults>> /\ entering' = None
        BY <1>9 DEF RecordRest
    <2> QED
        BY <1>1, <2>4, <2>5, <2>6 DEF TypeOK, TypeRest
<1>10. CASE Flush \/ (\E next_ \in {"exit", "discard"} : Close(next_))
    <2>1. /\ pc' = "write" /\ then' \in {"run", "exit", "discard"}
          /\ UNCHANGED <<memory, runs, faults>>
        BY <1>10 DEF Flush, Close
    <2> QED
        BY <1>1, <1>2, <2>1 DEF memory, TypeOK, TypeRest
<1>11. ASSUME Proceed, UNCHANGED <<active, trace, runs>>, recording' \subseteq recording,
              entering' \in {entering, None}, buffer' \in {buffer, <<>>},
              faults' \in 0 .. MaxFaults
       PROVE  TypeRest'
    <2>1. pc' \in PCs /\ then' \in {"exit", "run", "discard"} \cup Task
        BY <1>1, <1>2, <1>11, Proceeding
    <2>2. buffer' \in Seq(Entry)
        BY <1>1, <1>4, <1>11 DEF TypeOK
    <2>3. entering' = None \/ entering' \in [task : Task, idx : Idx, trace : Trace]
        BY <1>1, <1>11 DEF TypeOK
    <2> QED
        BY <1>1, <1>11, <2>1, <2>2, <2>3 DEF TypeOK, TypeRest
<1>12. CASE WriteNothing
    BY <1>1, <1>11, <1>12 DEF WriteNothing, memory, TypeOK
<1>13. CASE InitializeInventory \/ WriteTmp
    <2>1. pc' \in PCs /\ UNCHANGED <<then, memory, runs, faults>>
        BY <1>1, <1>2, <1>13 DEF InitializeInventory, WriteTmp, TypeOK
    <2> QED
        BY <1>1, <2>1 DEF memory, TypeOK, TypeRest
<1>14. CASE RenameSegment
    <2>1. CASE shared
        <3>1. /\ pc' = "index"
              /\ UNCHANGED <<then, active, recording, trace, entering, buffer, runs, faults>>
            BY <1>14, <2>1 DEF RenameSegment
        <3> QED
            BY <1>1, <1>2, <3>1 DEF TypeOK, TypeRest
    <2>2. CASE ~shared
        BY <1>1, <1>11, <1>14, <2>2 DEF RenameSegment, TypeOK
    <2> QED
        BY <2>1, <2>2
<1>15. CASE WriteIndex
    BY <1>1, <1>11, <1>15 DEF WriteIndex, TypeOK
<1>16. CASE WriteFails
    <2>1. faults' \in 0 .. MaxFaults
        BY <1>1, <1>3, <1>16 DEF WriteFails, TypeOK
    <2>2. /\ Proceed /\ UNCHANGED <<active, trace, runs, buffer>> /\ recording' \subseteq recording
          /\ entering' \in {entering, None}
        BY <1>16 DEF WriteFails
    <2> QED
        BY <1>11, <2>1, <2>2
<1>17. CASE DropBuffer
    BY <1>1, <1>2, <1>4, <1>17 DEF DropBuffer, TypeOK, TypeRest
<1>18. CASE DropNothing
    BY <1>1, <1>11, <1>18 DEF DropNothing, TypeOK
<1>19. CASE DropCopy \/ DropSwap \/ DropIndex \/ DropUnlink
    <2>1. /\ pc' \in PCs
          /\ UNCHANGED <<then, active, recording, trace, entering, buffer, runs, faults>>
        BY <1>1, <1>2, <1>19 DEF DropCopy, DropSwap, DropIndex, DropUnlink, TypeOK
    <2> QED
        BY <1>1, <2>1 DEF TypeOK, TypeRest
<1>20. CASE DropEnd
    BY <1>1, <1>11, <1>20 DEF DropEnd, TypeOK
<1>21. CASE DropFails
    <2>1. faults' \in 0 .. MaxFaults
        BY <1>1, <1>3, <1>21 DEF DropFails, TypeOK
    <2>2. pc' = "exit" /\ then' = "exit" /\ UNCHANGED <<memory, runs>>
        BY <1>21 DEF DropFails
    <2> QED
        BY <1>1, <1>2, <2>1, <2>2 DEF memory, TypeOK, TypeRest
<1> QED
    BY <1>5, <1>6, <1>7, <1>8, <1>9, <1>10, <1>12, <1>13, <1>14, <1>15, <1>16, <1>17, <1>18, <1>19,
       <1>20, <1>21 DEF Next, Exit, Crash

\* What the invariant says of the files.
FilesInv ==
    TypeFiles /\ Readable /\ Numbered /\ Published /\ Inventoried /\ Copied /\ Removing

\* A step that touches no file, at places where the process touches none.
LEMMA QuietStep ==
    ASSUME Inv, UNCHANGED <<disk, next, published, old>>,
           pc' \in {"restore", "run", "write", "discard", "drop", "exit"}, Recording' => Recording
    PROVE  FilesInv'
<1>1. Committed' = Committed
    BY DEF disk, Committed
<1>2. TypeFiles' /\ Readable'
    BY <1>1 DEF Inv, TypeOK, TypeFiles, Readable, disk
<1>3. Numbered' /\ Published' /\ Inventoried' /\ Copied' /\ Removing'
    BY DEF Inv, Numbered, Published, Inventoried, Copied, Removing, disk
<1> QED
    BY <1>2, <1>3 DEF FilesInv

\* The process ends.
LEMMA EndStep ==
    ASSUME Inv, End
    PROVE  FilesInv'
<1>1. /\ UNCHANGED disk /\ pc' = "off" /\ next' = 0 /\ published' = NoFiles /\ old' = {}
      /\ IsFiniteSet({})
    BY FS_EmptySet DEF End
<1>2. Committed' = Committed
    BY <1>1 DEF disk, Committed
<1>3. TypeFiles' /\ Readable'
    BY <1>1, <1>2, NoFilesIs DEF Inv, TypeOK, TypeFiles, Readable, disk
<1>4. Numbered' /\ Published' /\ Inventoried' /\ Copied' /\ Removing'
    BY <1>1 DEF Numbered, Published, Inventoried, Copied, Removing, Recording, disk
<1> QED
    BY <1>3, <1>4 DEF FilesInv

\* The process reads the segments.
LEMMA RestoreStep ==
    ASSUME Inv, Restore
    PROVE  FilesInv'
<1>1. /\ Load /\ LoadSegments /\ UNCHANGED <<shared, index, old>> /\ tmp' = None /\ pc' = "run"
      /\ TypeOK /\ Readable /\ IsFiniteSet(old)
    BY DEF Restore, Load, Inv, Removing
<1>2. /\ IsFiles(segs') /\ IsFiles(published') /\ next' \in Nat
      /\ \A n \in DOMAIN segs' : segs'[n] = segs[n] /\ n < next'
      /\ shared => published' = Committed
      /\ Readable' /\ Committed' = Committed
    BY <1>1, Loading
<1>3. TypeFiles'
    BY <1>1, <1>2 DEF TypeOK, TypeFiles
<1>4. Numbered' /\ Inventoried' /\ Copied' /\ Removing'
    BY <1>1, <1>2 DEF Numbered, Inventoried, Copied, Removing
<1>5. Published'
    BY <1>1, <1>2 DEF Published, Readable
<1> QED
    BY <1>2, <1>3, <1>4, <1>5 DEF FilesInv

\* A shared stream gets an index that names nothing.
LEMMA InventoryStep ==
    ASSUME Inv, InitializeInventory
    PROVE  FilesInv'
<1>1. /\ shared /\ index = NoIndex /\ index' = NoFiles /\ pc = "write"
      /\ UNCHANGED <<shared, segs, tmp, pc, next, published, old>> /\ TypeOK
    BY DEF InitializeInventory, memory, Inv
<1>2. DOMAIN NoFiles = {} /\ IsFiles(NoFiles) /\ DOMAIN NoIndex = {-1}
    BY NoFilesIs DEF NoIndex
<1>3. index' # NoIndex
    BY <1>1, <1>2
<1>4. DOMAIN Committed' = {}
    BY <1>1, <1>2, <1>3 DEF Committed
<1>5. TypeFiles' /\ Readable'
    BY <1>1, <1>2, <1>3, <1>4 DEF TypeOK, TypeFiles, Readable
<1>6. Numbered' /\ Published' /\ Inventoried' /\ Copied' /\ Removing'
    BY <1>1 DEF Inv, Numbered, Published, Inventoried, Copied, Removing, Recording
<1> QED
    BY <1>5, <1>6 DEF FilesInv

\* A segment is written under another name.
LEMMA WriteTmpStep ==
    ASSUME Inv, WriteTmp
    PROVE  FilesInv'
<1>1. /\ shared => index # NoIndex
      /\ tmp' = buffer /\ pc = "write" /\ pc' = "rename"
      /\ UNCHANGED <<shared, segs, index, buffer, next, published, old>> /\ TypeOK
    BY DEF WriteTmp, memory, Inv
<1>2. Committed' = Committed
    BY <1>1 DEF Committed
<1>3. TypeFiles' /\ Readable'
    BY <1>1, <1>2 DEF Inv, TypeOK, TypeFiles, Readable
<1>4. Numbered' /\ Published' /\ Inventoried' /\ Copied' /\ Removing'
    BY <1>1 DEF Inv, TypeOK, Numbered, Published, Inventoried, Copied, Removing, Recording
<1> QED
    BY <1>3, <1>4 DEF FilesInv

\* It gets its name, which no segment has.
LEMMA RenameStep ==
    ASSUME Inv, RenameSegment
    PROVE  FilesInv' /\ next \notin DOMAIN segs /\ tmp = buffer
<1>1. /\ segs' = WithSegment(next, tmp) /\ tmp' = None /\ next' = next + 1 /\ pc = "rename"
      /\ shared => pc' = "index" /\ UNCHANGED buffer
      /\ ~shared => pc' \in {"run", "exit", "discard"}
      /\ UNCHANGED <<shared, index, published, old>> /\ TypeOK
    BY Proceeding DEF RenameSegment, Inv
<1>2. /\ next \in Nat /\ tmp \in Seq(Entry) /\ tmp = buffer
      /\ \A n \in DOMAIN segs : n < next
      /\ DOMAIN segs \in SUBSET Nat /\ DOMAIN published \in SUBSET Nat
    BY <1>1 DEF Inv, Copied, Numbered, Recording, TypeOK, IsFiles
<1>3. /\ IsFiles(WithSegment(next, tmp)) /\ DOMAIN WithSegment(next, tmp) = DOMAIN segs \cup {next}
      /\ WithSegment(next, tmp)[next] = tmp
      /\ \A m \in DOMAIN segs : m # next => WithSegment(next, tmp)[m] = segs[m]
    BY <1>1, <1>2, SegmentAdded
<1>4. next \notin DOMAIN segs
    <2>1. ~(next < next)
        BY <1>2
    <2> QED
        BY <1>2, <2>1
<1>5. /\ IsFiles(segs') /\ DOMAIN segs' = DOMAIN segs \cup {next} /\ segs'[next] = tmp
      /\ \A m \in DOMAIN segs : segs'[m] = segs[m]
    BY <1>1, <1>3, <1>4
<1>6. TypeFiles'
    BY <1>1, <1>2, <1>5 DEF TypeOK, TypeFiles
<1>7. Readable'
    <2>1. shared => Committed' = Committed /\ index # NoIndex
        BY <1>1 DEF Inv, Inventoried, Committed
    <2> QED
        BY <1>1, <1>5, <2>1 DEF Inv, Readable
<1>8. \A n \in DOMAIN segs' : n < next'
    BY <1>1, <1>2, <1>5
<1>9. Recording
    BY <1>1 DEF Recording
<1>10. Published'
    BY <1>1, <1>5, <1>9 DEF Inv, Published
<1>11. Copied'
    <2>1. CASE shared
        <3>1. next' - 1 = next /\ next' # 0 /\ pc' = "index" /\ buffer' = buffer
            BY <1>1, <1>2, <2>1
        <3>2. \A n \in DOMAIN published : n < next
            BY <1>2, <1>9, <2>1 DEF Inv, Published
        <3> QED
            BY <1>1, <1>2, <1>5, <3>1, <3>2 DEF Copied
    <2>2. CASE ~shared
        BY <1>1, <2>2 DEF Copied
    <2> QED
        BY <2>1, <2>2
<1>12. Numbered' /\ Inventoried' /\ Removing'
    BY <1>1, <1>8 DEF Inv, Numbered, Inventoried, Removing
<1> QED
    BY <1>2, <1>4, <1>6, <1>7, <1>10, <1>11, <1>12 DEF FilesInv

\* The index with the newest segment names segments that are there.
LEMMA NewestThere ==
    ASSUME Inv, pc = "index"
    PROVE  /\ shared /\ IsFiles(WithNewest) /\ WithNewest # NoIndex
           /\ WithNewest = WithOne(published, next - 1, buffer)
           /\ \A n \in DOMAIN WithNewest : n \in DOMAIN segs /\ segs[n] = WithNewest[n]
<1>1. TypeOK /\ Copied /\ shared /\ Recording
    BY DEF Inv, Inventoried, Recording
<1>2. /\ WithNewest = WithOne(published, next - 1, buffer) /\ next - 1 \in Nat
      /\ IsFiles(WithNewest) /\ DOMAIN WithNewest = DOMAIN published \cup {next - 1}
      /\ WithNewest[next - 1] = segs[next - 1]
      /\ \A m \in DOMAIN published : m # next - 1 => WithNewest[m] = published[m]
    BY <1>1, NewestAdded
<1>3. next - 1 \in DOMAIN segs
    BY DEF Inv, Copied
<1>4. \A m \in DOMAIN published : m \in DOMAIN segs /\ segs[m] = published[m]
    BY <1>1 DEF Inv, Published
<1>5. WithNewest # NoIndex
    <2>1. DOMAIN NoIndex = {-1} /\ next - 1 # -1
        BY <1>2 DEF NoIndex
    <2> QED
        BY <1>2, <2>1
<1> QED
    BY <1>1, <1>2, <1>3, <1>4, <1>5

\* The index is written.
LEMMA WriteIndexStep ==
    ASSUME Inv, WriteIndex
    PROVE  FilesInv'
<1>1. /\ pc = "index" /\ index' = WithNewest /\ published' = WithNewest
      /\ pc' \in {"run", "exit", "discard"}
      /\ UNCHANGED <<shared, segs, tmp, next, old>> /\ TypeOK
    BY Proceeding DEF WriteIndex, Inv
<1>2. /\ shared /\ IsFiles(WithNewest) /\ WithNewest # NoIndex
      /\ \A n \in DOMAIN WithNewest : n \in DOMAIN segs /\ segs[n] = WithNewest[n]
    BY <1>1, NewestThere
<1>3. Committed' = WithNewest
    BY <1>1, <1>2 DEF Committed
<1>4. TypeFiles' /\ Readable' /\ Published'
    BY <1>1, <1>2, <1>3 DEF TypeOK, TypeFiles, Readable, Published
<1>5. Numbered' /\ Inventoried' /\ Copied' /\ Removing'
    BY <1>1 DEF Inv, Numbered, Inventoried, Copied, Removing, Recording
<1> QED
    BY <1>4, <1>5 DEF FilesInv

\* A write fails, with or without the index in place.
LEMMA WriteFailsStep ==
    ASSUME Inv, WriteFails
    PROVE  FilesInv'
<1>1. /\ pc \in {"write", "rename", "index"} /\ pc' \in {"run", "exit", "discard"}
      /\ index' = index \/ (pc = "index" /\ index' = WithNewest)
      /\ UNCHANGED <<shared, segs, tmp, next, published, old>> /\ TypeOK
    BY Proceeding DEF WriteFails, NumberAfterFailure, Inv
<1>2. Numbered' /\ Published' /\ Inventoried' /\ Copied' /\ Removing'
    BY <1>1 DEF Inv, Numbered, Published, Inventoried, Copied, Removing, Recording
<1>3. CASE index' = index
    <2>1. Committed' = Committed
        BY <1>1, <1>3 DEF Committed
    <2>2. TypeFiles' /\ Readable'
        BY <1>1, <1>3, <2>1 DEF Inv, TypeOK, TypeFiles, Readable
    <2> QED
        BY <1>2, <2>2 DEF FilesInv
<1>4. CASE pc = "index" /\ index' = WithNewest
    <2>1. /\ shared /\ IsFiles(WithNewest) /\ WithNewest # NoIndex
          /\ \A n \in DOMAIN WithNewest : n \in DOMAIN segs /\ segs[n] = WithNewest[n]
        BY <1>4, NewestThere
    <2>2. Committed' = WithNewest
        BY <1>1, <1>4, <2>1 DEF Committed
    <2>3. TypeFiles' /\ Readable'
        BY <1>1, <1>4, <2>1, <2>2 DEF TypeOK, TypeFiles, Readable
    <2> QED
        BY <1>2, <2>3 DEF FilesInv
<1> QED
    BY <1>1, <1>3, <1>4

\* Drop finds nothing to remove.
LEMMA DropNothingStep ==
    ASSUME Inv, DropNothing
    PROVE  FilesInv'
<1>1. /\ Load /\ LoadSegments /\ UNCHANGED <<shared, index, old>> /\ tmp' = None
      /\ TypeOK /\ Readable /\ IsFiniteSet(old)
    BY DEF DropNothing, Load, Inv, Removing
<1>2. pc' = "exit"
    BY <1>1, Proceeding DEF DropNothing, Inv, Resting
<1>3. /\ IsFiles(segs') /\ IsFiles(published') /\ next' \in Nat
      /\ Readable' /\ Committed' = Committed
    BY <1>1, Loading
<1>4. TypeFiles'
    BY <1>1, <1>3 DEF TypeOK, TypeFiles
<1>5. Numbered' /\ Published' /\ Inventoried' /\ Copied' /\ Removing'
    BY <1>1, <1>2 DEF Numbered, Published, Inventoried, Copied, Removing, Recording
<1> QED
    BY <1>3, <1>4, <1>5 DEF FilesInv

\* Drop writes the entries to keep under another name.  With entries to remove
\* there is an index.
LEMMA DropCopyStep ==
    ASSUME Inv, DropCopy
    PROVE  FilesInv'
<1>1. /\ LoadSegments /\ UNCHANGED <<shared, index>> /\ tmp' = Kept /\ pc' = "swap"
      /\ old' = DOMAIN Committed /\ Kept # EntriesOf(Committed)
      /\ TypeOK /\ Readable
    BY DEF DropCopy, Inv
<1>2. IsFiles(Committed) /\ EntriesOf(Committed) \in Seq(Entry) /\ Kept \in Seq(Entry)
    BY <1>1, CommittedTyped
<1>3. DOMAIN Committed \in SUBSET Nat /\ IsFiniteSet(DOMAIN Committed)
    BY <1>2 DEF IsFiles
<1>4. /\ IsFiles(segs') /\ IsFiles(published') /\ next' \in Nat
      /\ \A n \in DOMAIN segs' : n < next'
      /\ Readable' /\ Committed' = Committed
    BY <1>1, Loading
<1>5. TypeFiles'
    BY <1>1, <1>2, <1>3, <1>4 DEF TypeOK, TypeFiles
<1>6. ASSUME shared PROVE index # NoIndex
    <2>1. SUFFICES ASSUME index = NoIndex PROVE FALSE
        OBVIOUS
    <2>2. Committed = NoFiles
        BY <1>6, <2>1 DEF Committed
    <2>3. EntriesOf(Committed) = <<>>
        BY <2>2, NoFilesIs
    <2>4. Kept = <<>>
        BY <1>2, <2>3, OthersTyped DEF Kept
    <2> QED
        BY <1>1, <2>3, <2>4
<1>7. Numbered' /\ Published' /\ Inventoried' /\ Copied' /\ Removing'
    BY <1>1, <1>2, <1>3, <1>4, <1>6
    DEF Numbered, Published, Inventoried, Copied, Removing, Recording
<1> QED
    BY <1>4, <1>5, <1>7 DEF FilesInv

\* They get a name no segment has.
LEMMA DropSwapStep ==
    ASSUME Inv, DropSwap
    PROVE  /\ FilesInv'
           /\ \A n \in DOMAIN segs : n \in DOMAIN segs' /\ segs'[n] = segs[n]
<1>1. /\ UNCHANGED <<shared, index, published, old>> /\ tmp' = None /\ pc = "swap"
      /\ pc' = IF shared THEN "reindex" ELSE "unlink"
      /\ TypeOK
    BY DEF DropSwap, Inv
<1>2. /\ next \in Nat /\ tmp \in Seq(Entry) /\ \A n \in DOMAIN segs : n < next
      /\ DOMAIN segs \in SUBSET Nat
    BY <1>1 DEF Inv, Copied, Numbered, TypeOK, IsFiles
<1>3. /\ IsFiles(WithSegment(next, tmp)) /\ DOMAIN WithSegment(next, tmp) = DOMAIN segs \cup {next}
      /\ \A m \in DOMAIN segs : m # next => WithSegment(next, tmp)[m] = segs[m]
    BY <1>1, <1>2, SegmentAdded
<1>4. next \notin DOMAIN segs
    <2>1. ~(next < next)
        BY <1>2
    <2> QED
        BY <1>2, <2>1
<1>5. \/ UNCHANGED <<segs, next>>
      \/ segs' = WithSegment(next, tmp) /\ next' = next + 1
    BY DEF DropSwap
<1>6. /\ IsFiles(segs') /\ next' \in Nat /\ \A n \in DOMAIN segs' : n < next'
      /\ \A n \in DOMAIN segs : n \in DOMAIN segs' /\ segs'[n] = segs[n]
    <2>1. CASE UNCHANGED <<segs, next>>
        BY <1>1, <1>2, <2>1 DEF TypeOK
    <2>2. CASE segs' = WithSegment(next, tmp) /\ next' = next + 1
        <3>1. \A n \in DOMAIN segs \cup {next} : n \in Nat /\ n < next + 1
            BY <1>2
        <3> QED
            BY <1>2, <1>3, <1>4, <2>2, <3>1
    <2> QED
        BY <1>5, <2>1, <2>2
<1>7. TypeFiles'
    BY <1>1, <1>6 DEF TypeOK, TypeFiles
<1>8. Readable'
    <2>1. shared => Committed' = Committed /\ index # NoIndex
        BY <1>1 DEF Inv, Inventoried, Committed
    <2> QED
        BY <1>1, <1>6, <2>1 DEF Inv, Readable
<1>9. Numbered' /\ Published' /\ Inventoried' /\ Copied' /\ Removing'
    BY <1>1, <1>6 DEF Inv, Numbered, Published, Inventoried, Copied, Removing, Recording
<1> QED
    BY <1>6, <1>7, <1>8, <1>9 DEF FilesInv

\* The index names what drop leaves, or is the one before.
LEMMA Reindexed ==
    ASSUME Inv, pc = "reindex", UNCHANGED <<shared, segs>>, index' = Rewritten
    PROVE  /\ shared /\ IsFiles(index') /\ index' # NoIndex /\ Readable'
           /\ DOMAIN index' \cap old = {}
<1>1. TypeOK /\ shared
    BY DEF Inv, Inventoried
<1>2. /\ IsFiles(Rewritten) /\ DOMAIN Rewritten = DOMAIN segs \ old
      /\ \A n \in DOMAIN segs \ old : Rewritten[n] = segs[n]
    BY <1>1, RewrittenIs
<1>3. Rewritten # NoIndex
    <2>1. DOMAIN NoIndex = {-1} /\ -1 \notin Nat
        BY DEF NoIndex
    <2>2. DOMAIN Rewritten \in SUBSET Nat
        BY <1>2 DEF IsFiles
    <2> QED
        BY <2>1, <2>2
<1>4. Committed' = Rewritten
    BY <1>1, <1>3 DEF Committed
<1>5. Readable'
    BY <1>1, <1>2, <1>3, <1>4 DEF Readable
<1> QED
    BY <1>1, <1>2, <1>3, <1>5

\* From here on the old segments do not count.
LEMMA DropIndexStep ==
    ASSUME Inv, DropIndex
    PROVE  FilesInv'
<1>1. /\ UNCHANGED <<shared, segs, tmp, next, old>> /\ pc = "reindex" /\ pc' = "unlink"
      /\ index' = Rewritten /\ published' = Rewritten /\ TypeOK
    BY DEF DropIndex, Inv
<1>2. shared /\ IsFiles(index') /\ index' # NoIndex /\ Readable' /\ DOMAIN index' \cap old = {}
    BY <1>1, Reindexed
<1>3. TypeFiles'
    BY <1>1, <1>2 DEF TypeOK, TypeFiles
<1>4. Numbered' /\ Published' /\ Inventoried' /\ Copied' /\ Removing'
    BY <1>1, <1>2 DEF Inv, Numbered, Published, Inventoried, Copied, Removing, Recording
<1> QED
    BY <1>2, <1>3, <1>4 DEF FilesInv

\* An old segment is removed.
LEMMA DropUnlinkStep ==
    ASSUME Inv, DropUnlink
    PROVE  FilesInv' /\ \A n \in DOMAIN segs' : n \in DOMAIN segs /\ segs'[n] = segs[n]
<1> DEFINE m == NextToGo(old)
<1>1. /\ UNCHANGED <<shared, tmp, index, pc, next, published>> /\ pc = "unlink" /\ old # {}
      /\ segs' = Without(segs, {m}) /\ old' = old \ {m} /\ TypeOK /\ Removing
    BY DEF DropUnlink, Inv
<1>2. m \in old /\ IsFiniteSet(old)
    BY <1>1, GoingIs DEF Removing
<1> HIDE DEF m
<1>3. /\ IsFiles(segs') /\ DOMAIN segs' = DOMAIN segs \ {m}
      /\ \A n \in DOMAIN segs \ {m} : segs'[n] = segs[n]
    BY <1>1, WithoutIs DEF TypeOK
<1>4. IsFiniteSet(old')
    BY <1>1, <1>2, FS_RemoveElement
<1>5. TypeFiles'
    BY <1>1, <1>3 DEF TypeOK, TypeFiles
<1>6. Readable'
    <2>1. ASSUME shared PROVE index # NoIndex /\ Committed = index /\ Committed' = Committed
        BY <1>1, <2>1 DEF Inv, Inventoried, Committed
    <2>2. ASSUME shared, NEW n \in DOMAIN Committed
          PROVE  n \in DOMAIN segs' /\ segs'[n] = Committed[n]
        <3>1. n \notin old
            BY <1>1, <2>1, <2>2 DEF Removing
        <3>2. n \in DOMAIN segs /\ segs[n] = Committed[n]
            BY <2>2 DEF Inv, Readable
        <3> QED
            BY <1>2, <1>3, <3>1, <3>2
    <2> QED
        BY <1>1, <2>1, <2>2 DEF Readable
<1>7. Numbered' /\ Published' /\ Inventoried' /\ Copied' /\ Removing'
    BY <1>1, <1>3, <1>4 DEF Inv, Numbered, Published, Inventoried, Copied, Removing, Recording
<1> QED
    BY <1>3, <1>5, <1>6, <1>7 DEF FilesInv

\* All are removed.
LEMMA DropEndStep ==
    ASSUME Inv, DropEnd
    PROVE  FilesInv'
<1>1. /\ UNCHANGED <<shared, segs, tmp, index, published, old>> /\ next' = After(segs)
      /\ TypeOK /\ Readable /\ IsFiniteSet(old)
    BY DEF DropEnd, disk, Inv, Removing
<1>2. pc' = "exit"
    BY <1>1, Proceeding DEF DropEnd, Inv, Resting
<1>3. After(segs) \in Nat
    BY <1>1, AfterIs DEF TypeOK
<1>4. Committed' = Committed
    BY <1>1 DEF Committed
<1>5. TypeFiles' /\ Readable'
    BY <1>1, <1>3, <1>4 DEF TypeOK, TypeFiles, Readable
<1>6. Numbered' /\ Published' /\ Inventoried' /\ Copied' /\ Removing'
    BY <1>1, <1>2 DEF Numbered, Published, Inventoried, Copied, Removing, Recording
<1> QED
    BY <1>5, <1>6 DEF FilesInv

\* A file operation of drop fails, with or without the index in place.
LEMMA DropFailsStep ==
    ASSUME Inv, DropFails
    PROVE  FilesInv'
<1>1. /\ UNCHANGED <<shared, segs, tmp, next, published, old>> /\ pc' = "exit"
      /\ index' = index \/ (pc = "reindex" /\ index' = Rewritten)
      /\ TypeOK /\ IsFiniteSet(old)
    BY DEF DropFails, memory, Inv, Removing
<1>2. Numbered' /\ Published' /\ Inventoried' /\ Copied' /\ Removing'
    BY <1>1 DEF Numbered, Published, Inventoried, Copied, Removing, Recording
<1>3. CASE index' = index
    <2>1. Committed' = Committed
        BY <1>1, <1>3 DEF Committed
    <2> QED
        BY <1>1, <1>2, <1>3, <2>1 DEF Inv, TypeOK, FilesInv, TypeFiles, Readable
<1>4. CASE pc = "reindex" /\ index' = Rewritten
    <2>1. IsFiles(index') /\ Readable'
        BY <1>1, <1>4, Reindexed
    <2>2. TypeFiles'
        BY <1>1, <2>1 DEF TypeOK, TypeFiles
    <2> QED
        BY <1>2, <2>1, <2>2 DEF FilesInv
<1> QED
    BY <1>1, <1>3, <1>4

\* Every step leaves the files as the invariant says.
LEMMA FilesKept == Inv /\ Next => FilesInv'
<1> SUFFICES ASSUME Inv, Next PROVE FilesInv'
    OBVIOUS
<1>1. TypeOK
    BY DEF Inv
<1>2. ASSUME NEW S \in SUBSET Task, NEW fresh \in BOOLEAN, Start(S, fresh) PROVE FilesInv'
    <2>1. pc' \in {"discard", "restore"} /\ UNCHANGED <<disk, next, published, old>>
        BY <1>2 DEF Start
    <2> QED
        BY <2>1, QuietStep DEF Recording
<1>3. CASE End
    BY <1>3, EndStep
<1>4. CASE Restore
    BY <1>4, RestoreStep
<1>5. ASSUME NEW t \in Task, NEW i \in Idx, NEW v \in Trace, NEW full \in BOOLEAN,
             Record(t, i, v, full)
      PROVE  FilesInv'
    <2>1. pc = "run" /\ pc' \in {"run", "write"} /\ UNCHANGED <<disk, next, published, old>>
        BY <1>5 DEF Record, AppendEntry
    <2> QED
        BY <2>1, QuietStep DEF Recording
<1>6. ASSUME NEW full \in BOOLEAN, RecordRest(full) PROVE FilesInv'
    <2>1. pc = "run" /\ pc' \in {"run", "write"} /\ UNCHANGED <<disk, next, published, old>>
        BY <1>6 DEF RecordRest, AppendEntry
    <2> QED
        BY <2>1, QuietStep DEF Recording
<1>7. ASSUME Flush \/ (\E next_ \in {"exit", "discard"} : Close(next_)) PROVE FilesInv'
    <2>1. pc = "run" /\ pc' = "write" /\ UNCHANGED <<disk, next, published, old>>
        BY <1>7 DEF Flush, Close, memory
    <2> QED
        BY <2>1, QuietStep DEF Recording
<1>8. CASE WriteNothing
    <2>1. pc = "write" /\ Proceed /\ UNCHANGED <<disk, next, published, old>>
        BY <1>8 DEF WriteNothing, memory
    <2>2. pc' \in {"run", "exit", "discard"}
        BY <1>1, <2>1, Proceeding
    <2> QED
        BY <2>1, <2>2, QuietStep DEF Recording
<1>9. CASE InitializeInventory
    BY <1>9, InventoryStep
<1>10. CASE WriteTmp
    BY <1>10, WriteTmpStep
<1>11. CASE RenameSegment
    BY <1>11, RenameStep
<1>12. CASE WriteIndex
    BY <1>12, WriteIndexStep
<1>13. CASE WriteFails
    BY <1>13, WriteFailsStep
<1>14. CASE DropBuffer
    <2>1. pc' = "drop" /\ UNCHANGED <<disk, next, published, old>>
        BY <1>14 DEF DropBuffer
    <2> QED
        BY <2>1, QuietStep DEF Recording
<1>15. CASE DropNothing
    BY <1>15, DropNothingStep
<1>16. CASE DropCopy
    BY <1>16, DropCopyStep
<1>17. CASE DropSwap
    BY <1>17, DropSwapStep
<1>18. CASE DropIndex
    BY <1>18, DropIndexStep
<1>19. CASE DropUnlink
    BY <1>19, DropUnlinkStep
<1>20. CASE DropEnd
    BY <1>20, DropEndStep
<1>21. CASE DropFails
    BY <1>21, DropFailsStep
<1> QED
    BY <1>2, <1>3, <1>4, <1>5, <1>6, <1>7, <1>8, <1>9, <1>10, <1>11, <1>12, <1>13, <1>14, <1>15,
       <1>16, <1>17, <1>18, <1>19, <1>20, <1>21 DEF Next, Exit, Crash

\* Writing moves entries to the files and loses none.
LEMMA KnownWritten ==
    ASSUME Inv, RenameSegment \/ WriteIndex
    PROVE  Known' = Known
<1>1. TypeOK /\ <<>> \in Seq(Entry) /\ buffer \in Seq(Entry)
    BY DEF Inv, TypeOK
<1>2. EntriesOf(Written) \in Seq(Entry) /\ IsFiles(Written)
    BY <1>1, CommittedTyped
<1>3. ASSUME buffer' = <<>>, EntriesOf(Written)' = EntriesOf(Written) \o buffer
      PROVE  Known' = Known
    <2> DEFINE es == EntriesOf(Written)
    <2>1. Known' = (es \o buffer) \o <<>> /\ Known = es \o buffer
        BY <1>3 DEF Known
    <2> HIDE DEF es
    <2>2. es \o buffer \in Seq(Entry)
        BY <1>1, <1>2 DEF es
    <2> QED
        BY <2>1, <2>2
<1>4. CASE RenameSegment
    <2>1. CASE shared
        <3>1. UNCHANGED <<shared, published, buffer>>
            BY <1>4, <2>1 DEF RenameSegment
        <3>2. Written' = Written
            BY <2>1, <3>1 DEF Written
        <3> QED
            BY <3>1, <3>2 DEF Known
    <2>2. CASE ~shared
        <3>1. /\ segs' = WithSegment(next, tmp) /\ buffer' = <<>> /\ shared' = shared
              /\ tmp = buffer /\ pc = "rename"
            BY <1>4, <2>2, RenameStep DEF RenameSegment
        <3>2. next \in Nat /\ IsFiles(segs) /\ \A n \in DOMAIN segs : n < next
            BY <3>1 DEF Inv, TypeOK, Numbered, Recording
        <3>3. segs' = WithOne(segs, next, buffer)
            BY <1>1, <3>1, <3>2, SegmentAdded
        <3>4. Written = segs /\ Written' = segs'
            BY <2>2, <3>1 DEF Written
        <3>5. EntriesOf(WithOne(segs, next, buffer)) = EntriesOf(segs) \o buffer
            BY <1>1, <3>2, EntriesAppended
        <3> QED
            BY <1>3, <3>1, <3>3, <3>4, <3>5
    <2> QED
        BY <2>1, <2>2
<1>5. CASE WriteIndex
    <2>1. published' = WithNewest /\ buffer' = <<>> /\ shared' = shared /\ pc = "index"
        BY <1>5 DEF WriteIndex
    <2>2. shared /\ WithNewest = WithOne(published, next - 1, buffer)
        BY <2>1, NewestThere
    <2>3. next - 1 \in Nat /\ IsFiles(published) /\ \A n \in DOMAIN published : n < next - 1
        BY <1>1, <2>1 DEF Inv, TypeOK, Copied
    <2>4. Written = published /\ Written' = published'
        BY <2>1, <2>2 DEF Written
    <2>5. EntriesOf(WithOne(published, next - 1, buffer)) = EntriesOf(published) \o buffer
        BY <1>1, <2>3, EntriesAppended
    <2> QED
        BY <1>3, <2>1, <2>2, <2>4, <2>5
<1> QED
    BY <1>4, <1>5

\* The process reads every trace as the next reader will.
LEMMA RestoreInStep ==
    ASSUME Inv, Restore
    PROVE  /\ \A t \in recording' : LastTrace(Known)'[t] = trace'[t]
           /\ Known' = EntriesOf(Committed) \o buffer'
<1> DEFINE es == EntriesOf(Committed)
           S == {t \in active : ~HasHeader(es, t)}
<1>1. /\ LoadSegments /\ UNCHANGED <<shared, index>> /\ recording' = active
      /\ trace' = RestoredTrace(es) /\ buffer' \in SetToSeqs({Header(t) : t \in S})
      /\ TypeOK /\ Readable /\ active \in SUBSET Task
    BY DEF Restore, Load, Inv, TypeOK
<1>2. es \in Seq(Entry)
    BY <1>1, CommittedTyped
<1>3. ~shared => segs' = segs
    BY <1>1, Loading
<1>4. shared => published' = Committed
    BY <1>1, Loading
<1>5. Written' = Committed
    BY <1>1, <1>3, <1>4 DEF Written, Committed
<1>6. Known' = es \o buffer'
    BY <1>5 DEF Known
<1>7. \A h \in {Header(t) : t \in S} : h \notin Range(es)
    BY DEF HasHeader
<1>8. S \in SUBSET Task
    BY <1>1
<1> HIDE DEF es, S
<1>9. /\ buffer' \in Seq(Entry)
      /\ \A k \in 1 .. Len(buffer') :
            /\ buffer'[k] \in {Header(t) : t \in S} /\ buffer'[k].kind = "header"
            /\ \A l \in 1 .. Len(buffer') : k # l => buffer'[k] # buffer'[l]
    BY <1>1, <1>8, HeadersAre
<1> DEFINE hs == buffer'
<1>10. /\ hs \in Seq(Entry)
       /\ \A k \in 1 .. Len(hs) :
             /\ hs[k].kind = "header" /\ hs[k] \notin Range(es)
             /\ \A l \in 1 .. Len(hs) : k # l => hs[k] # hs[l]
    BY <1>7, <1>9
<1> HIDE DEF hs
<1>11. ASSUME NEW t \in active PROVE LastTrace(Known)'[t] = trace'[t]
    <2>1. t \in Task
        BY <1>1
    <2>2. TraceAt(es \o hs, Len(es \o hs), t) = TraceAt(es, Len(es), t)
        BY <1>2, <1>10, <2>1, TraceHeaders
    <2>3. LastTrace(Known)'[t] = TraceAt(es \o hs, Len(es \o hs), t)
        BY <1>6, <2>1 DEF LastTrace, hs
    <2>4. LastTrace(es)[t] = TraceAt(es, Len(es), t)
        BY <2>1 DEF LastTrace
    <2>5. trace'[t] = LastTrace(es)[t]
        BY <1>1, <2>1 DEF RestoredTrace
    <2> QED
        BY <2>2, <2>3, <2>4, <2>5
<1> QED
    BY <1>1, <1>6, <1>11 DEF es

\* A step that leaves what is known, and the traces of the tasks still recorded.
LEMMA KnownKept ==
    ASSUME Inv, Known' = Known, Recording' => Recording, recording' \subseteq recording,
           trace' = trace,
           \A t \in recording' : entering # None /\ entering.task = t => entering' = entering,
           entering' \in {entering, None}
    PROVE  InStep'
<1> SUFFICES ASSUME Recording', NEW t \in recording'
             PROVE  LastTrace(Known)'[t] =
                        IF entering' # None /\ entering'.task = t
                        THEN entering'.trace ELSE trace'[t]
    BY DEF InStep
<1>1. LastTrace(Known)[t] =
          IF entering # None /\ entering.task = t THEN entering.trace ELSE trace[t]
    BY DEF Inv, InStep
<1>2. LastTrace(Known)' = LastTrace(Known)
    BY DEF LastTrace
<1>3. entering' # None /\ entering'.task = t => entering' = entering
    OBVIOUS
<1> QED
    BY <1>1, <1>2, <1>3

\* What is known is what the files and the buffer say.
LEMMA KnownSame ==
    ASSUME UNCHANGED <<shared, segs, published, buffer>>
    PROVE  Known' = Known
BY DEF Known, Written

\* An entry of a task leaves the traces of the other tasks.
LEMMA EntryKnown ==
    ASSUME Inv, NEW t \in Task, NEW e \in Entry, NEW full \in BOOLEAN, AppendEntry(t, e, full),
           UNCHANGED disk, published' = published, NEW u \in Task
    PROVE  /\ e.task # u \/ e.kind = "result" => LastTrace(Known)'[u] = LastTrace(Known)[u]
           /\ e.task = u /\ e.kind = "trace" => LastTrace(Known)'[u] = e.trace
<1>1. TypeOK
    BY DEF Inv
<1>2. Known \in Seq(Entry)
    BY <1>1, CommittedTyped
<1>3. Known' = Append(Known, e)
    BY <1>1, AppendTyped DEF disk
<1> DEFINE es == Known
<1>4. /\ LastTrace(Known)'[u] = TraceAt(Append(es, e), Len(Append(es, e)), u)
      /\ LastTrace(Known)[u] = TraceAt(es, Len(es), u)
    BY <1>3 DEF LastTrace
<1>5. es \in Seq(Entry)
    BY <1>2
<1> HIDE DEF es
<1>6. /\ e.task # u \/ e.kind = "result" =>
            TraceAt(Append(es, e), Len(Append(es, e)), u) = TraceAt(es, Len(es), u)
      /\ e.task = u /\ e.kind = "trace" =>
            TraceAt(Append(es, e), Len(Append(es, e)), u) = e.trace
    BY <1>5, TraceAppended
<1> QED
    BY <1>4, <1>6

\* The process and the reader agree after a record, or will after its rest.
LEMMA RecordInStep ==
    ASSUME Inv, NEW t \in Task, NEW i \in Idx, NEW v \in Trace, NEW full \in BOOLEAN,
           Record(t, i, v, full)
    PROVE  InStep' /\ Entering'
<1>1. /\ pc = "run" /\ entering = None /\ UNCHANGED <<disk, recording, trace, published>>
      /\ TypeOK /\ recording \in SUBSET Task /\ Recording
    BY DEF Record, Inv, TypeOK, Recording
<1>2. \A u \in recording : LastTrace(Known)[u] = trace[u]
    BY <1>1 DEF Inv, InStep
<1>3. CASE v = trace[t]
    <2>1. AppendEntry(t, Result(t, i), full) /\ entering' = None
        BY <1>1, <1>3 DEF Record
    <2>2. ASSUME NEW u \in recording PROVE LastTrace(Known)'[u] = trace[u]
        BY <1>1, <1>2, <2>1, EntryOf, EntryKnown
    <2> QED
        BY <1>1, <2>1, <2>2 DEF InStep, Entering
<1>4. CASE v # trace[t]
    <2>1. /\ AppendEntry(t, DefaultTrace(t, v), full)
          /\ entering' = [task |-> t, idx |-> i, trace |-> v]
        BY <1>4 DEF Record
    <2>2. entering'.task = t /\ entering'.trace = v /\ entering' # None
        BY <2>1, StoreAssumption
    <2>3. ASSUME NEW u \in recording
          PROVE  LastTrace(Known)'[u] = IF t = u THEN v ELSE trace[u]
        <3>1. /\ DefaultTrace(t, v) \in Entry /\ DefaultTrace(t, v).task = t
              /\ DefaultTrace(t, v).kind = "trace" /\ DefaultTrace(t, v).trace = v
            BY EntryOf
        <3>2. u \in Task
            BY <1>1
        <3> QED
            BY <1>1, <1>2, <2>1, <3>1, <3>2, EntryKnown
    <2>4. InStep'
        BY <1>1, <2>2, <2>3 DEF InStep
    <2>5. (then' \in Task => then' = t) /\ pc' \in {"run", "write"}
        BY StoreAssumption, <2>1 DEF AppendEntry
    <2> QED
        BY <2>2, <2>4, <2>5 DEF Entering
<1> QED
    BY <1>3, <1>4

\* The second entry of a record leaves the trace the first one set.
LEMMA RestInStep ==
    ASSUME Inv, NEW full \in BOOLEAN, RecordRest(full)
    PROVE  InStep' /\ Entering'
<1> DEFINE t == entering.task
           e == Result(entering.task, entering.idx)
<1>1. /\ pc = "run" /\ entering # None /\ UNCHANGED <<disk, recording, published>>
      /\ trace' = [trace EXCEPT ![t] = entering.trace] /\ AppendEntry(t, e, full)
      /\ entering' = None
      /\ TypeOK /\ recording \in SUBSET Task /\ trace \in [Task -> Trace] /\ Recording
      /\ entering \in [task : Task, idx : Idx, trace : Trace]
    BY DEF RecordRest, Inv, TypeOK, Recording
<1>2. t \in Task /\ entering.idx \in Idx
    BY <1>1
<1>3. e \in Entry /\ e.task = t /\ e.kind = "result"
    BY <1>2, EntryOf
<1> HIDE DEF t, e
<1>4. ASSUME NEW u \in recording PROVE LastTrace(Known)'[u] = trace'[u]
    <2>1. LastTrace(Known)[u] = IF t = u THEN entering.trace ELSE trace[u]
        BY <1>1 DEF Inv, InStep, t
    <2>2. u \in Task
        BY <1>1
    <2>3. LastTrace(Known)'[u] = LastTrace(Known)[u]
        BY <1>1, <1>2, <1>3, <2>2, EntryKnown
    <2> QED
        BY <1>1, <1>2, <2>1, <2>2, <2>3
<1> QED
    BY <1>1, <1>4 DEF InStep, Entering

\* Every step keeps the process and the reader agreed.
LEMMA InStepKept == Inv /\ Next => InStep' /\ Entering' /\ Resting'
<1> SUFFICES ASSUME Inv, Next PROVE InStep' /\ Entering' /\ Resting'
    OBVIOUS
<1>1. TypeOK /\ Resting /\ Entering
    BY DEF Inv
<1>2. {"exit", "run", "discard"} \cap Task = {}
    BY StoreAssumption
<1>3. ASSUME ~Recording', pc' \in {"off", "restore"} => entering' = None,
             then' = then \/ then' = "exit", entering' = entering \/ entering' = None
      PROVE  InStep' /\ Entering'
    BY <1>1, <1>2, <1>3 DEF InStep, Entering
<1>4. ASSUME NEW S \in SUBSET Task, NEW fresh \in BOOLEAN, Start(S, fresh)
      PROVE  InStep' /\ Entering' /\ Resting'
    <2>1. pc = "off" /\ pc' \in {"discard", "restore"} /\ then' = then /\ entering' = None
        BY <1>1, <1>4 DEF Start, Entering
    <2> QED
        BY <1>1, <1>3, <2>1 DEF Recording, Resting
<1>5. CASE End
    <2>1. pc' = "off" /\ then' = "exit" /\ entering' = None
        BY <1>5 DEF End
    <2> QED
        BY <1>3, <2>1 DEF Recording, Resting
<1>6. CASE Restore
    <2>1. pc = "restore" /\ pc' = "run" /\ then' = then /\ entering' = None
        BY <1>1, <1>6 DEF Restore, Entering
    <2>2. then' = "exit"
        BY <1>1, <2>1 DEF Resting
    <2>3. Entering' /\ Resting'
        BY <1>2, <2>1, <2>2 DEF Entering, Resting
    <2>4. InStep'
        BY <1>6, <2>1, RestoreInStep DEF InStep
    <2> QED
        BY <2>3, <2>4
<1>7. ASSUME NEW t \in Task, NEW i \in Idx, NEW v \in Trace, NEW full \in BOOLEAN,
             Record(t, i, v, full)
      PROVE  InStep' /\ Entering' /\ Resting'
    <2>1. Resting'
        BY <1>7 DEF Record, AppendEntry, Resting
    <2> QED
        BY <1>7, <2>1, RecordInStep
<1>8. ASSUME NEW full \in BOOLEAN, RecordRest(full) PROVE InStep' /\ Entering' /\ Resting'
    <2>1. Resting'
        BY <1>8 DEF RecordRest, AppendEntry, Resting
    <2> QED
        BY <1>8, <2>1, RestInStep
<1>9. ASSUME Flush \/ (\E next_ \in {"exit", "discard"} : Close(next_))
      PROVE  InStep' /\ Entering' /\ Resting'
    <2>1. /\ pc = "run" /\ pc' = "write" /\ then' \in {"run", "exit", "discard"}
          /\ UNCHANGED <<disk, published, buffer, recording, trace, entering>>
        BY <1>9 DEF Flush, Close, memory
    <2>2. Known' = Known
        BY <2>1, KnownSame DEF disk
    <2>3. InStep'
        BY <2>1, <2>2, KnownKept DEF Recording
    <2> QED
        BY <1>2, <2>1, <2>3 DEF Entering, Resting
<1>10. ASSUME Proceed, Known' = Known, Recording, UNCHANGED <<recording, trace, entering>>
       PROVE  InStep' /\ Entering' /\ Resting'
    <2>1. then' = "exit" /\ InStep' /\ pc' \in {"run", "exit", "discard"}
        BY <1>1, <1>10, KnownKept, Proceeding DEF Proceed
    <2> QED
        BY <1>2, <2>1 DEF Entering, Resting
<1>11. ASSUME Recording, Known' = Known, UNCHANGED <<then, recording, trace, entering>>,
              pc' \in {"write", "rename", "index"}
       PROVE  InStep' /\ Entering' /\ Resting'
    <2>1. InStep'
        BY <1>11, KnownKept
    <2> QED
        BY <1>1, <1>11, <2>1 DEF Entering, Resting
<1>12. CASE WriteNothing
    BY <1>10, <1>12, KnownSame DEF WriteNothing, disk, memory, Recording
<1>13. CASE InitializeInventory \/ WriteTmp
    <2>1. /\ pc = "write" /\ pc' \in {"write", "rename"}
          /\ UNCHANGED <<shared, segs, published, buffer, then, recording, trace, entering>>
        BY <1>13 DEF InitializeInventory, WriteTmp, memory
    <2> QED
        BY <1>11, <2>1, KnownSame DEF Recording
<1>14. CASE RenameSegment
    <2>1. pc = "rename" /\ Known' = Known /\ UNCHANGED <<recording, trace, entering>>
        BY <1>14, KnownWritten DEF RenameSegment
    <2>2. CASE shared
        BY <1>11, <1>14, <2>1, <2>2 DEF RenameSegment, Recording
    <2>3. CASE ~shared
        BY <1>10, <1>14, <2>1, <2>3 DEF RenameSegment, Recording
    <2> QED
        BY <2>2, <2>3
<1>15. CASE WriteIndex
    BY <1>10, <1>15, KnownWritten DEF WriteIndex, Recording
<1>16. CASE WriteFails
    <2>1. /\ pc \in {"write", "rename", "index"}
          /\ pc' \in {"run", "exit", "discard"} /\ then' = "exit"
          /\ UNCHANGED <<shared, segs, published, buffer, trace>>
          /\ recording' = recording \ {then}
          /\ entering' = IF then \in Task THEN None ELSE entering
        BY <1>1, <1>16, Proceeding DEF WriteFails
    <2>2. Known' = Known
        BY <2>1, KnownSame
    <2>3. ASSUME NEW t \in recording', entering # None, entering.task = t
          PROVE  entering' = entering
        BY <1>1, <2>1, <2>3 DEF Entering
    <2>4. InStep'
        BY <2>1, <2>2, <2>3, KnownKept DEF Recording
    <2> QED
        BY <1>2, <2>1, <2>4 DEF Entering, Resting
<1>17. CASE DropBuffer \/ DropCopy \/ DropSwap \/ DropIndex \/ DropUnlink
    <2>1. /\ pc \in {"discard", "drop", "swap", "reindex", "unlink"}
          /\ pc' \in {"drop", "swap", "reindex", "unlink"}
          /\ then' = then /\ entering' = entering
        BY <1>17 DEF DropBuffer, DropCopy, DropSwap, DropIndex, DropUnlink
    <2> QED
        BY <1>1, <1>3, <2>1 DEF Recording, Resting
<1>18. CASE DropNothing \/ DropEnd
    <2>1. pc \in {"drop", "unlink"} /\ Proceed /\ entering' = entering
        BY <1>18 DEF DropNothing, DropEnd
    <2>2. pc' = "exit" /\ then' = "exit"
        BY <1>1, <2>1, Proceeding DEF Resting
    <2> QED
        BY <1>3, <2>1, <2>2 DEF Recording, Resting
<1>19. CASE DropFails
    <2>1. pc' = "exit" /\ then' = "exit" /\ entering' = entering
        BY <1>19 DEF DropFails, memory
    <2> QED
        BY <1>3, <2>1 DEF Recording, Resting
<1> QED
    BY <1>4, <1>5, <1>6, <1>7, <1>8, <1>9, <1>12, <1>13, <1>14, <1>15, <1>16, <1>17, <1>18, <1>19
    DEF Next, Exit, Crash

-----------------------------------------------------------------------------
(* The theorems.                                                           *)

\* The invariant holds at first.
LEMMA InitHolds == Init => Inv
<1> SUFFICES ASSUME Init PROVE Inv
    OBVIOUS
<1>1. /\ MaxRuns \in Nat /\ MaxFaults \in Nat /\ NoTrace \in Trace /\ IsFiniteSet({})
      /\ IsFiles(NoFiles) /\ DOMAIN NoFiles = {} /\ "off" \in PCs
    BY StoreAssumption, NoFilesIs, FS_EmptySet DEF PCs
<1>2. [t \in Task |-> NoTrace] \in [Task -> Trace] /\ <<>> \in Seq(Entry)
    BY <1>1
<1>3. TypeOK
    BY <1>1, <1>2 DEF Init, TypeOK
<1>4. Readable
    BY <1>1 DEF Init, Readable, Committed
<1>5. Resting /\ Numbered /\ Published /\ Inventoried /\ Copied /\ Removing /\ InStep /\ Entering
    BY <1>1 DEF Init, Resting, Numbered, Published, Inventoried, Copied, Removing, InStep,
                Entering, Recording
<1> QED
    BY <1>3, <1>4, <1>5 DEF Inv

\* Every step keeps it.
LEMMA StepKeeps == Inv /\ [Next]_vars => Inv'
<1> SUFFICES ASSUME Inv, [Next]_vars PROVE Inv'
    OBVIOUS
<1>1. CASE Next
    <2>1. TypeRest' /\ FilesInv' /\ InStep' /\ Entering' /\ Resting'
        BY <1>1, RestTyped, FilesKept, InStepKept
    <2>2. TypeOK'
        BY <2>1 DEF FilesInv, TypeRest, TypeFiles, TypeOK
    <2> QED
        BY <2>1, <2>2 DEF FilesInv, Inv
<1>2. CASE UNCHANGED vars
    <2>1. UNCHANGED <<shared, segs, tmp, index, pc, then, active, recording, trace, entering,
                      buffer, next, published, old, runs, faults>>
        BY <1>2 DEF vars, disk, memory
    <2>2. TypeOK' /\ Readable'
        BY <2>1 DEF Inv, TypeOK, Readable, Committed
    <2>3. Resting' /\ Numbered' /\ Published' /\ Inventoried' /\ Copied' /\ Removing' /\ Entering'
        BY <2>1 DEF Inv, Resting, Numbered, Published, Inventoried, Copied, Removing, Entering,
                    Recording
    <2>4. InStep'
        BY <2>1, KnownSame, KnownKept DEF Recording
    <2> QED
        BY <2>2, <2>3, <2>4 DEF Inv
<1> QED
    BY <1>1, <1>2

\* The invariant holds in every state, whatever is killed and fails.
THEOREM Inductive == Spec => []Inv
<1>1. Init => Inv
    BY InitHolds
<1>2. Inv /\ [Next]_vars => Inv'
    BY StepKeeps
<1> QED
    BY <1>1, <1>2, PTL DEF Spec

\* Every variable keeps its type.
THEOREM TypeCorrect == Spec => []TypeOK
<1>1. Inv => TypeOK
    BY DEF Inv
<1> QED
    BY <1>1, Inductive, PTL

\* No attempt is refused for what another left: at every kill and after every
\* failed file operation the index names only segments that are there, with
\* the contents they were written with.
THEOREM RunsNeverRefused == Spec => []NeverRefused
<1>1. Inv => NeverRefused
    BY DEF Inv, NeverRefused
<1> QED
    BY <1>1, Inductive, PTL

\* The trace a running process leaves out of an entry is the one a reader of all
\* it has written and will write goes by: also after a resume, a failed write,
\* and behind the prefix that an interrupted drop left.
THEOREM ReaderInStep == Spec => []TraceInStep
<1>1. Inv => TraceInStep
    BY DEF Inv, InStep, TraceInStep, Recording
<1> QED
    BY <1>1, Inductive, PTL

\* A step leaves the contents of the segments it leaves.
LEMMA StepLeavesSegments ==
    ASSUME Inv, [Next]_vars, NEW n \in DOMAIN segs, n \in DOMAIN segs'
    PROVE  segs'[n] = segs[n]
<1>1. TypeOK /\ Readable
    BY DEF Inv
<1>2. CASE Restore \/ DropNothing \/ DropCopy
    <2>1. LoadSegments /\ UNCHANGED <<shared, index>>
        BY <1>2 DEF Restore, DropNothing, DropCopy, Load
    <2> QED
        BY <1>1, <2>1, Loading
<1>3. CASE RenameSegment
    <2>1. next \notin DOMAIN segs /\ segs' = WithSegment(next, tmp)
        BY <1>3, RenameStep DEF RenameSegment
    <2> QED
        BY <2>1 DEF WithSegment
<1>4. CASE DropSwap
    BY <1>4, DropSwapStep
<1>5. CASE DropUnlink
    BY <1>5, DropUnlinkStep
<1>6. CASE segs' = segs
    BY <1>6
<1>7. \/ Restore \/ DropNothing \/ DropCopy \/ RenameSegment \/ DropSwap \/ DropUnlink
      \/ segs' = segs
    BY DEF Next, Start, Exit, Crash, End, Record, RecordRest, Flush, Close, WriteNothing,
           InitializeInventory, WriteTmp, WriteIndex, WriteFails, DropBuffer, DropIndex, DropEnd,
           DropFails, vars, disk
<1> QED
    BY <1>2, <1>3, <1>4, <1>5, <1>6, <1>7

\* A file name of the stream is used once: no retry after a failed write, and no
\* attempt after an interrupted one, changes what a segment contains.
THEOREM NamesUsedOnce == Spec => SegmentsWrittenOnce
<1>1. Inv /\ [Next]_vars
          => [\A n \in DOMAIN segs : n \in DOMAIN segs' => segs'[n] = segs[n]]_vars
    BY StepLeavesSegments
<1> QED
    BY <1>1, Inductive, PTL DEF Spec, SegmentsWrittenOnce

-----------------------------------------------------------------------------
(* What a reader makes of the entries.                                     *)

\* Of the records of an instance some one counts.
LEMMA DecodedIs ==
    ASSUME NEW es \in Seq(Entry), NEW t \in Task, NEW i \in Idx
    PROVE  /\ (\A j \in 1 .. Len(es) : es[j] # Result(t, i)) => DecodedAt(es, t, i) = Absent
           /\ (\E j \in 1 .. Len(es) : es[j] = Result(t, i)) =>
                 /\ \E j \in 1 .. Len(es) : /\ es[j] = Result(t, i)
                                            /\ DecodedAt(es, t, i) = TraceAt(es, j, t)
                 /\ DecodedAt(es, t, i) \in Trace /\ DecodedAt(es, t, i) # Absent
<1> DEFINE here == {j \in DOMAIN es : es[j] = Result(t, i)}
<1>1. DecodedAt(es, t, i) = IF here = {} THEN Absent ELSE TraceAt(es, Max(here), t)
    BY DEF DecodedAt
<1>2. DOMAIN es = 1 .. Len(es) /\ Len(es) \in Nat
    OBVIOUS
<1>3. ASSUME here # {} PROVE Max(here) \in here
    <2>1. IsFiniteSet(here)
        <3>1. here \subseteq 1 .. Len(es)
            BY <1>2
        <3> QED
            BY <1>2, <3>1, Interval, FS_Subset
    <2>2. here \in SUBSET Nat
        BY <1>2
    <2> HIDE DEF here
    <2> QED
        BY <1>3, <2>1, <2>2, MaxIs
<1>4. ASSUME NEW j \in 1 .. Len(es), es[j] = Result(t, i)
      PROVE  /\ \E k \in 1 .. Len(es) : /\ es[k] = Result(t, i)
                                         /\ DecodedAt(es, t, i) = TraceAt(es, k, t)
             /\ DecodedAt(es, t, i) \in Trace
    <2>1. j \in here
        BY <1>2, <1>4
    <2> DEFINE k == Max(here)
    <2>2. k \in 1 .. Len(es) /\ es[k] = Result(t, i)
        BY <1>2, <1>3, <2>1
    <2>3. DecodedAt(es, t, i) = TraceAt(es, k, t)
        BY <1>1, <2>1
    <2> HIDE DEF k
    <2>4. k \in 0 .. Len(es)
        BY <1>2, <2>2
    <2>5. TraceAt(es, k, t) \in Trace
        BY <2>4, TraceTyped
    <2> QED
        BY <2>2, <2>3, <2>5
<1>5. ASSUME \A j \in 1 .. Len(es) : es[j] # Result(t, i) PROVE DecodedAt(es, t, i) = Absent
    <2>1. here = {}
        BY <1>2, <1>5
    <2> QED
        BY <1>1, <2>1
<1> QED
    BY <1>4, <1>5, StoreAssumption

\* The entries fs are the first of es.
Begins(fs, es) == Len(fs) <= Len(es) /\ \A j \in 1 .. Len(fs) : fs[j] = es[j]

\* The first entries have the traces they have among all.
LEMMA TraceBegins ==
    ASSUME NEW es \in Seq(Entry), NEW fs \in Seq(Entry), Begins(fs, es), NEW n \in 0 .. Len(fs),
           NEW t \in Task
    PROVE  TraceAt(es, n, t) = TraceAt(fs, n, t)
<1>1. Len(fs) \in Nat /\ Len(es) \in Nat /\ Len(fs) <= Len(es) /\ n \in Nat
    BY DEF Begins
<1>2. n \in n .. Len(es) /\ n + 1 .. n = {}
    BY <1>1
<1>3. ASSUME NEW j \in 1 .. n PROVE es[j] = fs[j]
    <2>1. j \in 1 .. Len(fs)
        BY <1>1
    <2> QED
        BY <2>1 DEF Begins
<1> QED
    BY <1>2, <1>3, TraceSilent

\* Entries that say nothing of an instance leave what is said of it.
LEMMA DecodedExtended ==
    ASSUME NEW es \in Seq(Entry), NEW fs \in Seq(Entry), Begins(es, fs),
           NEW t \in Task, NEW i \in Idx,
           \A k \in Len(es) + 1 .. Len(fs) : fs[k] # Result(t, i)
    PROVE  DecodedAt(fs, t, i) = DecodedAt(es, t, i)
<1> DEFINE H(s) == {j \in DOMAIN s : s[j] = Result(t, i)}
<1>1. /\ DecodedAt(es, t, i) = IF H(es) = {} THEN Absent ELSE TraceAt(es, Max(H(es)), t)
      /\ DecodedAt(fs, t, i) = IF H(fs) = {} THEN Absent ELSE TraceAt(fs, Max(H(fs)), t)
    BY DEF DecodedAt
<1>2. /\ DOMAIN es = 1 .. Len(es) /\ Len(es) \in Nat /\ DOMAIN fs = 1 .. Len(fs)
      /\ Len(fs) \in Nat /\ Len(es) <= Len(fs) /\ \A j \in 1 .. Len(es) : es[j] = fs[j]
    BY DEF Begins
<1>3. H(es) = H(fs)
    <2>1. ASSUME NEW j \in 1 .. Len(fs), j \notin 1 .. Len(es) PROVE fs[j] # Result(t, i)
        <3>1. j \in Len(es) + 1 .. Len(fs)
            BY <1>2, <2>1
        <3> QED
            BY <3>1
    <2>2. \A j \in 1 .. Len(es) : j \in 1 .. Len(fs)
        BY <1>2
    <2> QED
        BY <1>2, <2>1, <2>2
<1>4. ASSUME H(es) # {} PROVE Max(H(es)) \in 0 .. Len(es)
    <2>1. IsFiniteSet(H(es))
        <3>1. H(es) \subseteq 1 .. Len(es)
            BY <1>2
        <3> QED
            BY <1>2, <3>1, Interval, FS_Subset
    <2>2. H(es) \in SUBSET Nat /\ H(es) \in SUBSET (0 .. Len(es))
        BY <1>2
    <2> HIDE DEF H
    <2>3. Max(H(es)) \in H(es)
        BY <1>4, <2>1, <2>2, MaxIs
    <2> QED
        BY <2>2, <2>3
<1> HIDE DEF H
<1>5. H(es) # {} => TraceAt(fs, Max(H(es)), t) = TraceAt(es, Max(H(es)), t)
    BY <1>4, TraceBegins
<1> QED
    BY <1>1, <1>3, <1>5

\* Every entry is behind a header of its task, and what is recorded more than
\* once is the same each time.
Headed(es) == \A j \in 1 .. Len(es) : \E k \in 1 .. j : es[k] = Header(es[j].task)
Sound(es) ==
    /\ Headed(es)
    /\ \A j, k \in 1 .. Len(es) : es[j] = es[k] /\ es[j].kind = "result" =>
          TraceAt(es, j, es[j].task) = TraceAt(es, k, es[k].task)

\* So it does not matter which record counts.
LEMMA DecodedSound ==
    ASSUME NEW es \in Seq(Entry), Sound(es), NEW t \in Task, NEW i \in Idx,
           NEW j \in 1 .. Len(es), es[j] = Result(t, i)
    PROVE  DecodedAt(es, t, i) = TraceAt(es, j, t)
<1>1. PICK k \in 1 .. Len(es) : es[k] = Result(t, i) /\ DecodedAt(es, t, i) = TraceAt(es, k, t)
    BY DecodedIs
<1>2. es[j].task = t /\ es[k].task = t /\ es[j].kind = "result" /\ es[j] = es[k]
    BY <1>1, EntryOf
<1> QED
    BY <1>1, <1>2 DEF Sound

\* The first of sound entries are sound.
LEMMA SoundBegins ==
    ASSUME NEW es \in Seq(Entry), Sound(es), NEW fs \in Seq(Entry), Begins(fs, es)
    PROVE  Sound(fs)
<1>1. Len(fs) \in Nat /\ Len(es) \in Nat /\ Len(fs) <= Len(es)
    BY DEF Begins
<1>2. ASSUME NEW j \in 1 .. Len(fs)
      PROVE  /\ j \in 1 .. Len(es) /\ fs[j] = es[j] /\ fs[j].task \in Task
             /\ TraceAt(es, j, fs[j].task) = TraceAt(fs, j, fs[j].task)
    <2>1. j \in 1 .. Len(es) /\ fs[j] = es[j] /\ j \in 0 .. Len(fs) /\ fs[j] \in Entry
        BY <1>1 DEF Begins
    <2>2. fs[j].task \in Task
        BY <2>1, EntryIs
    <2> QED
        BY <2>1, <2>2, TraceBegins
<1>3. ASSUME NEW j \in 1 .. Len(fs) PROVE \E k \in 1 .. j : fs[k] = Header(fs[j].task)
    <2>1. PICK k \in 1 .. j : es[k] = Header(es[j].task)
        BY <1>2 DEF Sound, Headed
    <2>2. k \in 1 .. Len(fs)
        BY <1>1
    <2> QED
        BY <1>2, <2>1, <2>2
<1>4. ASSUME NEW j \in 1 .. Len(fs), NEW k \in 1 .. Len(fs), fs[j] = fs[k], fs[j].kind = "result"
      PROVE  TraceAt(fs, j, fs[j].task) = TraceAt(fs, k, fs[k].task)
    <2>1. TraceAt(es, j, es[j].task) = TraceAt(es, k, es[k].task)
        BY <1>2, <1>4 DEF Sound
    <2> QED
        BY <1>2, <2>1
<1> QED
    BY <1>3, <1>4 DEF Sound, Headed

\* More entries are sound if each has a header, and each record is the first.
LEMMA SoundExtended ==
    ASSUME NEW es \in Seq(Entry), Sound(es), NEW fs \in Seq(Entry), Begins(es, fs),
           \A k \in Len(es) + 1 .. Len(fs) :
               /\ fs[k].kind = "header" \/ HasHeader(es, fs[k].task)
               /\ fs[k].kind = "result" => \A l \in 1 .. Len(fs) : l # k => fs[l] # fs[k]
    PROVE  Sound(fs)
<1>1. Len(fs) \in Nat /\ Len(es) \in Nat /\ Len(es) <= Len(fs)
    BY DEF Begins
<1>2. ASSUME NEW j \in 1 .. Len(es)
      PROVE  /\ j \in 1 .. Len(fs) /\ fs[j] = es[j] /\ fs[j].task \in Task
             /\ TraceAt(fs, j, fs[j].task) = TraceAt(es, j, fs[j].task)
    <2>1. j \in 1 .. Len(fs) /\ fs[j] = es[j] /\ j \in 0 .. Len(es) /\ fs[j] \in Entry
        BY <1>1 DEF Begins
    <2>2. fs[j].task \in Task
        BY <2>1, EntryIs
    <2> QED
        BY <2>1, <2>2, TraceBegins
<1>3. \A j \in 1 .. Len(fs) : j \in 1 .. Len(es) \/ j \in Len(es) + 1 .. Len(fs)
    BY <1>1
<1>4. ASSUME NEW j \in 1 .. Len(fs) PROVE \E k \in 1 .. j : fs[k] = Header(fs[j].task)
    <2>1. CASE j \in 1 .. Len(es)
        <3>1. PICK k \in 1 .. j : es[k] = Header(es[j].task)
            BY <2>1 DEF Sound, Headed
        <3>2. k \in 1 .. Len(es)
            BY <1>1, <2>1
        <3> QED
            BY <1>2, <2>1, <3>1, <3>2
    <2>2. CASE j \in Len(es) + 1 .. Len(fs)
        <3>1. CASE fs[j].kind = "header"
            <4>1. fs[j] \in Entry /\ j \in 1 .. j
                BY <1>1
            <4>2. fs[j] = Header(fs[j].task)
                BY <3>1, <4>1, EntryIs
            <4> QED
                BY <4>1, <4>2
        <3>2. CASE HasHeader(es, fs[j].task)
            <4>1. PICK k \in 1 .. Len(es) : es[k] = Header(fs[j].task)
                BY <3>2 DEF HasHeader, Range
            <4>2. k \in 1 .. j
                BY <1>1, <2>2
            <4> QED
                BY <1>2, <4>1, <4>2
        <3> QED
            BY <2>2, <3>1, <3>2
    <2> QED
        BY <1>3, <2>1, <2>2
<1>5. ASSUME NEW j \in 1 .. Len(fs), NEW k \in 1 .. Len(fs), fs[j] = fs[k], fs[j].kind = "result"
      PROVE  TraceAt(fs, j, fs[j].task) = TraceAt(fs, k, fs[k].task)
    <2>1. CASE j = k
        BY <2>1
    <2>2. CASE j # k
        <3>1. j \in 1 .. Len(es) /\ k \in 1 .. Len(es)
            BY <1>3, <1>5, <2>2
        <3>2. TraceAt(es, j, es[j].task) = TraceAt(es, k, es[k].task)
            BY <1>2, <1>5, <3>1 DEF Sound
        <3> QED
            BY <1>2, <3>1, <3>2
    <2> QED
        BY <2>1, <2>2
<1> QED
    BY <1>4, <1>5 DEF Sound, Headed

\* The places of the other tasks' entries.
Place(es, S, k) == Nth({j \in DOMAIN es : es[j].task \notin S}, k)

\* The entries of the other tasks are at these places, in order, and all of them.
Placed(es, S) ==
    /\ Others(es, S) \in Seq(Entry) /\ Len(Others(es, S)) \in Nat
    /\ \A k \in 1 .. Len(Others(es, S)) :
          /\ Place(es, S, k) \in 1 .. Len(es)
          /\ Others(es, S)[k] = es[Place(es, S, k)] /\ es[Place(es, S, k)].task \notin S
    /\ \A k, l \in 1 .. Len(Others(es, S)) : k < l => Place(es, S, k) < Place(es, S, l)
    /\ \A j \in 1 .. Len(es) : es[j].task \notin S =>
          \E k \in 1 .. Len(Others(es, S)) : Place(es, S, k) = j

\* So it is with every stream.
LEMMA OthersAre ==
    ASSUME NEW es \in Seq(Entry), NEW S
    PROVE  Placed(es, S)
<1> DEFINE P == {j \in DOMAIN es : es[j].task \notin S}
           some == [k \in 1..Cardinality(P) |-> es[Nth(P, k)]]
<1>1. Len(es) \in Nat /\ DOMAIN es = 1..Len(es) /\ P \in SUBSET (1..Len(es))
    OBVIOUS
<1>2. Others(es, S) \in Seq(Entry)
    BY OthersTyped
<1>3. Others(es, S) = some
    BY DEF Others
<1>4. \A j \in P : es[j].task \notin S
    OBVIOUS
<1>5. \A j \in 1 .. Len(es) : es[j].task \notin S => j \in P
    BY <1>1
<1>6. \A k : Place(es, S, k) = Nth(P, k)
    BY DEF Place
<1> HIDE DEF P
<1>7. /\ Cardinality(P) \in Nat
      /\ \A k \in 1..Cardinality(P) : Nth(P, k) \in P
      /\ \A k, l \in 1..Cardinality(P) : k < l => Nth(P, k) < Nth(P, l)
      /\ \A j \in P : \E k \in 1..Cardinality(P) : Nth(P, k) = j
    BY <1>1, Ranks
<1>8. DOMAIN Others(es, S) = 1 .. Cardinality(P)
    BY <1>3
<1>9. Len(Others(es, S)) = Cardinality(P)
    BY <1>2, <1>7, <1>8
<1>10. \A k \in 1 .. Cardinality(P) : Others(es, S)[k] = es[Nth(P, k)]
    BY <1>3
<1> DEFINE o == Others(es, S)
<1>11. /\ o \in Seq(Entry) /\ Len(o) \in Nat
       /\ \A k \in 1 .. Len(o) : Place(es, S, k) \in P /\ o[k] = es[Place(es, S, k)]
       /\ \A k, l \in 1 .. Len(o) : k < l => Place(es, S, k) < Place(es, S, l)
       /\ \A j \in P : \E k \in 1 .. Len(o) : Place(es, S, k) = j
    <2> HIDE DEF some
    <2> QED
        BY <1>2, <1>6, <1>7, <1>9, <1>10
<1> HIDE DEF some, o
<1>12. \A k \in 1 .. Len(o) :
           /\ Place(es, S, k) \in 1 .. Len(es)
           /\ o[k] = es[Place(es, S, k)] /\ es[Place(es, S, k)].task \notin S
    BY <1>1, <1>4, <1>11
<1>13. \A j \in 1 .. Len(es) : es[j].task \notin S => \E k \in 1 .. Len(o) : Place(es, S, k) = j
    BY <1>5, <1>11
<1> QED
    BY <1>11, <1>12, <1>13 DEF o, Placed

\* Where an entry sets the trace, some entry is the last to.
LEMMA SomeLastSet ==
    ASSUME NEW es \in Seq(Entry), NEW n \in 0 .. Len(es), NEW t \in Task,
           NEW j \in 1 .. n, es[j].task = t, Sets(es, j)
    PROVE  \E k \in 1 .. n : LastSet(es, n, t, k)
<1> DEFINE J == {k \in 1 .. n : es[k].task = t /\ Sets(es, k)}
           m == Max(J)
<1>1. n \in Nat /\ J \in SUBSET (1 .. n) /\ J \in SUBSET Nat /\ j \in J
    OBVIOUS
<1>2. IsFiniteSet(J)
    BY <1>1, Interval, FS_Subset
<1>3. \A k \in J : es[k].task = t /\ Sets(es, k)
    OBVIOUS
<1>4. \A k \in 1 .. n : es[k].task = t /\ Sets(es, k) => k \in J
    OBVIOUS
<1> HIDE DEF J
<1>5. m \in J /\ \A k \in J : k <= m
    BY <1>1, <1>2, MaxIs
<1> HIDE DEF m
<1>6. m \in 1 .. n /\ m \in Nat
    BY <1>1, <1>5
<1>7. ASSUME NEW k \in m + 1 .. n, es[k].task = t, Sets(es, k) PROVE FALSE
    <2>1. k \in 1 .. n /\ ~(k <= m)
        BY <1>1, <1>6
    <2> QED
        BY <1>4, <1>5, <1>7, <2>1
<1> QED
    BY <1>3, <1>5, <1>6, <1>7 DEF LastSet

\* Behind entries of a stream that was to be dropped, the entries of the other
\* tasks have the traces they had: each task's begin with its header, which
\* starts the task again.
LEMMA TraceDropped ==
    ASSUME NEW es \in Seq(Entry), Headed(es), NEW S, NEW t \in Task, t \notin S,
           NEW ps \in Seq(Entry), Begins(ps, es),
           NEW k \in 1 .. Len(Others(es, S)), es[Place(es, S, k)].task = t
    PROVE  TraceAt(ps \o Others(es, S), Len(ps) + k, t) = TraceAt(es, Place(es, S, k), t)
<1> DEFINE o == Others(es, S)
           q == Len(o)
           p == Len(ps)
           fs == ps \o o
           at == [l \in 1 .. q |-> Place(es, S, l)]
<1>1. /\ o \in Seq(Entry) /\ q \in Nat
      /\ \A l \in 1 .. q : at[l] \in 1 .. Len(es) /\ o[l] = es[at[l]]
      /\ \A l, r \in 1 .. q : l < r => at[l] < at[r]
      /\ \A j \in 1 .. Len(es) : es[j].task = t => \E l \in 1 .. q : at[l] = j
      /\ k \in 1 .. q /\ at[k] = Place(es, S, k) /\ es[at[k]].task = t
    <2> HIDE DEF at
    <2>1. \A l \in 1 .. q : at[l] = Place(es, S, l)
        BY DEF at
    <2>2. /\ Others(es, S) \in Seq(Entry) /\ Len(Others(es, S)) \in Nat
          /\ \A l \in 1 .. Len(Others(es, S)) :
                /\ Place(es, S, l) \in 1 .. Len(es)
                /\ Others(es, S)[l] = es[Place(es, S, l)] /\ es[Place(es, S, l)].task \notin S
          /\ \A l, r \in 1 .. Len(Others(es, S)) : l < r => Place(es, S, l) < Place(es, S, r)
          /\ \A j \in 1 .. Len(es) : es[j].task \notin S =>
                \E l \in 1 .. Len(Others(es, S)) : Place(es, S, l) = j
        <3>1. Placed(es, S)
            BY OthersAre
        <3> QED
            BY <3>1 DEF Placed
    <2>3. k \in 1 .. q
        OBVIOUS
    <2>4. ASSUME NEW j \in 1 .. Len(es), es[j].task = t PROVE \E l \in 1 .. q : at[l] = j
        <3>1. PICK l \in 1 .. q : Place(es, S, l) = j
            BY <2>2, <2>4
        <3> QED
            BY <2>1, <3>1
    <2>5. /\ \A l \in 1 .. q : at[l] \in 1 .. Len(es) /\ o[l] = es[at[l]]
          /\ \A l, r \in 1 .. q : l < r => at[l] < at[r]
        BY <2>1, <2>2
    <2>6. at[k] = Place(es, S, k) /\ es[at[k]].task = t
        BY <2>1, <2>3
    <2> QED
        BY <2>2, <2>3, <2>4, <2>5, <2>6
<1> HIDE DEF at
<1>2. /\ p \in Nat /\ Len(es) \in Nat /\ p <= Len(es) /\ \A j \in 1 .. p : ps[j] = es[j]
    BY DEF Begins
<1>3. /\ fs \in Seq(Entry) /\ Len(fs) = p + q /\ \A j \in 1 .. p : fs[j] = ps[j]
      /\ \A l \in 1 .. q : fs[p + l] = o[l]
    <2> HIDE DEF o
    <2> QED
        BY <1>1
<1>4. /\ \A j \in 1 .. p : j \in 1 .. Len(es) /\ fs[j] = es[j]
      /\ \A l \in 1 .. q : fs[p + l] = es[at[l]]
    BY <1>1, <1>2, <1>3
<1> DEFINE n == at[k]
           m == p + k
<1> HIDE DEF fs, o, p, q
<1>5. \A l \in 1 .. q : l \in Int /\ at[l] \in Int
    BY <1>1
<1>6. \A l, r \in 1 .. q : at[l] < at[r] => l < r
    <2>1. ASSUME NEW l \in 1 .. q, NEW r \in 1 .. q, at[l] < at[r] PROVE l < r
        <3>1. at[l] \in Int /\ at[r] \in Int /\ l \in Int /\ r \in Int
            BY <1>5
        <3>2. ~(r < l)
            BY <1>1, <2>1, <3>1
        <3>3. r # l
            BY <2>1, <3>1
        <3> QED
            BY <3>1, <3>2, <3>3
    <2> QED
        BY <2>1
<1>7. /\ n \in 1 .. Len(es) /\ n \in 0 .. Len(es) /\ m \in 1 .. Len(fs) /\ m \in 0 .. Len(fs)
      /\ m \in Int /\ n \in Int
    BY <1>1, <1>2, <1>3
<1>8. ASSUME NEW j \in 1 .. n, es[j].task = t PROVE \E l \in 1 .. k : at[l] = j
    <2>1. j \in 1 .. Len(es)
        BY <1>2, <1>7
    <2>2. PICK l \in 1 .. q : at[l] = j
        BY <1>1, <1>8, <2>1
    <2>3. ~(k < l)
        BY <1>1, <1>5, <1>7, <2>2
    <2>4. l \in 1 .. k
        BY <1>1, <1>5, <2>2, <2>3
    <2> QED
        BY <2>2, <2>4
<1>9. \A j \in 1 .. Len(es) : es[j] \in Entry
    OBVIOUS
<1>10. \A j \in 1 .. Len(es) : es[j].task = t => \E h \in 1 .. j : es[h] = Header(t)
    BY DEF Headed
<1>11. ASSUME NEW l \in 1 .. q, es[at[l]].task = t, Sets(es, at[l]) PROVE Sets(fs, p + l)
    <2>1. CASE es[at[l]].kind = "trace"
        BY <1>4, <2>1 DEF Sets
    <2>2. CASE es[at[l]].kind = "header" /\ \E j \in 1 .. at[l] - 1 : es[j] = es[at[l]]
        <3>1. PICK j \in 1 .. at[l] - 1 : es[j] = es[at[l]]
            BY <2>2
        <3>a. at[l] \in 1 .. Len(es)
            BY <1>1
        <3>2. j \in 1 .. Len(es) /\ j < at[l] /\ es[j].task = t
            BY <1>2, <1>11, <3>1, <3>a
        <3>3. PICK r \in 1 .. q : at[r] = j
            BY <1>1, <3>2
        <3>4. r < l
            BY <1>6, <3>2, <3>3
        <3>5. p + r \in 1 .. (p + l) - 1
            BY <1>2, <1>5, <3>3, <3>4 DEF p
        <3>6. fs[p + r] = fs[p + l]
            BY <1>4, <3>1, <3>3
        <3>7. fs[p + l].kind = "header"
            BY <1>4, <2>2
        <3> QED
            BY <3>5, <3>6, <3>7 DEF Sets
    <2> QED
        BY <1>11, <2>1, <2>2 DEF Sets
<1>12. ASSUME NEW l \in 1 .. q, es[at[l]].task = t, ~Sets(es, at[l]), Sets(fs, p + l)
       PROVE  /\ es[at[l]].kind = "header" /\ fs[p + l].kind # "trace"
              /\ \A j \in 1 .. at[l] - 1 : es[j].task # t
    <2>1. fs[p + l] = es[at[l]] /\ at[l] \in 1 .. Len(es) /\ es[at[l]] \in Entry
        BY <1>1, <1>4, <1>9, <1>12
    <2>2. es[at[l]].kind # "trace"
        BY <1>12 DEF Sets
    <2>3. es[at[l]].kind = "header"
        BY <1>12, <2>1, <2>2 DEF Sets
    <2>4. es[at[l]] = Header(t)
        BY <1>12, <2>1, <2>3, EntryIs
    <2>5. ASSUME NEW j \in 1 .. at[l] - 1, es[j].task = t PROVE FALSE
        <3>1. j \in 1 .. Len(es)
            BY <1>2, <2>1, <2>5
        <3>2. PICK h \in 1 .. j : es[h] = Header(t)
            BY <1>10, <2>5, <3>1
        <3>3. h \in 1 .. at[l] - 1
            BY <2>1, <3>1, <3>2
        <3> QED
            BY <1>12, <2>3, <2>4, <3>2, <3>3 DEF Sets
    <2> QED
        BY <2>1, <2>2, <2>3, <2>5
<1>13. ASSUME NEW x \in 1 .. m
       PROVE  x \in 1 .. p \/ \E l \in 1 .. k : x = p + l
    <2>1. x \notin 1 .. p => x - p \in 1 .. k /\ x = p + (x - p)
        BY <1>1, <1>2, <1>5 DEF p
    <2> QED
        BY <2>1
<1>14. \A l \in 1 .. k : l \in 1 .. q /\ p + l \in 1 .. m
    BY <1>1, <1>2, <1>5 DEF p
<1>15. CASE \E j \in 1 .. n : LastSet(es, n, t, j)
    <2>1. PICK j \in 1 .. n : LastSet(es, n, t, j)
        BY <1>15
    <2>2. PICK l \in 1 .. k : at[l] = j
        BY <1>8, <2>1 DEF LastSet
    <2>3. l \in 1 .. q /\ p + l \in 1 .. m /\ fs[p + l] = es[j]
        BY <1>4, <1>14, <2>2
    <2>4. fs[p + l].task = t /\ Sets(fs, p + l)
        BY <1>11, <2>1, <2>2, <2>3 DEF LastSet
    <2>5. ASSUME NEW x \in p + l + 1 .. m, fs[x].task = t, Sets(fs, x) PROVE FALSE
        <3>1. x \in 1 .. m /\ x \notin 1 .. p /\ l \in Int
            BY <1>2, <1>5, <2>3, <2>5 DEF p
        <3>2. PICK r \in 1 .. k : x = p + r
            BY <1>13, <3>1
        <3>3. r \in 1 .. q /\ l < r
            BY <1>2, <1>5, <1>14, <2>3, <2>5, <3>2 DEF p
        <3>4. at[l] < at[r] /\ at[r] <= n /\ at[r] \in Int /\ at[l] \in Int
            <4>1. r = k \/ r < k
                BY <1>1, <1>5, <3>2, <3>3
            <4>2. at[r] = n \/ at[r] < n
                BY <1>1, <3>3, <4>1
            <4>3. at[l] \in 1 .. Len(es) /\ at[r] \in 1 .. Len(es) /\ n \in 1 .. Len(es)
                <5>1. \A h \in 1 .. q : at[h] \in 1 .. Len(es)
                    BY <1>1
                <5> QED
                    BY <1>7, <2>3, <3>3, <5>1
            <4>4. at[l] < at[r]
                BY <1>1, <2>3, <3>3
            <4> QED
                BY <4>2, <4>3, <4>4
        <3>5. at[r] \in j + 1 .. n /\ j \in 1 .. at[r] - 1
            BY <1>7, <2>1, <2>2, <3>4
        <3>6. es[at[r]].task = t
            BY <1>4, <2>5, <3>2, <3>3
        <3>7. ~Sets(es, at[r])
            BY <2>1, <3>5, <3>6 DEF LastSet
        <3>8. es[j].task # t
            BY <1>12, <2>5, <3>2, <3>3, <3>5, <3>6, <3>7
        <3> QED
            BY <2>1, <3>8 DEF LastSet
    <2>6. LastSet(fs, m, t, p + l)
        BY <2>4, <2>5 DEF LastSet
    <2>7. TraceAt(fs, m, t) = IF fs[p + l].kind = "trace" THEN fs[p + l].trace ELSE NoTrace
        BY <1>3, <1>7, <2>3, <2>6, TraceIs
    <2>8. TraceAt(es, n, t) = IF es[j].kind = "trace" THEN es[j].trace ELSE NoTrace
        BY <1>7, <2>1, TraceIs
    <2> QED
        BY <1>1, <2>3, <2>7, <2>8 DEF fs, o, p
<1>16. CASE \A j \in 1 .. n : ~LastSet(es, n, t, j)
    <2>1. TraceAt(es, n, t) = NoTrace
        BY <1>7, <1>16, TraceIs
    <2>2. ASSUME NEW j \in 1 .. n, es[j].task = t PROVE ~Sets(es, j)
        BY <1>7, <1>16, <2>2, SomeLastSet
    <2>3. ASSUME NEW x \in 1 .. m, LastSet(fs, m, t, x) PROVE fs[x].kind # "trace"
        <3>1. fs[x].task = t /\ Sets(fs, x)
            BY <2>3 DEF LastSet
        <3>2. CASE x \in 1 .. p
            <4>1. x \in 1 .. Len(es) /\ es[x].task = t
                BY <1>4, <3>1, <3>2
            <4>2. PICK h \in 1 .. x : es[h] = Header(t)
                BY <1>10, <4>1
            <4>3. h \in 1 .. p /\ fs[h] = Header(t)
                BY <1>2, <1>4, <3>2, <4>2 DEF p
            <4>4. PICK g \in 1 .. n : es[g] = Header(t)
                BY <1>1, <1>7, <1>10
            <4>5. es[g].task = t /\ es[g].kind = "header"
                BY <4>4, EntryOf
            <4>6. PICK l \in 1 .. k : at[l] = g
                BY <1>8, <4>5
            <4>7. l \in 1 .. q /\ fs[p + l] = Header(t) /\ fs[p + l].task = t
                  /\ fs[p + l].kind = "header"
                BY <1>4, <1>14, <4>4, <4>5, <4>6
            <4>8. h \in 1 .. (p + l) - 1 /\ p + l \in x + 1 .. m
                BY <1>2, <1>5, <1>14, <3>2, <4>3, <4>6, <4>7 DEF p
            <4>9. Sets(fs, p + l)
                BY <4>3, <4>7, <4>8 DEF Sets
            <4> QED
                BY <2>3, <4>7, <4>8, <4>9 DEF LastSet
        <3>3. ASSUME NEW l \in 1 .. k, x = p + l PROVE fs[x].kind # "trace"
            <4>1. l \in 1 .. q /\ fs[p + l] = es[at[l]] /\ es[at[l]].task = t
                BY <1>4, <1>14, <3>1, <3>3
            <4>2. at[l] \in 1 .. n
                <5>1. l = k \/ l < k
                    BY <1>1, <1>5, <3>3, <4>1
                <5>2. at[l] = n \/ at[l] < n
                    BY <1>1, <4>1, <5>1
                <5> QED
                    BY <1>1, <1>5, <1>7, <4>1, <5>2
            <4>3. ~Sets(es, at[l])
                BY <2>2, <4>1, <4>2
            <4> QED
                BY <1>12, <3>1, <3>3, <4>1, <4>3
        <3> QED
            BY <1>13, <3>2, <3>3
    <2>4. TraceAt(fs, m, t) = NoTrace
        BY <1>3, <1>7, <2>3, TraceIs
    <2> QED
        BY <1>1, <2>1, <2>4 DEF fs, o, p
<1> QED
    BY <1>15, <1>16

\* An entry behind the first p is one of those of the tasks not in S, and it has
\* the trace it had.
Stems(fs, p, es, S, j) ==
    \E m \in 1 .. Len(es) :
        /\ fs[j] = es[m] /\ (j \notin 1 .. p => es[m].task \notin S)
        /\ \A t \in Task : fs[j].task = t => TraceAt(fs, j, t) = TraceAt(es, m, t)

\* All entries that a drop leaves do.
LEMMA EntryDropped ==
    ASSUME NEW es \in Seq(Entry), Headed(es), NEW S, NEW ps \in Seq(Entry), Begins(ps, es),
           NEW j \in 1 .. Len(ps \o Others(es, S))
    PROVE  Stems(ps \o Others(es, S), Len(ps), es, S, j)
<1> DEFINE o == Others(es, S)
           q == Len(o)
           p == Len(ps)
           fs == ps \o o
<1>p. Placed(es, S)
    BY OthersAre
<1>1. /\ o \in Seq(Entry) /\ q \in Nat
      /\ \A k \in 1 .. q : /\ Place(es, S, k) \in 1 .. Len(es)
                            /\ o[k] = es[Place(es, S, k)] /\ es[Place(es, S, k)].task \notin S
    BY <1>p DEF Placed
<1>2. p \in Nat /\ Len(es) \in Nat /\ p <= Len(es) /\ \A k \in 1 .. p : ps[k] = es[k]
    BY DEF Begins
<1>3. /\ fs \in Seq(Entry) /\ Len(fs) = p + q /\ \A k \in 1 .. p : fs[k] = ps[k]
      /\ \A k \in 1 .. q : fs[p + k] = o[k]
    <2> HIDE DEF o
    <2> QED
        BY <1>1
<1>4. j \in 1 .. Len(fs)
    OBVIOUS
<1> DEFINE Right(m) == /\ fs[j] = es[m] /\ (j \notin 1 .. p => es[m].task \notin S)
                       /\ \A t \in Task : fs[j].task = t => TraceAt(fs, j, t) = TraceAt(es, m, t)
<1> SUFFICES \E m \in 1 .. Len(es) : Right(m)
    BY DEF Stems
<1>5. CASE j \in 1 .. p
    <2>1. j \in 1 .. Len(es) /\ fs[j] = es[j] /\ j \in 0 .. p
        BY <1>2, <1>3, <1>5
    <2>2. Begins(ps, fs)
        <3> HIDE DEF fs, q
        <3>1. p <= Len(fs)
            BY <1>1, <1>2, <1>3
        <3> QED
            BY <1>3, <3>1 DEF Begins
    <2>3. ASSUME NEW t \in Task PROVE TraceAt(fs, j, t) = TraceAt(es, j, t)
        <3> HIDE DEF fs
        <3>1. TraceAt(fs, j, t) = TraceAt(ps, j, t)
            BY <1>3, <2>1, <2>2, TraceBegins
        <3>2. TraceAt(es, j, t) = TraceAt(ps, j, t)
            BY <2>1, TraceBegins
        <3> QED
            BY <3>1, <3>2
    <2>4. Right(j)
        <3> HIDE DEF fs, p
        <3> QED
            BY <1>5, <2>1, <2>3
    <2> QED
        BY <2>1, <2>4
<1>6. CASE j \notin 1 .. p
    <2> DEFINE k == j - p
               m == Place(es, S, k)
    <2>1. k \in 1 .. q /\ j = p + k
        <3> HIDE DEF fs, q
        <3> QED
            BY <1>1, <1>2, <1>3, <1>4, <1>6
    <2>2. m \in 1 .. Len(es) /\ fs[j] = es[m] /\ es[m].task \notin S
        <3> HIDE DEF fs, q, o, k
        <3> QED
            BY <1>1, <1>3, <2>1
    <2>3. ASSUME NEW t \in Task, fs[j].task = t PROVE TraceAt(fs, j, t) = TraceAt(es, m, t)
        <3>1. es[m].task = t /\ t \notin S
            BY <2>2, <2>3
        <3>2. TraceAt(ps \o Others(es, S), Len(ps) + k, t) = TraceAt(es, Place(es, S, k), t)
            <4>1. k \in 1 .. Len(Others(es, S)) /\ es[Place(es, S, k)].task = t
                BY <2>1, <3>1
            <4> HIDE DEF k
            <4> QED
                BY <3>1, <4>1, TraceDropped
        <3> QED
            BY <2>1, <3>2
    <2>4. Right(m)
        <3> HIDE DEF fs, p, m
        <3> QED
            BY <1>6, <2>2, <2>3
    <2> QED
        BY <2>2, <2>4
<1> QED
    BY <1>5, <1>6

\* The stream stays sound, of the other tasks it says what it said, and of those
\* dropped what its first entries say.
LEMMA Dropped ==
    ASSUME NEW es \in Seq(Entry), Sound(es), NEW S, NEW ps \in Seq(Entry), Begins(ps, es)
    PROVE  LET fs == ps \o Others(es, S)
           IN  /\ fs \in Seq(Entry) /\ Sound(fs)
               /\ \A t \in Task, i \in Idx :
                     /\ t \notin S => DecodedAt(fs, t, i) = DecodedAt(es, t, i)
                     /\ t \in S => DecodedAt(fs, t, i) = DecodedAt(ps, t, i)
<1> DEFINE o == Others(es, S)
           q == Len(o)
           p == Len(ps)
           fs == ps \o o
<1>0. Headed(es)
    BY DEF Sound
<1>p. Placed(es, S)
    BY OthersAre
<1>1. /\ o \in Seq(Entry) /\ q \in Nat
      /\ \A k \in 1 .. q : /\ Place(es, S, k) \in 1 .. Len(es)
                            /\ o[k] = es[Place(es, S, k)] /\ es[Place(es, S, k)].task \notin S
      /\ \A k, l \in 1 .. q : k < l => Place(es, S, k) < Place(es, S, l)
      /\ \A j \in 1 .. Len(es) : es[j].task \notin S => \E k \in 1 .. q : Place(es, S, k) = j
    BY <1>p DEF Placed
<1>2. p \in Nat /\ Len(es) \in Nat /\ p <= Len(es) /\ \A k \in 1 .. p : ps[k] = es[k]
    BY DEF Begins
<1>3. /\ fs \in Seq(Entry) /\ Len(fs) = p + q /\ \A k \in 1 .. p : fs[k] = ps[k]
      /\ \A k \in 1 .. q : fs[p + k] = o[k]
    <2> HIDE DEF o
    <2> QED
        BY <1>1
<1>4. Begins(ps, fs)
    <2> HIDE DEF fs, q
    <2>1. p <= Len(fs)
        BY <1>1, <1>2, <1>3
    <2> QED
        BY <1>3, <2>1 DEF Begins
<1>5. ASSUME NEW j \in 1 .. Len(fs)
      PROVE  \E m \in 1 .. Len(es) :
                  /\ fs[j] = es[m] /\ (j \notin 1 .. p => es[m].task \notin S)
                  /\ \A t \in Task : fs[j].task = t => TraceAt(fs, j, t) = TraceAt(es, m, t)
    <2>1. Stems(fs, p, es, S, j)
        BY <1>0, EntryDropped
    <2> QED
        BY <2>1 DEF Stems
<1> HIDE DEF fs
<1>6. Sound(ps)
    BY SoundBegins
<1>7. ASSUME NEW j \in 1 .. Len(fs) PROVE \E k \in 1 .. j : fs[k] = Header(fs[j].task)
    <2>1. CASE j \in 1 .. p
        <3>1. PICK k \in 1 .. j : ps[k] = Header(ps[j].task)
            BY <1>6, <2>1 DEF Sound, Headed
        <3>2. k \in 1 .. p
            BY <1>2, <2>1
        <3> QED
            BY <1>3, <2>1, <3>1, <3>2
    <2>2. CASE j \notin 1 .. p
        <3> DEFINE l == j - p
        <3>1. l \in 1 .. q /\ j = p + l
            BY <1>1, <1>2, <1>3, <2>2
        <3> HIDE DEF l, o, q
        <3> DEFINE m == Place(es, S, l)
        <3>2. m \in 1 .. Len(es) /\ fs[j] = es[m] /\ es[m].task \notin S /\ es[m] \in Entry
            BY <1>1, <1>3, <3>1
        <3> HIDE DEF m
        <3> DEFINE t == es[m].task
        <3>3. t \in Task /\ t \notin S /\ fs[j].task = t
            BY <3>2, EntryIs
        <3>4. PICK h \in 1 .. m : es[h] = Header(t)
            BY <1>0, <3>2 DEF Headed
        <3>5. h \in 1 .. Len(es) /\ es[h].task = t
            BY <1>2, <3>2, <3>3, <3>4, EntryOf
        <3>6. PICK k \in 1 .. q : Place(es, S, k) = h
            BY <1>1, <3>3, <3>5
        <3>7. ~(l < k)
            <4>1. l < k => m < h
                BY <1>1, <3>1, <3>6 DEF m
            <4>2. h \in Int /\ m \in Int /\ h <= m
                BY <3>2, <3>4
            <4> QED
                BY <4>1, <4>2
        <3>8. p + k \in 1 .. j
            BY <1>1, <1>2, <3>1, <3>6, <3>7
        <3>9. fs[p + k] = Header(t)
            BY <1>1, <1>3, <3>4, <3>6
        <3> QED
            BY <3>3, <3>8, <3>9
    <2> QED
        BY <2>1, <2>2
<1>8. \A j \in 1 .. Len(fs) : fs[j] \in Entry
    BY <1>3
<1>9. ASSUME NEW j \in 1 .. Len(fs), NEW k \in 1 .. Len(fs), fs[j] = fs[k], fs[j].kind = "result"
      PROVE  TraceAt(fs, j, fs[j].task) = TraceAt(fs, k, fs[k].task)
    <2>1. fs[j].task \in Task /\ fs[k].task \in Task
        BY <1>8, EntryIs
    <2>2. PICK m \in 1 .. Len(es) :
              /\ fs[j] = es[m]
              /\ \A t \in Task : fs[j].task = t => TraceAt(fs, j, t) = TraceAt(es, m, t)
        BY <1>5
    <2>3. PICK n \in 1 .. Len(es) :
              /\ fs[k] = es[n]
              /\ \A t \in Task : fs[k].task = t => TraceAt(fs, k, t) = TraceAt(es, n, t)
        BY <1>5
    <2>4. TraceAt(es, m, es[m].task) = TraceAt(es, n, es[n].task)
        BY <1>9, <2>2, <2>3 DEF Sound
    <2>5. /\ TraceAt(fs, j, fs[j].task) = TraceAt(es, m, es[m].task)
          /\ TraceAt(fs, k, fs[k].task) = TraceAt(es, n, es[n].task)
        BY <2>1, <2>2, <2>3
    <2> QED
        BY <2>4, <2>5
<1>10. Sound(fs)
    BY <1>7, <1>9 DEF Sound, Headed
<1>11. ASSUME NEW t \in Task, NEW i \in Idx, t \notin S
       PROVE  DecodedAt(fs, t, i) = DecodedAt(es, t, i)
    <2>1. Result(t, i).task = t
        BY EntryOf
    <2>2. CASE \E j \in 1 .. Len(fs) : fs[j] = Result(t, i)
        <3>1. PICK j \in 1 .. Len(fs) : fs[j] = Result(t, i)
            BY <2>2
        <3>2. PICK m \in 1 .. Len(es) :
                  /\ fs[j] = es[m]
                  /\ \A u \in Task : fs[j].task = u => TraceAt(fs, j, u) = TraceAt(es, m, u)
            BY <1>5
        <3>3. DecodedAt(fs, t, i) = TraceAt(fs, j, t)
            BY <1>3, <1>10, <3>1, DecodedSound
        <3>4. DecodedAt(es, t, i) = TraceAt(es, m, t)
            BY <3>1, <3>2, DecodedSound
        <3> QED
            BY <2>1, <3>1, <3>2, <3>3, <3>4
    <2>3. CASE \A j \in 1 .. Len(fs) : fs[j] # Result(t, i)
        <3>1. ASSUME NEW m \in 1 .. Len(es), es[m] = Result(t, i) PROVE FALSE
            <4>1. es[m].task \notin S
                BY <1>11, <2>1, <3>1
            <4>2. PICK k \in 1 .. q : Place(es, S, k) = m
                BY <1>1, <4>1
            <4>3. fs[p + k] = es[m]
                BY <1>1, <1>3, <4>2
            <4>4. p + k \in 1 .. Len(fs)
                BY <1>1, <1>2, <1>3, <4>2
            <4> QED
                BY <2>3, <3>1, <4>3, <4>4
        <3>2. DecodedAt(es, t, i) = Absent
            BY <3>1, DecodedIs
        <3>3. DecodedAt(fs, t, i) = Absent
            BY <1>3, <2>3, DecodedIs
        <3> QED
            BY <3>2, <3>3
    <2> QED
        BY <2>2, <2>3
<1>12. ASSUME NEW t \in Task, NEW i \in Idx, t \in S
       PROVE  DecodedAt(fs, t, i) = DecodedAt(ps, t, i)
    <2>1. Result(t, i).task = t
        BY EntryOf
    <2>2. ASSUME NEW k \in p + 1 .. Len(fs) PROVE fs[k] # Result(t, i)
        <3>1. k \in 1 .. Len(fs) /\ k \notin 1 .. p
            BY <1>2
        <3>2. PICK m \in 1 .. Len(es) : fs[k] = es[m] /\ (k \notin 1 .. p => es[m].task \notin S)
            BY <1>5, <3>1
        <3> QED
            BY <1>12, <2>1, <3>1, <3>2
    <2> QED
        BY <1>3, <1>4, <2>2, DecodedExtended
<1> QED
    BY <1>3, <1>10, <1>11, <1>12 DEF fs

\* What is said by the first of sound entries is what all say, or nothing.
LEMMA FewerSaid ==
    ASSUME NEW es \in Seq(Entry), Sound(es), NEW fs \in Seq(Entry), Begins(fs, es),
           NEW t \in Task, NEW i \in Idx
    PROVE  DecodedAt(fs, t, i) \in {DecodedAt(es, t, i), Absent}
<1>1. Sound(fs)
    BY SoundBegins
<1>2. CASE \E j \in 1 .. Len(fs) : fs[j] = Result(t, i)
    <2>1. PICK j \in 1 .. Len(fs) : fs[j] = Result(t, i)
        BY <1>2
    <2>2. j \in 1 .. Len(es) /\ es[j] = Result(t, i) /\ j \in 0 .. Len(fs)
        BY <2>1 DEF Begins
    <2>3. DecodedAt(fs, t, i) = TraceAt(fs, j, t)
        BY <1>1, <2>1, DecodedSound
    <2>4. DecodedAt(es, t, i) = TraceAt(es, j, t)
        BY <2>2, DecodedSound
    <2>5. TraceAt(es, j, t) = TraceAt(fs, j, t)
        BY <2>2, TraceBegins
    <2> QED
        BY <2>3, <2>4, <2>5
<1>3. CASE \A j \in 1 .. Len(fs) : fs[j] # Result(t, i)
    BY <1>3, DecodedIs
<1> QED
    BY <1>2, <1>3

\* A sequence has, behind the entries it extends, those appended to it.
LEMMA AppendedIs ==
    ASSUME NEW es \in Seq(Entry), NEW e \in Entry
    PROVE  /\ Append(es, e) \in Seq(Entry) /\ Len(Append(es, e)) = Len(es) + 1
           /\ Begins(es, Append(es, e)) /\ Append(es, e)[Len(es) + 1] = e
           /\ Len(es) \in Nat /\ Len(es) + 1 .. Len(Append(es, e)) = {Len(es) + 1}
           /\ \A t \in Task : HasHeader(es, t) => HasHeader(Append(es, e), t)
<1>1. /\ Append(es, e) \in Seq(Entry) /\ Len(Append(es, e)) = Len(es) + 1 /\ Len(es) \in Nat
      /\ Append(es, e)[Len(es) + 1] = e /\ \A j \in 1 .. Len(es) : Append(es, e)[j] = es[j]
    OBVIOUS
<1> DEFINE fs == Append(es, e)
<1> HIDE DEF fs
<1>2. fs \in Seq(Entry) /\ Len(fs) = Len(es) + 1 /\ \A j \in 1 .. Len(es) : fs[j] = es[j]
    BY <1>1 DEF fs
<1>3. Begins(es, fs)
    BY <1>1, <1>2 DEF Begins
<1>4. Len(es) + 1 .. Len(fs) = {Len(es) + 1}
    BY <1>1, <1>2
<1>5. ASSUME NEW t \in Task, HasHeader(es, t) PROVE HasHeader(fs, t)
    <2>1. PICK j \in 1 .. Len(es) : es[j] = Header(t)
        BY <1>5 DEF HasHeader, Range
    <2>2. j \in DOMAIN fs /\ fs[j] = Header(t)
        BY <1>1, <1>2, <2>1
    <2> QED
        BY <2>2 DEF HasHeader, Range
<1> QED
    BY <1>1, <1>3, <1>4, <1>5 DEF fs

\* The first record of an instance says the trace in force.
LEMMA ResultSaid ==
    ASSUME NEW es \in Seq(Entry), Sound(es), NEW t \in Task, NEW i \in Idx, HasHeader(es, t),
           DecodedAt(es, t, i) = Absent
    PROVE  /\ Sound(Append(es, Result(t, i)))
           /\ DecodedAt(Append(es, Result(t, i)), t, i) = TraceAt(es, Len(es), t)
           /\ \A u \in Task, k \in Idx : <<u, k>> # <<t, i>> =>
                 DecodedAt(Append(es, Result(t, i)), u, k) = DecodedAt(es, u, k)
<1> DEFINE e == Result(t, i)
           fs == Append(es, e)
           n == Len(es) + 1
<1>1. e \in Entry /\ e.task = t /\ e.kind = "result" /\ e = Result(t, i)
    BY EntryOf
<1>2. ASSUME NEW u \in Task, NEW k \in Idx, <<u, k>> # <<t, i>> PROVE e # Result(u, k)
    BY <1>2 DEF Result
<1> HIDE DEF e
<1>3. /\ fs \in Seq(Entry) /\ Len(fs) = Len(es) + 1 /\ Begins(es, fs) /\ fs[n] = e
      /\ Len(es) \in Nat /\ Len(es) + 1 .. Len(fs) = {n}
    BY <1>1, AppendedIs
<1>4. e.kind = "result" => TraceAt(fs, Len(fs), t) = TraceAt(es, Len(es), t)
    BY <1>1, TraceAppended
<1> HIDE DEF fs
<1>5. ASSUME NEW l \in 1 .. Len(fs), l # n PROVE fs[l] # e
    <2>1. l \in 1 .. Len(es)
        BY <1>3, <1>5
    <2>2. es[l] # e
        BY <1>1, <2>1, DecodedIs
    <2> QED
        BY <1>3, <2>1, <2>2 DEF Begins
<1>6. Sound(fs)
    <2>1. ASSUME NEW k \in Len(es) + 1 .. Len(fs)
          PROVE  /\ fs[k].kind = "header" \/ HasHeader(es, fs[k].task)
                 /\ fs[k].kind = "result" => \A l \in 1 .. Len(fs) : l # k => fs[l] # fs[k]
        BY <1>1, <1>3, <1>5
    <2> QED
        BY <1>3, <2>1, SoundExtended
<1>7. DecodedAt(fs, t, i) = TraceAt(es, Len(es), t)
    <2>1. n \in 1 .. Len(fs) /\ fs[n] = Result(t, i) /\ n = Len(fs)
        BY <1>1, <1>3
    <2>2. DecodedAt(fs, t, i) = TraceAt(fs, n, t)
        BY <1>3, <1>6, <2>1, DecodedSound
    <2> QED
        BY <1>1, <1>4, <2>1, <2>2
<1>8. ASSUME NEW u \in Task, NEW k \in Idx, <<u, k>> # <<t, i>>
      PROVE  DecodedAt(fs, u, k) = DecodedAt(es, u, k)
    <2>1. \A l \in Len(es) + 1 .. Len(fs) : fs[l] # Result(u, k)
        BY <1>2, <1>3, <1>8
    <2> QED
        BY <1>3, <2>1, DecodedExtended
<1> QED
    BY <1>6, <1>7, <1>8 DEF fs, e

\* A trace for later records says nothing of any instance.
LEMMA TraceSaid ==
    ASSUME NEW es \in Seq(Entry), Sound(es), NEW t \in Task, NEW v \in Trace, HasHeader(es, t)
    PROVE  /\ Sound(Append(es, DefaultTrace(t, v)))
           /\ \A u \in Task, k \in Idx :
                 DecodedAt(Append(es, DefaultTrace(t, v)), u, k) = DecodedAt(es, u, k)
<1> DEFINE e == DefaultTrace(t, v)
           fs == Append(es, e)
           n == Len(es) + 1
<1>1. e \in Entry /\ e.task = t /\ e.kind = "trace"
    BY EntryOf
<1>2. \A u \in Task, k \in Idx : Result(u, k).kind = "result"
    BY EntryOf
<1> HIDE DEF e
<1>3. /\ fs \in Seq(Entry) /\ Begins(es, fs) /\ fs[n] = e /\ Len(es) + 1 .. Len(fs) = {n}
    BY <1>1, AppendedIs
<1> HIDE DEF fs
<1>4. Sound(fs)
    <2>1. ASSUME NEW k \in Len(es) + 1 .. Len(fs)
          PROVE  /\ fs[k].kind = "header" \/ HasHeader(es, fs[k].task)
                 /\ fs[k].kind = "result" => \A l \in 1 .. Len(fs) : l # k => fs[l] # fs[k]
        BY <1>1, <1>3
    <2> QED
        BY <1>3, <2>1, SoundExtended
<1>5. ASSUME NEW u \in Task, NEW k \in Idx PROVE DecodedAt(fs, u, k) = DecodedAt(es, u, k)
    <2>1. \A l \in Len(es) + 1 .. Len(fs) : fs[l] # Result(u, k)
        BY <1>1, <1>2, <1>3
    <2> QED
        BY <1>3, <2>1, DecodedExtended
<1> QED
    BY <1>4, <1>5 DEF fs, e

\* Neither do headers.
LEMMA HeadersSaid ==
    ASSUME NEW es \in Seq(Entry), Sound(es), NEW hs \in Seq(Entry),
           \A k \in 1 .. Len(hs) : hs[k].kind = "header"
    PROVE  /\ Sound(es \o hs)
           /\ \A u \in Task, k \in Idx : DecodedAt(es \o hs, u, k) = DecodedAt(es, u, k)
           /\ \A t \in Task : HasHeader(es, t) \/ (\E k \in 1 .. Len(hs) : hs[k] = Header(t))
                 => HasHeader(es \o hs, t)
<1> DEFINE fs == es \o hs
<1>1. /\ fs \in Seq(Entry) /\ Len(fs) = Len(es) + Len(hs) /\ Len(es) \in Nat /\ Len(hs) \in Nat
      /\ \A j \in 1 .. Len(es) : fs[j] = es[j]
      /\ \A k \in 1 .. Len(hs) : fs[Len(es) + k] = hs[k]
    OBVIOUS
<1>2. \A u \in Task, k \in Idx : Result(u, k).kind = "result"
    BY EntryOf
<1> HIDE DEF fs
<1>3. Begins(es, fs)
    <2>1. Len(es) <= Len(fs)
        BY <1>1
    <2> QED
        BY <1>1, <2>1 DEF Begins
<1>4. ASSUME NEW k \in Len(es) + 1 .. Len(fs) PROVE fs[k].kind = "header"
    <2>1. k - Len(es) \in 1 .. Len(hs) /\ Len(es) + (k - Len(es)) = k
        BY <1>1
    <2>2. fs[Len(es) + (k - Len(es))] = hs[k - Len(es)]
        BY <1>1, <2>1
    <2> QED
        BY <2>1, <2>2
<1>5. Sound(fs)
    <2>1. \A k \in Len(es) + 1 .. Len(fs) :
              /\ fs[k].kind = "header" \/ HasHeader(es, fs[k].task)
              /\ fs[k].kind = "result" => \A l \in 1 .. Len(fs) : l # k => fs[l] # fs[k]
        BY <1>4
    <2> QED
        BY <1>1, <1>3, <2>1, SoundExtended
<1>6. ASSUME NEW u \in Task, NEW k \in Idx PROVE DecodedAt(fs, u, k) = DecodedAt(es, u, k)
    <2>1. \A l \in Len(es) + 1 .. Len(fs) : fs[l] # Result(u, k)
        BY <1>2, <1>4
    <2> QED
        BY <1>1, <1>3, <2>1, DecodedExtended
<1>7. ASSUME NEW t \in Task, HasHeader(es, t) \/ \E k \in 1 .. Len(hs) : hs[k] = Header(t)
      PROVE  HasHeader(fs, t)
    <2>1. CASE HasHeader(es, t)
        <3>1. PICK j \in 1 .. Len(es) : es[j] = Header(t)
            BY <2>1 DEF HasHeader, Range
        <3>2. j \in DOMAIN fs /\ fs[j] = Header(t)
            BY <1>1, <3>1
        <3> QED
            BY <3>2 DEF HasHeader, Range
    <2>2. CASE \E k \in 1 .. Len(hs) : hs[k] = Header(t)
        <3>1. PICK k \in 1 .. Len(hs) : hs[k] = Header(t)
            BY <2>2
        <3>2. Len(es) + k \in DOMAIN fs /\ fs[Len(es) + k] = Header(t)
            BY <1>1, <3>1
        <3> QED
            BY <3>2 DEF HasHeader, Range
    <2> QED
        BY <1>7, <2>1, <2>2
<1> QED
    BY <1>5, <1>6, <1>7 DEF fs

-----------------------------------------------------------------------------
(* What the stream says, step by step.                                     *)

\* What a reader that starts now would read.
Saved == EntriesOf(Committed)

\* What is saved is sound, and so is what the process knows; it has the headers
\* of the tasks it records, and does not know yet what it is recording.
Logged ==
    /\ Sound(Saved)
    /\ Recording =>
          /\ Sound(Known)
          /\ \A t \in recording : HasHeader(Known, t)
          /\ entering # None => /\ entering.task \in recording
                                /\ DecodedAt(Known, entering.task, entering.idx) = Absent

\* The segments drop is about to remove.
Removed == Without(segs, DOMAIN segs \ old)

\* Of a stream es there are first entries, and behind them those to keep.
Leaves(es) ==
    /\ es \in Seq(Entry) /\ Sound(es) /\ Begins(EntriesOf(Removed), es)
    /\ EntriesOf(Rewritten) = Others(es, active)

\* A drop under way: what it will leave is what it should.  Without an index the
\* old segments count until they are gone.
Dropping ==
    /\ pc = "swap" => old = DOMAIN Committed /\ DOMAIN segs = old /\ tmp = Kept
    /\ pc = "reindex" => EntriesOf(Rewritten) = Kept
    /\ pc = "unlink" /\ ~shared =>
          /\ \E es : Leaves(es)
          /\ old \subseteq DOMAIN segs
          /\ Rewritten = NoFiles \/ \E n \in DOMAIN Rewritten : /\ DOMAIN Rewritten = {n}
                                                                /\ \A m \in old : m < n

LogInv == Logged /\ Dropping

\* No entry is before none, and every stream begins with itself.
LEMMA BeginsIs ==
    ASSUME NEW es \in Seq(Entry)
    PROVE  /\ Begins(<<>>, es) /\ Begins(es, es) /\ <<>> \o es = es /\ es \o <<>> = es
           /\ \A e \in Entry : Begins(es, Append(es, e))
           /\ \A fs \in Seq(Entry) : Begins(es, es \o fs)
BY DEF Begins

\* Steps that leave the files that count leave what is saved.
LEMMA SavedSame ==
    ASSUME UNCHANGED <<shared, segs, index>>
    PROVE  Saved' = Saved /\ Committed' = Committed
BY DEF Saved, Committed

\* What is saved and known are entries.
LEMMA SavedTyped ==
    ASSUME Inv
    PROVE  Saved \in Seq(Entry) /\ Known \in Seq(Entry) /\ Kept \in Seq(Entry)
           /\ Kept = Others(Saved, active)
BY CommittedTyped DEF Inv, Saved, Kept

\* A write that is over has saved all that is known.
LEMMA SavedAll ==
    ASSUME Inv, (RenameSegment /\ ~shared) \/ WriteIndex, TypeOK'
    PROVE  Saved' = Known /\ Known' = Known
<1>1. Known' = Known
    BY KnownWritten
<1>2. buffer' = <<>> /\ shared' = shared
    BY DEF RenameSegment, WriteIndex
<1>3. Written' = Committed'
    <2>1. CASE RenameSegment /\ ~shared
        BY <1>2, <2>1 DEF Written, Committed
    <2>2. CASE WriteIndex
        <3>1. index' = WithNewest /\ published' = WithNewest /\ pc = "index"
            BY <2>2 DEF WriteIndex
        <3>2. shared /\ WithNewest # NoIndex
            BY <3>1, NewestThere
        <3> QED
            BY <1>2, <3>1, <3>2 DEF Written, Committed
    <2> QED
        BY <2>1, <2>2
<1>4. EntriesOf(Committed)' \in Seq(Entry)
    <2>1. IsFiles(Committed')
        <3>1. IsFiles(segs') /\ IsFiles(published')
            BY DEF TypeOK
        <3> QED
            BY <1>3, <3>1 DEF Written
    <2> QED
        BY <2>1, EntriesTyped
<1>5. Known' = Saved' \o <<>>
    BY <1>2, <1>3 DEF Known, Saved
<1>6. Saved' \o <<>> = Saved'
    <2> DEFINE s == Saved'
    <2>1. s \in Seq(Entry)
        BY <1>4 DEF Saved
    <2> HIDE DEF s
    <2>2. s \o <<>> = s
        BY <2>1
    <2> QED
        BY <2>2 DEF s
<1> QED
    BY <1>1, <1>5, <1>6

\* So has one whose index is in place though the write failed.
LEMMA SavedByFailure ==
    ASSUME Inv, WriteFails
    PROVE  Known' = Known /\ (Saved' = Saved \/ Saved' = Known)
<1>1. /\ UNCHANGED <<shared, segs, published, buffer>>
      /\ index' = index \/ (pc = "index" /\ index' = WithNewest)
    BY DEF WriteFails
<1>2. Known' = Known
    BY <1>1, KnownSame
<1>3. CASE index' = index
    BY <1>1, <1>2, <1>3, SavedSame
<1>4. CASE pc = "index" /\ index' = WithNewest
    <2>1. shared /\ WithNewest # NoIndex /\ WithNewest = WithOne(published, next - 1, buffer)
        BY <1>4, NewestThere
    <2>2. next - 1 \in Nat /\ IsFiles(published) /\ buffer \in Seq(Entry)
          /\ \A n \in DOMAIN published : n < next - 1
        BY <1>4 DEF Inv, TypeOK, Copied
    <2>3. EntriesOf(WithOne(published, next - 1, buffer)) = EntriesOf(published) \o buffer
        BY <2>2, EntriesAppended
    <2>4. Committed' = WithNewest /\ Written = published
        BY <1>1, <1>4, <2>1 DEF Committed, Written
    <2> QED
        BY <1>2, <2>1, <2>3, <2>4 DEF Saved, Known
<1> QED
    BY <1>1, <1>3, <1>4

\* Loading leaves the segments that count, and no others.
LEMMA LoadedAll ==
    ASSUME TypeOK, Readable, LoadSegments, UNCHANGED <<shared, index>>
    PROVE  DOMAIN segs' = DOMAIN Committed /\ Saved' = Saved /\ Committed' = Committed
<1>1. Committed' = Committed
    BY Loading
<1>2. DOMAIN segs' = DOMAIN Committed
    <2>1. CASE shared
        <3>1. segs' = Without(segs, DOMAIN segs \ DOMAIN Committed)
            BY <2>1 DEF LoadSegments
        <3>2. \A n \in DOMAIN Committed : n \in DOMAIN segs
            BY <2>1 DEF Readable
        <3> QED
            BY <3>1, <3>2 DEF Without
    <2>2. CASE ~shared
        BY <2>2 DEF LoadSegments, Committed
    <2> QED
        BY <2>1, <2>2
<1> QED
    BY <1>1, <1>2 DEF Saved

\* Functions on the same domain with the same values are equal.
LEMMA FilesEqual ==
    ASSUME NEW f, IsFiles(f), NEW g, IsFiles(g), DOMAIN f = DOMAIN g,
           \A n \in DOMAIN f : f[n] = g[n]
    PROVE  f = g
BY DEF IsFiles

\* The old segments, and the new one behind them, when drop has written it.
LEMMA Swapped ==
    ASSUME Inv, Dropping, DropSwap
    PROVE  /\ EntriesOf(Rewritten)' = Kept /\ old \subseteq DOMAIN segs'
           /\ ~shared => Saved' = Saved \o Kept /\ EntriesOf(Removed)' = Saved
           /\ shared => Saved' = Saved
           /\ Rewritten' = NoFiles \/ \E n \in DOMAIN Rewritten' : /\ DOMAIN Rewritten' = {n}
                                                                   /\ \A m \in old : m < n
<1>1. /\ UNCHANGED <<shared, index, old>> /\ pc = "swap"
      /\ IF tmp = <<>> THEN UNCHANGED <<segs, next>>
                       ELSE segs' = WithSegment(next, tmp) /\ next' = next + 1
      /\ old = DOMAIN Committed /\ DOMAIN segs = old /\ tmp = Kept /\ TypeOK
    BY DEF DropSwap, Dropping, Inv
<1>2. /\ next \in Nat /\ tmp \in Seq(Entry) /\ \A n \in DOMAIN segs : n < next
      /\ IsFiles(segs) /\ DOMAIN segs \in SUBSET Nat
    BY <1>1 DEF Inv, Copied, Numbered, TypeOK, IsFiles
<1>3. Saved \in Seq(Entry) /\ Kept \in Seq(Entry) /\ Saved \o <<>> = Saved
    BY SavedTyped, BeginsIs
<1>4. shared => Saved' = Saved
    BY <1>1 DEF Saved, Committed
<1>5. ~shared => Saved = EntriesOf(segs) /\ Saved' = EntriesOf(segs')
    BY <1>1 DEF Saved, Committed
<1>6. next \notin DOMAIN segs
    <2>1. ~(next < next)
        BY <1>2
    <2> QED
        BY <1>2, <2>1
<1>7. IsFiles(NoFiles) /\ DOMAIN NoFiles = {} /\ EntriesOf(NoFiles) = <<>>
    BY NoFilesIs
<1>8. CASE tmp = <<>>
    <2>1. segs' = segs
        BY <1>1, <1>8
    <2>2. Rewritten' = NoFiles
        <3>1. DOMAIN segs' \ old' = {}
            BY <1>1, <2>1
        <3> QED
            BY <3>1 DEF Rewritten, Without, NoFiles
    <2>3. Removed' = segs
        <3>1. DOMAIN segs' \ (DOMAIN segs' \ old') = DOMAIN segs
            BY <1>1, <2>1
        <3>2. segs = [n \in DOMAIN segs |-> segs[n]]
            BY <1>2 DEF IsFiles
        <3> QED
            BY <2>1, <3>1, <3>2 DEF Removed, Without
    <2>4. EntriesOf(Rewritten)' = Kept
        BY <1>1, <1>7, <1>8, <2>2
    <2>5. ~shared => Saved' = Saved \o Kept
        BY <1>1, <1>3, <1>5, <1>8, <2>1
    <2>6. ~shared => EntriesOf(Removed)' = Saved
        BY <1>5, <2>3
    <2> QED
        BY <1>1, <1>4, <2>1, <2>2, <2>4, <2>5, <2>6
<1>9. CASE tmp # <<>>
    <2>1. segs' = WithSegment(next, tmp)
        BY <1>1, <1>9
    <2>2. /\ WithSegment(next, tmp) = WithOne(segs, next, tmp)
          /\ IsFiles(WithSegment(next, tmp))
          /\ DOMAIN WithSegment(next, tmp) = DOMAIN segs \cup {next}
          /\ WithSegment(next, tmp)[next] = tmp
          /\ \A m \in DOMAIN segs : m # next => WithSegment(next, tmp)[m] = segs[m]
        BY <1>1, <1>2, SegmentAdded
    <2>3. /\ IsFiles(segs') /\ DOMAIN segs' = DOMAIN segs \cup {next} /\ segs'[next] = tmp
          /\ \A m \in DOMAIN segs : segs'[m] = segs[m]
        BY <1>6, <2>1, <2>2
    <2>4. EntriesOf(segs') = EntriesOf(segs) \o tmp
        BY <1>2, <2>1, <2>2, EntriesAppended
    <2> DEFINE new == WithOne(NoFiles, next, tmp)
    <2>5. /\ IsFiles(new) /\ DOMAIN new = {next} /\ new[next] = tmp
        <3>1. /\ IsFiles(NoFiles) /\ next \in Nat /\ tmp \in Seq(Entry)
            BY <1>2, <1>7
        <3>2. Adds(new, NoFiles, next, tmp)
            BY <3>1, WithOneIs
        <3> HIDE DEF new
        <3> QED
            BY <1>7, <3>2 DEF Adds
    <2>6. EntriesOf(new) = <<>> \o tmp
        BY <1>2, <1>7, EntriesAppended
    <2>7. <<>> \o tmp = tmp
        BY <1>2
    <2> HIDE DEF new
    <2>8. /\ IsFiles(Rewritten') /\ DOMAIN Rewritten' = {next} /\ Rewritten'[next] = tmp
        <3>1. Rewritten' = Without(segs', old)
            BY <1>1 DEF Rewritten
        <3>2. DOMAIN segs' \ old = {next}
            BY <1>1, <1>6, <2>3
        <3> DEFINE g == Without(segs', old)
        <3>3. /\ IsFiles(g) /\ DOMAIN g = DOMAIN segs' \ old
              /\ \A n \in DOMAIN segs' \ old : g[n] = segs'[n]
            BY <2>3, WithoutIs
        <3> HIDE DEF g
        <3> QED
            BY <2>3, <3>1, <3>2, <3>3 DEF g
    <2>9. Rewritten' = new
        BY <2>5, <2>8, FilesEqual
    <2>10. Removed' = segs
        <3> DEFINE g == Without(segs', DOMAIN segs' \ old)
        <3>1. Removed' = g
            BY <1>1 DEF Removed
        <3>2. DOMAIN segs' \ (DOMAIN segs' \ old) = DOMAIN segs
            BY <1>1, <2>3
        <3>3. /\ IsFiles(g) /\ DOMAIN g = DOMAIN segs' \ (DOMAIN segs' \ old)
              /\ \A n \in DOMAIN segs' \ (DOMAIN segs' \ old) : g[n] = segs'[n]
            BY <2>3, WithoutIs
        <3> HIDE DEF g
        <3>4. g = segs
            BY <1>2, <2>3, <3>2, <3>3, FilesEqual
        <3> QED
            BY <3>1, <3>4
    <2>11. EntriesOf(Rewritten)' = Kept
        BY <1>1, <2>6, <2>7, <2>9
    <2>12. ~shared => Saved' = Saved \o Kept /\ EntriesOf(Removed)' = Saved
        BY <1>1, <1>5, <2>4, <2>10
    <2>13. \E n \in DOMAIN Rewritten' : DOMAIN Rewritten' = {n} /\ \A m \in old : m < n
        BY <1>1, <1>2, <2>8
    <2>14. old \subseteq DOMAIN segs'
        BY <1>1, <2>3
    <2> QED
        BY <1>4, <2>11, <2>12, <2>13, <2>14
<1> QED
    BY <1>8, <1>9

\* The segments f are those of a, and one newer than all of them in b, if any.
Joins(f, a, b) ==
    /\ IsFiles(f) /\ IsFiles(a) /\ IsFiles(b)
    /\ DOMAIN f = DOMAIN a \cup DOMAIN b
    /\ \A n \in DOMAIN a : n \notin DOMAIN b /\ a[n] = f[n]
    /\ \A n \in DOMAIN b : b[n] = f[n]
    /\ DOMAIN b = {} \/ \E n \in DOMAIN b : DOMAIN b = {n} /\ \A m \in DOMAIN a : m < n

\* Their entries are those of a, and behind them those of b.
LEMMA Joined ==
    ASSUME NEW f, NEW a, NEW b, Joins(f, a, b)
    PROVE  EntriesOf(f) = EntriesOf(a) \o EntriesOf(b)
<1>0. /\ IsFiles(f) /\ IsFiles(a) /\ IsFiles(b)
      /\ DOMAIN f = DOMAIN a \cup DOMAIN b
      /\ \A n \in DOMAIN a : n \notin DOMAIN b /\ a[n] = f[n]
      /\ \A n \in DOMAIN b : b[n] = f[n]
      /\ DOMAIN b = {} \/ \E n \in DOMAIN b : DOMAIN b = {n} /\ \A m \in DOMAIN a : m < n
    BY DEF Joins
<1>1. EntriesOf(a) \in Seq(Entry)
    BY <1>0, EntriesTyped
<1>2. CASE DOMAIN b = {}
    <2>1. EntriesOf(b) = <<>>
        BY <1>2 DEF EntriesOf
    <2>2. f = a
        BY <1>0, <1>2, FilesEqual
    <2>3. EntriesOf(a) \o <<>> = EntriesOf(a)
        <3> DEFINE es == EntriesOf(a)
        <3>1. es \in Seq(Entry)
            BY <1>1
        <3> HIDE DEF es
        <3>2. es \o <<>> = es
            BY <3>1
        <3> QED
            BY <3>2 DEF es
    <2> QED
        BY <2>1, <2>2, <2>3
<1>3. ASSUME NEW n \in DOMAIN b, DOMAIN b = {n}, \A m \in DOMAIN a : m < n
      PROVE  EntriesOf(f) = EntriesOf(a) \o EntriesOf(b)
    <2>0. PICK es : es = b[n]
        OBVIOUS
    <2> DEFINE g == WithOne(a, n, es)
               new == WithOne(NoFiles, n, es)
    <2>1. n \in Nat /\ es \in Seq(Entry) /\ f[n] = es
        BY <1>0, <1>3, <2>0 DEF IsFiles
    <2>2. IsFiles(NoFiles) /\ DOMAIN NoFiles = {} /\ EntriesOf(NoFiles) = <<>>
        BY NoFilesIs
    <2>3. /\ IsFiles(g) /\ DOMAIN g = DOMAIN a \cup {n} /\ g[n] = es
          /\ \A m \in DOMAIN a : m # n => g[m] = a[m]
        <3>1. IsFiles(a) /\ n \in Nat /\ es \in Seq(Entry)
            BY <1>0, <2>1
        <3>2. Adds(g, a, n, es)
            BY <3>1, WithOneIs
        <3> HIDE DEF g
        <3> QED
            BY <3>2 DEF Adds
    <2>4. EntriesOf(g) = EntriesOf(a) \o es
        BY <1>0, <1>3, <2>1, EntriesAppended
    <2>5. IsFiles(new) /\ DOMAIN new = DOMAIN NoFiles \cup {n} /\ new[n] = es
        <3>1. IsFiles(NoFiles) /\ n \in Nat /\ es \in Seq(Entry)
            BY <2>1, <2>2
        <3>2. Adds(new, NoFiles, n, es)
            BY <3>1, WithOneIs
        <3> HIDE DEF new
        <3> QED
            BY <3>2 DEF Adds
    <2>6. EntriesOf(new) = EntriesOf(NoFiles) \o es
        <3>1. /\ IsFiles(NoFiles) /\ n \in Nat /\ es \in Seq(Entry)
              /\ \A m \in DOMAIN NoFiles : m < n
            BY <2>1, <2>2
        <3> QED
            BY <3>1, EntriesAppended
    <2> HIDE DEF g, new
    <2>7. g = f
        <3>1. DOMAIN g = DOMAIN f
            BY <1>0, <1>3, <2>3
        <3>2. ASSUME NEW m \in DOMAIN g PROVE g[m] = f[m]
            BY <1>0, <1>3, <2>1, <2>3
        <3> QED
            BY <1>0, <2>3, <3>1, <3>2, FilesEqual
    <2>8. new = b
        <3>1. DOMAIN new = DOMAIN b /\ \A m \in DOMAIN b : new[m] = b[m]
            BY <1>3, <2>0, <2>2, <2>5
        <3> QED
            BY <1>0, <2>5, <3>1, FilesEqual
    <2>9. <<>> \o es = es
        BY <2>1
    <2> QED
        BY <2>2, <2>4, <2>6, <2>7, <2>8, <2>9
<1> QED
    BY <1>0, <1>2, <1>3

\* Removing the newest of the old segments leaves fewer first entries.
LEMMA Unlinked ==
    ASSUME Inv, TypeOK', Removing', Dropping, DropUnlink, ~shared
    PROVE  /\ \A es : Leaves(es) => Leaves(es)'
           /\ Begins(EntriesOf(Removed)', EntriesOf(Removed))
           /\ EntriesOf(Removed) \in Seq(Entry) /\ EntriesOf(Removed)' \in Seq(Entry)
           /\ Dropping'
           /\ Saved = EntriesOf(Removed) \o EntriesOf(Rewritten)
           /\ Saved' = EntriesOf(Removed)' \o EntriesOf(Rewritten)
<1> DEFINE m == NextToGo(old)
           R == Removed
           Q == Removed'
<1>1. /\ UNCHANGED <<shared, tmp, index, pc, active>> /\ pc = "unlink" /\ old # {}
      /\ segs' = Without(segs, {m}) /\ old' = old \ {m} /\ TypeOK /\ Removing
    BY DEF DropUnlink, Inv
<1>2. /\ old \subseteq DOMAIN segs /\ \E es : Leaves(es)
      /\ Rewritten = NoFiles \/ \E n \in DOMAIN Rewritten : /\ DOMAIN Rewritten = {n}
                                                            /\ \A k \in old : k < n
    BY <1>1 DEF Dropping
<1>3. /\ IsFiles(segs) /\ old \in SUBSET Nat /\ IsFiniteSet(old) /\ IsFiniteSet(old')
    BY <1>1 DEF TypeOK, Removing
<1>4. m \in old /\ \A k \in old : k <= m
    BY <1>1, <1>3, MaxIs DEF NextToGo
<1> HIDE DEF m
<1>5. /\ IsFiles(segs') /\ DOMAIN segs' = DOMAIN segs \ {m}
      /\ \A n \in DOMAIN segs \ {m} : segs'[n] = segs[n]
    BY <1>1, <1>3, WithoutIs
<1>6. Rewritten' = Rewritten
    <2>1. /\ IsFiles(Rewritten) /\ DOMAIN Rewritten = DOMAIN segs \ old
          /\ \A n \in DOMAIN segs \ old : Rewritten[n] = segs[n]
        BY <1>1, RewrittenIs
    <2> DEFINE g == Without(segs', old')
    <2>2. /\ IsFiles(g) /\ DOMAIN g = DOMAIN segs' \ old'
          /\ \A n \in DOMAIN segs' \ old' : g[n] = segs'[n]
        BY <1>5, WithoutIs
    <2>3. Rewritten' = g
        BY DEF Rewritten
    <2> HIDE DEF g
    <2>4. DOMAIN segs' \ old' = DOMAIN segs \ old
        BY <1>1, <1>4, <1>5
    <2>5. g = Rewritten
        <3>1. ASSUME NEW n \in DOMAIN g PROVE g[n] = Rewritten[n]
            <4>1. n \in DOMAIN segs \ old /\ n # m
                BY <1>4, <2>2, <2>4, <3>1
            <4>2. g[n] = segs'[n] /\ segs'[n] = segs[n]
                BY <1>5, <2>2, <3>1, <4>1
            <4> QED
                BY <2>1, <4>1, <4>2
        <3>2. DOMAIN g = DOMAIN Rewritten
            BY <2>1, <2>2, <2>4
        <3> QED
            BY <2>1, <2>2, <3>1, <3>2, FilesEqual
    <2> QED
        BY <2>3, <2>5
<1>7. IsFiles(R) /\ DOMAIN R = old /\ \A n \in old : R[n] = segs[n]
    <2> DEFINE g == Without(segs, DOMAIN segs \ old)
    <2>1. /\ IsFiles(g) /\ DOMAIN g = DOMAIN segs \ (DOMAIN segs \ old)
          /\ \A n \in DOMAIN segs \ (DOMAIN segs \ old) : g[n] = segs[n]
        BY <1>3, WithoutIs
    <2> HIDE DEF g
    <2>2. DOMAIN segs \ (DOMAIN segs \ old) = old
        BY <1>2
    <2>3. IsFiles(g) /\ DOMAIN g = old /\ \A n \in old : g[n] = segs[n]
        BY <2>1, <2>2
    <2> QED
        BY <2>3 DEF Removed, g
<1>8. IsFiles(Q) /\ DOMAIN Q = old \ {m} /\ \A n \in old \ {m} : Q[n] = segs[n]
    <2> DEFINE g == Without(segs', DOMAIN segs' \ old')
    <2>1. /\ IsFiles(g) /\ DOMAIN g = DOMAIN segs' \ (DOMAIN segs' \ old')
          /\ \A n \in DOMAIN segs' \ (DOMAIN segs' \ old') : g[n] = segs'[n]
        BY <1>5, WithoutIs
    <2> HIDE DEF g
    <2>2. DOMAIN segs' \ (DOMAIN segs' \ old') = old \ {m}
        BY <1>1, <1>2, <1>5
    <2>3. \A n \in old \ {m} : segs'[n] = segs[n]
        BY <1>2, <1>5
    <2>4. IsFiles(g) /\ DOMAIN g = old \ {m} /\ \A n \in old \ {m} : g[n] = segs[n]
        BY <2>1, <2>2, <2>3
    <2> QED
        BY <2>4 DEF Removed, g
<1> HIDE DEF R, Q
<1>9. EntriesOf(R) \in Seq(Entry) /\ EntriesOf(Q) \in Seq(Entry)
    BY <1>7, <1>8, EntriesTyped
<1>10. Begins(EntriesOf(Q), EntriesOf(R))
    <2> DEFINE es == segs[m]
               f == WithOne(Q, m, es)
    <2>1. m \in Nat /\ es \in Seq(Entry) /\ \A n \in DOMAIN Q : n < m
        <3>1. m \in Nat /\ m \in DOMAIN segs
            BY <1>2, <1>3, <1>4
        <3>2. ASSUME NEW n \in DOMAIN Q PROVE n < m
            <4>1. n \in old /\ n # m
                BY <1>8
            <4>2. n \in Nat /\ n <= m
                BY <1>3, <1>4, <4>1
            <4> QED
                BY <3>1, <4>1, <4>2
        <3> QED
            BY <1>3, <3>1, <3>2 DEF IsFiles
    <2> HIDE DEF es
    <2>a. Adds(f, Q, m, es)
        BY <1>8, <2>1, WithOneIs
    <2>2. /\ IsFiles(f) /\ DOMAIN f = DOMAIN Q \cup {m} /\ f[m] = es
          /\ \A n \in DOMAIN Q : n # m => f[n] = Q[n]
        BY <2>a DEF Adds
    <2>3. EntriesOf(f) = EntriesOf(Q) \o es
        BY <1>8, <2>1, EntriesAppended
    <2> HIDE DEF f
    <2>4. f = R
        <3>1. DOMAIN f = DOMAIN R
            BY <1>4, <1>7, <1>8, <2>2
        <3>2. ASSUME NEW n \in DOMAIN f PROVE f[n] = R[n]
            <4>1. CASE n = m
                BY <1>4, <1>7, <2>2, <4>1 DEF es
            <4>2. CASE n # m
                BY <1>7, <1>8, <2>2, <3>1, <4>2
            <4> QED
                BY <4>1, <4>2
        <3> QED
            BY <1>7, <2>2, <3>1, <3>2, FilesEqual
    <2> DEFINE q == EntriesOf(Q)
    <2>5. q \in Seq(Entry) /\ EntriesOf(R) = q \o es
        BY <1>9, <2>3, <2>4
    <2> HIDE DEF q
    <2>6. Begins(q, q \o es)
        BY <2>1, <2>5, BeginsIs
    <2> QED
        BY <2>5, <2>6 DEF q
<1>11. ASSUME NEW es, Leaves(es) PROVE Leaves(es)'
    <2>1. es \in Seq(Entry) /\ Sound(es) /\ Begins(EntriesOf(R), es)
        BY <1>11 DEF Leaves, R
    <2>2. Begins(EntriesOf(Q), es)
        <3> DEFINE r == EntriesOf(R)
                   q == EntriesOf(Q)
        <3>1. r \in Seq(Entry) /\ q \in Seq(Entry) /\ Begins(q, r) /\ Begins(r, es)
            BY <1>9, <1>10, <2>1
        <3> HIDE DEF r, q
        <3>2. Len(q) <= Len(es)
            BY <2>1, <3>1 DEF Begins
        <3>3. ASSUME NEW j \in 1 .. Len(q) PROVE q[j] = es[j]
            <4>1. j \in 1 .. Len(r)
                BY <3>1 DEF Begins
            <4> QED
                BY <3>1, <4>1 DEF Begins
        <3>4. Begins(q, es)
            BY <3>2, <3>3 DEF Begins
        <3> QED
            BY <3>4 DEF q
    <2>3. EntriesOf(Rewritten)' = Others(es, active)'
        BY <1>1, <1>6, <1>11 DEF Leaves
    <2>4. Begins(EntriesOf(Removed)', es)
        BY <2>2 DEF Q
    <2> QED
        BY <2>1, <2>3, <2>4 DEF Leaves
<1>12. Dropping'
    <2>1. old' \subseteq DOMAIN segs'
        BY <1>1, <1>2, <1>5
    <2>2. \/ Rewritten' = NoFiles
          \/ \E n \in DOMAIN Rewritten' : /\ DOMAIN Rewritten' = {n}
                                          /\ \A k \in old' : k < n
        BY <1>1, <1>2, <1>6
    <2>3. \E es : Leaves(es)'
        BY <1>2, <1>11
    <2> QED
        BY <1>1, <2>1, <2>2, <2>3 DEF Dropping
<1> DEFINE W == Rewritten
<1>13. /\ IsFiles(W) /\ DOMAIN W = DOMAIN segs \ old
       /\ \A n \in DOMAIN segs \ old : W[n] = segs[n]
    BY <1>1, RewrittenIs
<1>14. DOMAIN W = {} \/ \E n \in DOMAIN W : DOMAIN W = {n} /\ \A k \in old : k < n
    BY <1>2, NoFilesIs
<1> HIDE DEF W
<1>15. EntriesOf(segs) = EntriesOf(R) \o EntriesOf(W)
    <2>1. /\ DOMAIN segs = DOMAIN R \cup DOMAIN W
          /\ \A n \in DOMAIN R : n \notin DOMAIN W /\ R[n] = segs[n]
          /\ \A n \in DOMAIN W : W[n] = segs[n]
        BY <1>2, <1>7, <1>13
    <2>2. DOMAIN W = {} \/ \E n \in DOMAIN W : DOMAIN W = {n} /\ \A k \in DOMAIN R : k < n
        BY <1>7, <1>14
    <2>3. Joins(segs, R, W)
        BY <1>3, <1>7, <1>13, <2>1, <2>2 DEF Joins
    <2> QED
        BY <2>3, Joined
<1>16. EntriesOf(segs') = EntriesOf(Q) \o EntriesOf(W)
    <2>1. /\ DOMAIN segs' = DOMAIN Q \cup DOMAIN W
          /\ \A n \in DOMAIN Q : n \notin DOMAIN W /\ Q[n] = segs'[n]
          /\ \A n \in DOMAIN W : W[n] = segs'[n]
        BY <1>2, <1>4, <1>5, <1>8, <1>13
    <2>2. DOMAIN W = {} \/ \E n \in DOMAIN W : DOMAIN W = {n} /\ \A k \in DOMAIN Q : k < n
        BY <1>8, <1>14
    <2>3. Joins(segs', Q, W)
        BY <1>5, <1>8, <1>13, <2>1, <2>2 DEF Joins
    <2> QED
        BY <2>3, Joined
<1>17. Saved = EntriesOf(segs) /\ Saved' = EntriesOf(segs')
    BY <1>1 DEF Saved, Committed
<1> QED
    BY <1>9, <1>10, <1>11, <1>12, <1>15, <1>16, <1>17 DEF R, Q, W

\* The entries fs say what es say; or that, less some records of the active tasks.
SaysSame(es, fs) == \A t \in Task, i \in Idx : DecodedAt(fs, t, i) = DecodedAt(es, t, i)
SaysLess(es, fs) ==
    \A t \in Task, i \in Idx :
        \/ DecodedAt(fs, t, i) = DecodedAt(es, t, i)
        \/ t \in active /\ DecodedAt(fs, t, i) = Absent

\* With no entries left but those to keep, only records of active tasks are gone.
LEMMA KeptSaid ==
    ASSUME NEW es \in Seq(Entry), Sound(es)
    PROVE  Sound(Others(es, active)) /\ SaysLess(es, Others(es, active))
<1> DEFINE o == Others(es, active)
<1>1. o \in Seq(Entry)
    BY OthersTyped
<1>2. PICK ps \in Seq(Entry) : ps = <<>> /\ Begins(ps, es) /\ ps \o o = o
    <2> HIDE DEF o
    <2>1. <<>> \o o = o /\ <<>> \in Seq(Entry) /\ Begins(<<>>, es)
        BY <1>1 DEF Begins
    <2> QED
        BY <2>1
<1>3. ASSUME NEW t \in Task, NEW i \in Idx PROVE DecodedAt(ps, t, i) = Absent
    <2>1. \A j \in 1 .. Len(ps) : ps[j] # Result(t, i)
        BY <1>2
    <2> QED
        BY <1>2, <2>1, DecodedIs
<1> DEFINE fs == ps \o o
<1>4. /\ fs \in Seq(Entry) /\ Sound(fs)
      /\ \A t \in Task, i \in Idx :
            /\ t \notin active => DecodedAt(fs, t, i) = DecodedAt(es, t, i)
            /\ t \in active => DecodedAt(fs, t, i) = DecodedAt(ps, t, i)
    <2>1. ps \in Seq(Entry) /\ Begins(ps, es)
        BY <1>2
    <2> QED
        BY <2>1, Dropped
<1> HIDE DEF fs
<1>5. fs = o
    BY <1>2 DEF fs
<1> HIDE DEF o
<1>6. Sound(o) /\ SaysLess(es, o)
    BY <1>3, <1>4, <1>5 DEF SaysLess
<1> QED
    BY <1>6 DEF o

\* The copy in place behind the old segments says what they say.
LEMMA SwapSaid ==
    ASSUME Inv, LogInv, DropSwap
    PROVE  Sound(Saved)' /\ SaysSame(Saved, Saved') /\ Dropping'
<1>1. /\ EntriesOf(Rewritten)' = Kept /\ old \subseteq DOMAIN segs'
      /\ ~shared => Saved' = Saved \o Kept /\ EntriesOf(Removed)' = Saved
      /\ shared => Saved' = Saved
      /\ Rewritten' = NoFiles \/ \E n \in DOMAIN Rewritten' : /\ DOMAIN Rewritten' = {n}
                                                              /\ \A m \in old : m < n
    BY Swapped DEF LogInv
<1>2. /\ UNCHANGED <<shared, index, old, active>> /\ pc = "swap"
      /\ pc' = IF shared THEN "reindex" ELSE "unlink"
    BY DEF DropSwap
<1>3. Saved \in Seq(Entry) /\ Sound(Saved) /\ Kept = Others(Saved, active)
    BY SavedTyped DEF LogInv, Logged
<1>4. CASE shared
    <2>1. Kept' = Kept
        BY <1>2, <1>4 DEF Kept, Committed
    <2> QED
        BY <1>1, <1>2, <1>3, <1>4, <2>1 DEF SaysSame, Dropping
<1>5. CASE ~shared
    <2>0. PICK es : es = Saved
        OBVIOUS
    <2> DEFINE fs == es \o Others(es, active)
    <2>1. es \in Seq(Entry) /\ Sound(es) /\ Begins(es, es)
        BY <1>3, <2>0, BeginsIs
    <2>2. /\ fs \in Seq(Entry) /\ Sound(fs)
          /\ \A t \in Task, i \in Idx :
                /\ t \notin active => DecodedAt(fs, t, i) = DecodedAt(es, t, i)
                /\ t \in active => DecodedAt(fs, t, i) = DecodedAt(es, t, i)
        BY <2>1, Dropped
    <2>3. Saved' = fs
        BY <1>1, <1>3, <1>5, <2>0
    <2> HIDE DEF fs
    <2>4. Sound(Saved)' /\ SaysSame(Saved, Saved')
        BY <2>0, <2>2, <2>3 DEF SaysSame
    <2>5. Leaves(es)'
        <3>1. EntriesOf(Rewritten)' = Others(es, active)'
            BY <1>1, <1>2, <1>3, <2>0
        <3>2. Begins(EntriesOf(Removed)', es)
            BY <1>1, <1>5, <2>0, <2>1
        <3> QED
            BY <2>1, <3>1, <3>2 DEF Leaves
    <2>6. \E s : Leaves(s)'
        BY <2>5
    <2>7. Dropping'
        BY <1>1, <1>2, <1>5, <2>6 DEF Dropping
    <2> QED
        BY <2>4, <2>7
<1> QED
    BY <1>4, <1>5

\* The index of the copy names the entries to keep.
LEMMA IndexSaid ==
    ASSUME Inv, LogInv, pc = "reindex", UNCHANGED <<shared, segs, old>>, index' = Rewritten
    PROVE  Sound(Saved)' /\ SaysLess(Saved, Saved')
<1>1. shared /\ index' # NoIndex
    BY Reindexed
<1>2. EntriesOf(Rewritten) = Kept
    BY DEF LogInv, Dropping
<1>3. Saved' = Kept
    BY <1>1, <1>2 DEF Saved, Committed
<1>4. Saved \in Seq(Entry) /\ Sound(Saved) /\ Kept = Others(Saved, active)
    BY SavedTyped DEF LogInv, Logged
<1>5. Sound(Kept) /\ SaysLess(Saved, Kept)
    BY <1>4, KeptSaid
<1> QED
    BY <1>3, <1>5

\* An old segment gone takes the latest of the dropped records left with it.
LEMMA UnlinkSaid ==
    ASSUME Inv, LogInv, TypeOK', Removing', DropUnlink
    PROVE  Sound(Saved)' /\ SaysLess(Saved, Saved') /\ (shared => Saved' = Saved) /\ Dropping'
<1>1. UNCHANGED <<shared, index, active, pc>> /\ pc = "unlink"
    BY DEF DropUnlink
<1>2. Saved \in Seq(Entry) /\ Sound(Saved) /\ Dropping
    BY SavedTyped DEF LogInv, Logged
<1>3. CASE shared
    <2>1. Saved' = Saved
        BY <1>1, <1>3 DEF Saved, Committed
    <2> QED
        BY <1>1, <1>2, <1>3, <2>1 DEF SaysLess, Dropping
<1>4. CASE ~shared
    <2> DEFINE r == EntriesOf(Removed)
               q == EntriesOf(Removed)'
    <2>1. /\ \A s : Leaves(s) => Leaves(s)'
          /\ Begins(q, r) /\ r \in Seq(Entry) /\ q \in Seq(Entry) /\ Dropping'
          /\ Saved = r \o EntriesOf(Rewritten) /\ Saved' = q \o EntriesOf(Rewritten)
        BY <1>2, <1>4, Unlinked
    <2>2. PICK es : Leaves(es)
        BY <1>1, <1>2, <1>4 DEF Dropping
    <2>3. /\ es \in Seq(Entry) /\ Sound(es) /\ Begins(r, es)
          /\ EntriesOf(Rewritten) = Others(es, active)
        BY <2>2 DEF Leaves
    <2>4. Begins(q, es)
        <3>1. Leaves(es)'
            BY <2>1, <2>2
        <3> QED
            BY <3>1 DEF Leaves
    <2> HIDE DEF r, q
    <2> DEFINE old_ == r \o Others(es, active)
               new_ == q \o Others(es, active)
    <2>5. /\ \A t \in Task, i \in Idx :
                /\ t \notin active => DecodedAt(old_, t, i) = DecodedAt(es, t, i)
                /\ t \in active => DecodedAt(old_, t, i) = DecodedAt(r, t, i)
        BY <2>1, <2>3, Dropped
    <2>6. /\ Sound(new_)
          /\ \A t \in Task, i \in Idx :
                /\ t \notin active => DecodedAt(new_, t, i) = DecodedAt(es, t, i)
                /\ t \in active => DecodedAt(new_, t, i) = DecodedAt(q, t, i)
        BY <2>1, <2>3, <2>4, Dropped
    <2>7. Saved = old_ /\ Saved' = new_
        BY <2>1, <2>3
    <2> HIDE DEF old_, new_
    <2>8. Sound(r)
        BY <2>1, <2>3, SoundBegins
    <2>9. ASSUME NEW t \in Task, NEW i \in Idx
          PROVE  DecodedAt(q, t, i) \in {DecodedAt(r, t, i), Absent}
        BY <2>1, <2>8, FewerSaid
    <2>10. SaysLess(old_, new_)
        BY <2>5, <2>6, <2>9 DEF SaysLess
    <2> QED
        BY <1>4, <2>1, <2>6, <2>7, <2>10
<1> QED
    BY <1>3, <1>4

\* The entries fs say what es say, and of one more instance that it has trace v.
SaysMore(es, fs, t, i, v) ==
    /\ DecodedAt(fs, t, i) = v
    /\ \A u \in Task, k \in Idx : <<u, k>> # <<t, i>> => DecodedAt(fs, u, k) = DecodedAt(es, u, k)

\* Steps of a write leave what is known; what they save is all of it, or nothing.
LEMMA LoggedKept ==
    ASSUME Inv, Logged, Known' = Known, Recording' => Recording,
           Saved' = Saved \/ (Recording /\ Saved' = Known),
           recording' \subseteq recording, entering' \in {entering, None},
           entering' # None => recording' = recording \/ entering.task \in recording'
    PROVE  Logged'
<1>1. Sound(Saved)'
    BY DEF Logged
<1>2. ASSUME Recording' PROVE Sound(Known)' /\ \A t \in recording' : HasHeader(Known', t)
    BY <1>2 DEF Logged
<1>3. ASSUME Recording', entering' # None
      PROVE  /\ entering'.task \in recording'
             /\ DecodedAt(Known', entering'.task, entering'.idx) = Absent
    <2>1. entering' = entering /\ entering # None
        BY <1>3
    <2> QED
        BY <1>3, <2>1 DEF Logged
<1> QED
    BY <1>1, <1>2, <1>3 DEF Logged

\* What a restored process knows is what was saved, with the headers it lacked.
LEMMA RestoreSaid ==
    ASSUME Inv, Logged, Restore
    PROVE  Saved' = Saved /\ Logged' /\ SaysSame(Saved, Known')
<1> DEFINE S == {t \in active : ~HasHeader(Saved, t)}
<1>1. /\ Known' = EntriesOf(Committed) \o buffer'
      /\ pc = "restore" /\ Readable /\ LoadSegments /\ UNCHANGED <<shared, index, entering>>
      /\ TypeOK /\ active \in SUBSET Task /\ recording' = active
      /\ buffer' \in SetToSeqs({Header(t) : t \in S})
    BY RestoreInStep DEF Restore, Load, Inv, TypeOK, Saved
<1>2. Saved' = Saved
    BY <1>1, LoadedAll
<1>3. Saved \in Seq(Entry) /\ Sound(Saved)
    BY SavedTyped DEF Logged
<1>4. PICK hs : hs = buffer'
    OBVIOUS
<1>5. hs \in SetToSeqs({Header(t) : t \in S}) /\ S \in SUBSET Task
    BY <1>1, <1>4
<1>6. /\ hs \in Seq(Entry) /\ \A k \in 1 .. Len(hs) : hs[k].kind = "header"
      /\ \A t \in S : \E k \in 1 .. Len(hs) : hs[k] = Header(t)
    <2> HIDE DEF S
    <2> QED
        BY <1>5, HeadersAre
<1>7. PICK es : es = Saved
    OBVIOUS
<1>8. es \in Seq(Entry) /\ Sound(es) /\ \A k \in 1 .. Len(hs) : hs[k].kind = "header"
    BY <1>3, <1>6, <1>7
<1>9. /\ Sound(es \o hs)
      /\ \A u \in Task, k \in Idx : DecodedAt(es \o hs, u, k) = DecodedAt(es, u, k)
      /\ \A t \in Task : HasHeader(es, t) \/ (\E k \in 1 .. Len(hs) : hs[k] = Header(t))
            => HasHeader(es \o hs, t)
    BY <1>6, <1>8, HeadersSaid
<1>10. Known' = es \o hs
    BY <1>1, <1>4, <1>7 DEF Saved
<1>11. SaysSame(Saved, Known') /\ Sound(Known)'
    BY <1>7, <1>9, <1>10 DEF SaysSame
<1>12. ASSUME NEW t \in recording' PROVE HasHeader(Known', t)
    <2>1. t \in Task /\ (HasHeader(es, t) \/ t \in S)
        BY <1>1, <1>7, <1>12
    <2> QED
        BY <1>6, <1>9, <1>10, <2>1
<1>13. entering' = None
    BY <1>1 DEF Inv, Entering
<1> QED
    BY <1>2, <1>3, <1>11, <1>12, <1>13 DEF Logged

\* A record with the current trace is there at once; another is under way.
LEMMA RecordSaid ==
    ASSUME Inv, Logged, NEW t \in Task, NEW i \in Idx, NEW v \in Trace, NEW full \in BOOLEAN,
           Record(t, i, v, full)
    PROVE  /\ Saved' = Saved /\ Logged' /\ DecodedAt(Known, t, i) = Absent
           /\ SaysMore(Known, Known', t, i, v) \/ SaysSame(Known, Known')
<1>1. /\ pc = "run" /\ entering = None /\ t \in recording /\ DecodedAt(Known, t, i) = Absent
      /\ UNCHANGED <<disk, recording, published>>
    BY DEF Record, Unrecorded
<1>2. TypeOK /\ Recording /\ Known \in Seq(Entry) /\ shared' = shared /\ segs' = segs
    BY <1>1, SavedTyped DEF Inv, Recording, disk
<1>3. Saved' = Saved
    BY <1>1, SavedSame DEF disk
<1>4. PICK es : es = Known
    OBVIOUS
<1>5. /\ es \in Seq(Entry) /\ Sound(es) /\ HasHeader(es, t) /\ DecodedAt(es, t, i) = Absent
      /\ \A u \in recording : HasHeader(es, u)
    BY <1>1, <1>2, <1>4 DEF Logged
<1>6. Sound(Saved)'
    BY <1>3 DEF Logged
<1>7. recording \in SUBSET Task
    BY <1>2 DEF TypeOK
<1>8. CASE v = trace[t]
    <2> DEFINE e == Result(t, i)
    <2>1. AppendEntry(t, e, full) /\ entering' = None /\ e \in Entry
        BY <1>1, <1>8, EntryOf DEF Record
    <2>2. Known' = Append(Known, e)
        <3> HIDE DEF e
        <3> QED
            BY <1>1, <1>2, <2>1, AppendTyped
    <2>3. Known' = Append(es, Result(t, i))
        BY <1>4, <2>2
    <2>4. /\ Sound(Append(es, Result(t, i)))
          /\ DecodedAt(Append(es, Result(t, i)), t, i) = TraceAt(es, Len(es), t)
          /\ \A u \in Task, k \in Idx : <<u, k>> # <<t, i>> =>
                DecodedAt(Append(es, Result(t, i)), u, k) = DecodedAt(es, u, k)
        BY <1>5, ResultSaid
    <2>5. TraceAt(es, Len(es), t) = v
        <3>1. LastTrace(Known)[t] = trace[t]
            BY <1>1, <1>2 DEF Inv, InStep
        <3> QED
            BY <1>4, <1>8, <3>1 DEF LastTrace
    <2>6. SaysMore(Known, Known', t, i, v)
        BY <1>4, <2>3, <2>4, <2>5 DEF SaysMore
    <2>7. ASSUME NEW u \in recording' PROVE HasHeader(Known', u)
        <3>1. u \in Task /\ HasHeader(es, u)
            BY <1>1, <1>5, <1>7
        <3>2. HasHeader(Append(es, e), u)
            <4> HIDE DEF e
            <4> QED
                BY <1>5, <2>1, <3>1, AppendedIs
        <3> QED
            BY <2>3, <3>2
    <2>8. Logged'
        BY <1>6, <2>1, <2>3, <2>4, <2>7 DEF Logged
    <2> QED
        BY <1>1, <1>3, <2>6, <2>8
<1>9. CASE v # trace[t]
    <2> DEFINE e == DefaultTrace(t, v)
    <2>1. /\ AppendEntry(t, e, full) /\ e \in Entry
          /\ entering' = [task |-> t, idx |-> i, trace |-> v]
        BY <1>1, <1>9, EntryOf DEF Record
    <2>2. Known' = Append(Known, e)
        <3> HIDE DEF e
        <3> QED
            BY <1>1, <1>2, <2>1, AppendTyped
    <2>3. Known' = Append(es, DefaultTrace(t, v))
        BY <1>4, <2>2
    <2>4. /\ Sound(Append(es, DefaultTrace(t, v)))
          /\ \A u \in Task, k \in Idx :
                DecodedAt(Append(es, DefaultTrace(t, v)), u, k) = DecodedAt(es, u, k)
        BY <1>5, TraceSaid
    <2>5. SaysSame(Known, Known') /\ DecodedAt(Known', t, i) = Absent
        BY <1>4, <1>5, <2>3, <2>4 DEF SaysSame
    <2>6. ASSUME NEW u \in recording' PROVE HasHeader(Known', u)
        <3>1. u \in Task /\ HasHeader(es, u)
            BY <1>1, <1>5, <1>7
        <3>2. HasHeader(Append(es, e), u)
            <4> HIDE DEF e
            <4> QED
                BY <1>5, <2>1, <3>1, AppendedIs
        <3> QED
            BY <2>3, <3>2
    <2>7. entering'.task = t /\ entering'.idx = i /\ t \in recording'
        BY <1>1, <2>1
    <2>8. Sound(Known)'
        BY <2>3, <2>4
    <2>9. Logged'
        BY <1>6, <2>5, <2>6, <2>7, <2>8 DEF Logged
    <2> QED
        BY <1>1, <1>3, <2>5, <2>9
<1> QED
    BY <1>8, <1>9

\* The record that was under way has the trace appended before it.
LEMMA RestSaid ==
    ASSUME Inv, Logged, NEW full \in BOOLEAN, RecordRest(full)
    PROVE  /\ Saved' = Saved /\ Logged'
           /\ \E t \in Task, i \in Idx, v \in Trace :
                 DecodedAt(Known, t, i) = Absent /\ SaysMore(Known, Known', t, i, v)
<1> DEFINE t == entering.task
           i == entering.idx
           v == entering.trace
           e == Result(t, i)
<1>1. /\ pc = "run" /\ entering # None /\ entering' = None /\ AppendEntry(t, e, full)
      /\ UNCHANGED <<disk, recording, published>>
    BY DEF RecordRest
<1>2. TypeOK /\ Recording /\ Known \in Seq(Entry) /\ shared' = shared /\ segs' = segs
    BY <1>1, SavedTyped DEF Inv, Recording, disk
<1>3. t \in Task /\ i \in Idx /\ v \in Trace
    BY <1>1, <1>2 DEF TypeOK
<1>4. Saved' = Saved
    BY <1>1, SavedSame DEF disk
<1>5. PICK es : es = Known
    OBVIOUS
<1>6. /\ es \in Seq(Entry) /\ Sound(es) /\ t \in recording /\ HasHeader(es, t)
      /\ DecodedAt(es, t, i) = Absent /\ \A u \in recording : HasHeader(es, u)
    BY <1>1, <1>2, <1>5 DEF Logged
<1>7. recording \in SUBSET Task
    BY <1>2 DEF TypeOK
<1>8. TraceAt(es, Len(es), t) = v
    <2>1. LastTrace(Known)[t] = v
        BY <1>1, <1>2, <1>6 DEF Inv, InStep
    <2> QED
        BY <1>3, <1>5, <2>1 DEF LastTrace
<1> HIDE DEF t, i, v
<1>9. e \in Entry
    BY <1>3, EntryOf
<1>10. Known' = Append(Known, e)
    <2> HIDE DEF e
    <2> QED
        BY <1>1, <1>2, <1>3, <1>9, AppendTyped
<1>11. Known' = Append(es, Result(t, i))
    BY <1>5, <1>10
<1>12. /\ Sound(Append(es, Result(t, i)))
       /\ DecodedAt(Append(es, Result(t, i)), t, i) = TraceAt(es, Len(es), t)
       /\ \A u \in Task, k \in Idx : <<u, k>> # <<t, i>> =>
             DecodedAt(Append(es, Result(t, i)), u, k) = DecodedAt(es, u, k)
    BY <1>3, <1>6, ResultSaid
<1>13. SaysMore(Known, Known', t, i, v)
    BY <1>5, <1>8, <1>11, <1>12 DEF SaysMore
<1>14. ASSUME NEW u \in recording' PROVE HasHeader(Known', u)
    <2>1. u \in Task /\ HasHeader(es, u)
        BY <1>1, <1>6, <1>7, <1>14
    <2>2. HasHeader(Append(es, e), u)
        <3> HIDE DEF e
        <3> QED
            BY <1>6, <1>9, <2>1, AppendedIs
    <2> QED
        BY <1>11, <2>2
<1>15. Sound(Known)' /\ Sound(Saved)'
    BY <1>4, <1>11, <1>12 DEF Logged
<1>16. Logged'
    BY <1>1, <1>14, <1>15 DEF Logged
<1>17. DecodedAt(Known, t, i) = Absent
    BY <1>5, <1>6
<1> QED
    BY <1>3, <1>4, <1>13, <1>16, <1>17

\* What is known is saved by a write, or stays to be saved.
LEMMA WriteSaid ==
    ASSUME Inv, Logged, TypeOK',
           \/ Flush \/ \E next_ \in {"exit", "discard"} : Close(next_)
           \/ WriteNothing \/ InitializeInventory \/ WriteTmp \/ RenameSegment \/ WriteIndex
           \/ WriteFails
    PROVE  /\ Logged' /\ Known' = Known /\ Recording
           /\ Saved' = Saved \/ Saved' = Known
           /\ pc' \in {"run", "write", "rename", "index", "exit", "discard"}
<1>1. Recording /\ TypeOK
    BY DEF Flush, Close, WriteNothing, InitializeInventory, WriteTmp, RenameSegment, WriteIndex,
           WriteFails, Recording, Inv
<1>2. CASE \/ Flush \/ (\E next_ \in {"exit", "discard"} : Close(next_)) \/ WriteNothing
           \/ WriteTmp
    <2>1. /\ UNCHANGED <<shared, segs, index, published, buffer, recording, entering>>
          /\ pc' \in {"run", "write", "rename", "exit", "discard"}
        <3>1. CASE Flush \/ \E next_ \in {"exit", "discard"} : Close(next_)
            BY <3>1 DEF Flush, Close, disk, memory
        <3>2. CASE WriteNothing
            <4>1. Proceed /\ UNCHANGED <<disk, memory>>
                BY <3>2 DEF WriteNothing
            <4> QED
                BY <1>1, <4>1, Proceeding DEF disk, memory
        <3>3. CASE WriteTmp
            BY <3>3 DEF WriteTmp, memory
        <3> QED
            BY <1>2, <3>1, <3>2, <3>3
    <2>2. Known' = Known /\ Saved' = Saved
        BY <2>1, KnownSame, SavedSame
    <2>3. Logged'
        BY <1>1, <2>1, <2>2, LoggedKept
    <2> QED
        BY <1>1, <2>1, <2>2, <2>3
<1>3. CASE InitializeInventory
    <2>1. /\ UNCHANGED <<shared, segs, published, buffer, recording, entering, pc>>
          /\ shared /\ index = NoIndex /\ index' = NoFiles /\ pc = "write"
        BY <1>3 DEF InitializeInventory, memory
    <2>2. Known' = Known
        BY <2>1, KnownSame
    <2>3. Saved' = Saved
        BY <2>1 DEF Saved, Committed
    <2>4. Logged'
        BY <1>1, <2>1, <2>2, <2>3, LoggedKept
    <2> QED
        BY <1>1, <2>1, <2>2, <2>3, <2>4
<1>4. CASE RenameSegment \/ WriteIndex
    <2>1. UNCHANGED <<recording, entering>>
        BY <1>4 DEF RenameSegment, WriteIndex
    <2>2. pc' \in {"index", "run", "exit", "discard"}
        <3>1. CASE Proceed
            BY <1>1, <3>1, Proceeding
        <3>2. CASE pc' = "index"
            BY <3>2
        <3> QED
            BY <1>4, <3>1, <3>2 DEF RenameSegment, WriteIndex
    <2>3. Known' = Known
        BY <1>4, KnownWritten
    <2>4. Saved' = Saved \/ Saved' = Known
        <3>1. CASE RenameSegment /\ shared
            <4>1. UNCHANGED <<shared, index>>
                BY <3>1 DEF RenameSegment
            <4> QED
                BY <3>1, <4>1 DEF Saved, Committed
        <3>2. CASE (RenameSegment /\ ~shared) \/ WriteIndex
            BY <3>2, SavedAll
        <3> QED
            BY <1>4, <3>1, <3>2
    <2>5. Logged'
        BY <1>1, <2>1, <2>3, <2>4, LoggedKept
    <2> QED
        BY <1>1, <2>2, <2>3, <2>4, <2>5
<1>5. CASE WriteFails
    <2>1. /\ Proceed /\ recording' = recording \ {then}
          /\ entering' = IF then \in Task THEN None ELSE entering
        BY <1>5 DEF WriteFails
    <2>2. pc' \in {"run", "exit", "discard"}
        BY <1>1, <2>1, Proceeding
    <2>3. Known' = Known /\ (Saved' = Saved \/ Saved' = Known)
        BY <1>5, SavedByFailure
    <2>4. entering' # None => recording' = recording
        BY <1>1, <2>1 DEF TypeOK
    <2>5. recording' \subseteq recording /\ entering' \in {entering, None}
        BY <2>1
    <2>6. Logged'
        BY <1>1, <2>3, <2>4, <2>5, LoggedKept
    <2> QED
        BY <1>1, <2>2, <2>3, <2>6
<1> QED
    BY <1>2, <1>3, <1>4, <1>5

\* A drop goes through what is saved, and when it removes anything, then records
\* of the tasks it is about.
LEMMA DropSaid ==
    ASSUME Inv, LogInv, TypeOK', Removing',
           \/ DropBuffer \/ DropNothing \/ DropCopy \/ DropSwap \/ DropIndex \/ DropUnlink
           \/ DropEnd \/ DropFails
    PROVE  /\ LogInv' /\ ~Recording /\ ~Recording' /\ active' = active
           /\ DropBuffer => Saved' = Saved /\ pc = "discard" /\ pc' = "drop"
           /\ DropNothing \/ DropEnd => Saved' = Saved /\ pc' = "exit"
           /\ DropCopy \/ DropSwap =>
                 /\ SaysSame(Saved, Saved') /\ pc \in {"drop", "swap"}
                 /\ pc' \in {"swap", "reindex", "unlink"}
           /\ DropIndex \/ DropUnlink =>
                 SaysLess(Saved, Saved') /\ pc \in {"reindex", "unlink"} /\ pc' = "unlink"
           /\ DropFails => /\ SaysLess(Saved, Saved') /\ pc' = "exit"
                           /\ pc \in {"drop", "swap", "reindex", "unlink"}
<1>1. TypeOK /\ Readable /\ Resting /\ Logged /\ Sound(Saved)
    BY DEF Inv, LogInv, Logged
<1>2. /\ ~Recording /\ active' = active
      /\ DropBuffer => pc = "discard" /\ pc' = "drop" /\ UNCHANGED <<shared, segs, index>>
      /\ DropNothing => pc' = "exit" /\ Load
      /\ DropEnd => pc' = "exit" /\ UNCHANGED <<shared, segs, index>>
      /\ DropCopy => /\ pc = "drop" /\ pc' = "swap" /\ LoadSegments /\ UNCHANGED <<shared, index>>
                     /\ tmp' = Kept /\ old' = DOMAIN Committed
      /\ DropSwap => pc = "swap" /\ pc' \in {"reindex", "unlink"}
      /\ DropIndex => /\ pc = "reindex" /\ pc' = "unlink" /\ index' = Rewritten
                      /\ UNCHANGED <<shared, segs, old>>
      /\ DropUnlink => pc = "unlink" /\ pc' = "unlink"
      /\ DropFails => /\ pc \in {"drop", "swap", "reindex", "unlink"} /\ pc' = "exit"
                      /\ UNCHANGED <<shared, segs, old>>
                      /\ index' = index \/ (pc = "reindex" /\ index' = Rewritten)
    <2>1. DropNothing \/ DropEnd => pc' = "exit"
        <3>1. DropNothing \/ DropEnd => Proceed /\ pc \in {"drop", "unlink"}
            BY DEF DropNothing, DropEnd
        <3>2. pc \in {"drop", "unlink"} => then = "exit"
            BY <1>1 DEF Resting
        <3> QED
            BY <1>1, <3>1, <3>2, Proceeding
    <2>2. /\ ~Recording /\ active' = active
        BY DEF DropBuffer, DropNothing, DropCopy, DropSwap, DropIndex, DropUnlink, DropEnd,
               DropFails, Recording, memory
    <2> QED
        BY <2>1, <2>2 DEF DropBuffer, DropNothing, DropCopy, DropSwap, DropIndex, DropUnlink,
                          DropEnd, DropFails, disk, memory
<1>3. ~Recording'
    BY <1>2 DEF Recording
<1>4. ASSUME Sound(Saved)' PROVE Logged'
    BY <1>3, <1>4 DEF Logged
<1>5. ASSUME Saved' = Saved
      PROVE  SaysSame(Saved, Saved') /\ SaysLess(Saved, Saved') /\ Sound(Saved)'
    BY <1>1, <1>5 DEF SaysSame, SaysLess
<1>6. ASSUME pc' \in {"drop", "exit"} PROVE Dropping'
    BY <1>6 DEF Dropping
<1>7. CASE DropBuffer \/ DropEnd
    <2>1. Saved' = Saved
        BY <1>2, <1>7, SavedSame DEF Saved, Committed
    <2>2. LogInv'
        BY <1>2, <1>4, <1>5, <1>6, <1>7, <2>1 DEF LogInv
    <2>3. pc \in {"discard", "unlink"} /\ (DropEnd => pc = "unlink")
        BY <1>7 DEF DropBuffer, DropEnd
    <2> QED
        BY <1>2, <1>3, <1>5, <1>7, <2>1, <2>2, <2>3
<1>8. CASE DropNothing
    <2>1. Saved' = Saved
        BY <1>1, <1>2, <1>8, LoadedAll DEF Load
    <2>2. LogInv'
        BY <1>2, <1>4, <1>5, <1>6, <1>8, <2>1 DEF LogInv
    <2>3. pc = "drop"
        BY <1>8 DEF DropNothing
    <2> QED
        BY <1>2, <1>3, <1>5, <1>8, <2>1, <2>2, <2>3
<1>9. CASE DropCopy
    <2>1. DOMAIN segs' = DOMAIN Committed /\ Saved' = Saved /\ Committed' = Committed
        BY <1>1, <1>2, <1>9, LoadedAll
    <2>2. Kept' = Kept
        BY <1>2, <2>1 DEF Kept
    <2>3. Dropping'
        BY <1>2, <1>9, <2>1, <2>2 DEF Dropping
    <2>4. LogInv'
        BY <1>4, <1>5, <2>1, <2>3 DEF LogInv
    <2> QED
        BY <1>2, <1>3, <1>5, <1>9, <2>1, <2>4
<1>10. CASE DropSwap
    <2>1. Sound(Saved)' /\ SaysSame(Saved, Saved') /\ Dropping'
        BY <1>10, SwapSaid
    <2>2. LogInv'
        BY <1>4, <2>1 DEF LogInv
    <2> QED
        BY <1>2, <1>3, <1>10, <2>1, <2>2
<1>11. CASE DropIndex
    <2>1. Sound(Saved)' /\ SaysLess(Saved, Saved')
        BY <1>2, <1>11, IndexSaid
    <2>2. Dropping'
        <3>1. shared'
            BY <1>2, <1>11, Reindexed
        <3> QED
            BY <1>2, <1>11, <3>1 DEF Dropping
    <2>3. LogInv'
        BY <1>4, <2>1, <2>2 DEF LogInv
    <2> QED
        BY <1>2, <1>3, <1>11, <2>1, <2>3
<1>12. CASE DropUnlink
    <2>1. Sound(Saved)' /\ SaysLess(Saved, Saved') /\ Dropping'
        BY <1>12, UnlinkSaid
    <2>2. LogInv'
        BY <1>4, <2>1 DEF LogInv
    <2> QED
        BY <1>2, <1>3, <1>12, <2>1, <2>2
<1>13. CASE DropFails
    <2>1. Sound(Saved)' /\ SaysLess(Saved, Saved')
        <3>1. CASE index' = index
            <4>1. Saved' = Saved
                BY <1>2, <1>13, <3>1 DEF Saved, Committed
            <4> QED
                BY <1>5, <4>1
        <3>2. CASE pc = "reindex" /\ index' = Rewritten
            BY <1>2, <1>13, <3>2, IndexSaid
        <3> QED
            BY <1>2, <1>13, <3>1, <3>2
    <2>2. LogInv'
        BY <1>2, <1>4, <1>6, <1>13, <2>1 DEF LogInv
    <2>3. ~(DropNothing \/ DropEnd)
        <3>1. faults' = faults + 1 /\ faults \in 0 .. MaxFaults
            BY <1>1, <1>13 DEF DropFails, TypeOK
        <3>2. faults' # faults
            BY <3>1
        <3> QED
            BY <3>2 DEF DropNothing, DropEnd
    <2> QED
        BY <1>2, <1>3, <1>13, <2>1, <2>2, <2>3
<1> QED
    BY <1>7, <1>8, <1>9, <1>10, <1>11, <1>12, <1>13

-----------------------------------------------------------------------------
(* The promise is kept: every step is one of RecordLog, or none.           *)

\* What a stream of entries says, of all tasks.
LEMMA DecodeIs ==
    ASSUME NEW es \in Seq(Entry)
    PROVE  /\ Decode[es] = [t \in Task |-> [i \in Idx |-> DecodedAt(es, t, i)]]
           /\ Decode[es] \in [Task -> [Idx -> Trace \cup {Absent}]]
<1>1. Decode[es] = [t \in Task |-> [i \in Idx |-> DecodedAt(es, t, i)]]
    BY DEF Decode
<1>2. \A t \in Task, i \in Idx : DecodedAt(es, t, i) \in Trace \cup {Absent}
    BY DecodedIs
<1> QED
    BY <1>1, <1>2

\* The variables of RecordLog: saved, recorded and discarding.
Told == Decode[Saved]
Held == IF Recording THEN Decode[Known] ELSE Told
Leaving == IF pc \in {"drop", "swap", "reindex", "unlink"} THEN active ELSE {}

\* Its actions, in these terms.
Loses == Held' = Told /\ Leaving' = {} /\ Told' = Told
Discards ==
    /\ Told' \in [Task -> [Idx -> Trace \cup {Absent}]]
    /\ \A t \in Task, i \in Idx :
          Told'[t][i] = Told[t][i] \/ (t \in Leaving /\ Told'[t][i] = Absent)
    /\ Held' = Told' /\ Leaving' \in {Leaving, {}}
Records(t, i, v) ==
    /\ Leaving = {} /\ Held[t][i] = Absent
    /\ Held' = [Held EXCEPT ![t][i] = v]
    /\ UNCHANGED <<Told, Leaving>>

\* A step that is one of them, or none, is allowed.
LEMMA LogSteps ==
    ASSUME \/ UNCHANGED <<Told, Held, Leaving>>
           \/ Told' = Held /\ UNCHANGED <<Held, Leaving>>
           \/ Loses
           \/ \E t \in Task, i \in Idx, v \in Trace : Records(t, i, v)
           \/ \E S \in SUBSET Task :
                 Leaving = {} /\ Leaving' = S /\ Held' = Told /\ UNCHANGED Told
           \/ Discards
           \/ Leaving' = {} /\ UNCHANGED <<Told, Held>>
    PROVE  [Log!Next]_Log!vars
<1>1. CASE UNCHANGED <<Told, Held, Leaving>>
    BY <1>1 DEF Log!vars, Told, Held, Leaving, Saved, Recording
<1>2. CASE Told' = Held /\ UNCHANGED <<Held, Leaving>>
    BY <1>2 DEF Log!Next, Log!Save, Told, Held, Leaving, Saved, Recording
<1>3. CASE Loses
    BY <1>3 DEF Log!Next, Log!Lose, Loses, Told, Held, Leaving, Saved, Recording
<1>4. ASSUME NEW t \in Task, NEW i \in Idx, NEW v \in Trace, Records(t, i, v)
      PROVE  [Log!Next]_Log!vars
    <2>1. Log!Record(t, i, v)
        BY <1>4 DEF Log!Record, Records, Told, Held, Leaving, Saved, Recording
    <2> QED
        BY <2>1 DEF Log!Next
<1>5. ASSUME NEW S \in SUBSET Task,
             Leaving = {} /\ Leaving' = S /\ Held' = Told /\ UNCHANGED Told
      PROVE  [Log!Next]_Log!vars
    <2>1. Log!BeginDiscard(S)
        BY <1>5 DEF Log!BeginDiscard, Told, Held, Leaving, Saved, Recording
    <2> QED
        BY <2>1 DEF Log!Next
<1>6. CASE Discards
    <2>1. Log!Discard
        BY <1>6 DEF Log!Discard, Log!View, Discards, Told, Held, Leaving, Saved, Recording
    <2> QED
        BY <2>1 DEF Log!Next
<1>7. CASE Leaving' = {} /\ UNCHANGED <<Told, Held>>
    BY <1>7 DEF Log!Next, Log!EndDiscard, Told, Held, Leaving, Saved, Recording
<1> QED
    BY <1>1, <1>2, <1>3, <1>4, <1>5, <1>6, <1>7

\* Streams that say the same are read as the same.
LEMMA ReadSame ==
    ASSUME NEW es \in Seq(Entry), NEW fs \in Seq(Entry), SaysSame(es, fs)
    PROVE  Decode[fs] = Decode[es]
<1>1. /\ Decode[es] = [t \in Task |-> [i \in Idx |-> DecodedAt(es, t, i)]]
      /\ Decode[fs] = [t \in Task |-> [i \in Idx |-> DecodedAt(fs, t, i)]]
    BY DecodeIs
<1> QED
    BY <1>1 DEF SaysSame

\* What is recorded, with one record more.
Plus(d, t, i, v) == [d EXCEPT ![t][i] = v]

\* The maps from the instances to T.
Maps(T) == [Task -> [Idx -> T]]

\* q is such a map: d but for v at (t, i).
IsPlus(T, q, d, t, i, v) ==
    /\ q \in [Task -> [Idx -> T]]
    /\ \A u \in Task, k \in Idx : q[u][k] = IF u = t /\ k = i THEN v ELSE d[u][k]

\* The other records stay.
LEMMA PlusIs ==
    ASSUME NEW T, NEW d \in Maps(T), NEW t \in Task, NEW i \in Idx, NEW v \in T
    PROVE  IsPlus(T, Plus(d, t, i, v), d, t, i, v)
<1>0. d \in [Task -> [Idx -> T]]
    BY DEF Maps
<1>1. d[t] \in [Idx -> T]
    BY <1>0
<1>2. PICK e : e = [d[t] EXCEPT ![i] = v]
    OBVIOUS
<1>3. e \in [Idx -> T] /\ \A k \in Idx : e[k] = IF k = i THEN v ELSE d[t][k]
    BY <1>1, <1>2
<1>4. Plus(d, t, i, v) = [d EXCEPT ![t] = e]
    BY <1>2 DEF Plus
<1>5. [d EXCEPT ![t] = e] \in [Task -> [Idx -> T]]
    BY <1>0, <1>3
<1>6. \A u \in Task : [d EXCEPT ![t] = e][u] = IF u = t THEN e ELSE d[u]
    BY <1>0
<1>7. PICK q : q = [d EXCEPT ![t] = e]
    OBVIOUS
<1>8. q \in [Task -> [Idx -> T]] /\ \A u \in Task : q[u] = IF u = t THEN e ELSE d[u]
    BY <1>5, <1>6, <1>7
<1>9. \A u \in Task, k \in Idx : q[u][k] = IF u = t /\ k = i THEN v ELSE d[u][k]
    BY <1>3, <1>8
<1>10. IsPlus(T, q, d, t, i, v)
    BY <1>8, <1>9 DEF IsPlus
<1> QED
    BY <1>4, <1>7, <1>10

\* One record more is read as one more.
LEMMA ReadMore ==
    ASSUME NEW es \in Seq(Entry), NEW fs \in Seq(Entry), NEW t \in Task, NEW i \in Idx,
           NEW v \in Trace, SaysMore(es, fs, t, i, v)
    PROVE  Decode[fs] = Plus(Decode[es], t, i, v)
<1> DEFINE T == Trace \cup {Absent}
<1>1. PICK d : d = Decode[es]
    OBVIOUS
<1>2. PICK e : e = Decode[fs]
    OBVIOUS
<1>3. /\ d = [u \in Task |-> [k \in Idx |-> DecodedAt(es, u, k)]] /\ d \in [Task -> [Idx -> T]]
      /\ e = [u \in Task |-> [k \in Idx |-> DecodedAt(fs, u, k)]] /\ e \in [Task -> [Idx -> T]]
    BY <1>1, <1>2, DecodeIs
<1>4. v \in T
    OBVIOUS
<1> HIDE DEF T
<1>5. \A u \in Task, k \in Idx : e[u][k] = IF u = t /\ k = i THEN v ELSE d[u][k]
    BY <1>3 DEF SaysMore
<1>6. PICK p : p = Plus(d, t, i, v)
    OBVIOUS
<1>7. /\ p \in [Task -> [Idx -> T]]
      /\ \A u \in Task, k \in Idx : p[u][k] = IF u = t /\ k = i THEN v ELSE d[u][k]
    <2>1. d \in Maps(T)
        BY <1>3 DEF Maps
    <2>2. IsPlus(T, Plus(d, t, i, v), d, t, i, v)
        BY <1>4, <2>1, PlusIs
    <2>3. IsPlus(T, p, d, t, i, v)
        BY <1>6, <2>2
    <2> QED
        BY <2>3 DEF IsPlus
<1>8. ASSUME NEW u \in Task PROVE e[u] = p[u]
    <2>1. e[u] \in [Idx -> T] /\ p[u] \in [Idx -> T] /\ \A k \in Idx : e[u][k] = p[u][k]
        BY <1>3, <1>5, <1>7
    <2> QED
        BY <2>1
<1>9. e = p
    BY <1>3, <1>7, <1>8
<1> QED
    BY <1>1, <1>2, <1>6, <1>9

\* Every step keeps the invariant of the log, and is one of RecordLog or none.
LEMMA StepLogged ==
    ASSUME Inv, LogInv, TypeOK', Inv', Next
    PROVE  LogInv' /\ [Log!Next]_Log!vars
<1>1. /\ Saved \in Seq(Entry) /\ Saved' \in Seq(Entry)
      /\ Known \in Seq(Entry) /\ Known' \in Seq(Entry)
    <2>1. Saved \in Seq(Entry) /\ Known \in Seq(Entry)
        BY SavedTyped
    <2>2. Saved' \in Seq(Entry) /\ Known' \in Seq(Entry)
        <3>1. IsFiles(segs') /\ IsFiles(published') /\ (index' = NoIndex \/ IsFiles(index'))
              /\ buffer' \in Seq(Entry)
            BY DEF TypeOK
        <3>2. IsFiles(NoFiles)
            BY NoFilesIs
        <3>3. IsFiles(Committed') /\ IsFiles(Written')
            BY <3>1, <3>2 DEF Committed, Written
        <3>4. EntriesOf(Committed') \in Seq(Entry) /\ EntriesOf(Written') \in Seq(Entry)
            BY <3>3, EntriesTyped
        <3> DEFINE es == EntriesOf(Written')
                   fs == buffer'
        <3>5. es \in Seq(Entry) /\ fs \in Seq(Entry)
            BY <3>1, <3>4
        <3> HIDE DEF es, fs
        <3>6. es \o fs \in Seq(Entry)
            BY <3>5
        <3> QED
            BY <3>4, <3>6 DEF es, fs, Saved, Known
    <2> QED
        BY <2>1, <2>2
<1>2. TypeOK /\ Logged /\ Sound(Saved)
    BY DEF Inv, LogInv, Logged
<1>3. /\ Recording => Leaving = {} /\ Held = Decode[Known]
      /\ ~Recording => Held = Told
      /\ Recording' => Leaving' = {} /\ Held' = Decode[Known']
      /\ ~Recording' => Held' = Told'
      /\ Told = Decode[Saved] /\ Told' = Decode[Saved']
    BY DEF Recording, Leaving, Held, Told
<1>4. CASE (\E S \in SUBSET Task \ {{}}, fresh \in BOOLEAN : Start(S, fresh)) \/ Exit \/ Crash
    <2>1. UNCHANGED <<shared, segs, index>> /\ pc' \in {"off", "restore", "discard"}
        BY <1>4 DEF Start, Exit, Crash, End, disk
    <2>2. Saved' = Saved
        BY <2>1, SavedSame DEF Saved, Committed
    <2>3. ~Recording' /\ Leaving' = {}
        BY <2>1 DEF Recording, Leaving
    <2>4. LogInv'
        BY <1>2, <2>1, <2>2, <2>3 DEF LogInv, Logged, Dropping
    <2>5. Loses
        BY <1>3, <2>2, <2>3 DEF Loses
    <2> QED
        BY <2>4, <2>5, LogSteps
<1>5. CASE Restore
    <2>1. Saved' = Saved /\ Logged' /\ SaysSame(Saved, Known')
        BY <1>2, <1>5, RestoreSaid
    <2>2. pc = "restore" /\ pc' = "run"
        BY <1>5 DEF Restore
    <2>3. Decode[Known'] = Decode[Saved]
        BY <1>1, <2>1, ReadSame
    <2>4. ~Recording /\ Recording' /\ Leaving = {}
        BY <2>2 DEF Recording, Leaving
    <2>5. UNCHANGED <<Told, Held, Leaving>>
        BY <1>3, <2>1, <2>3, <2>4
    <2>6. LogInv'
        BY <2>1, <2>2 DEF LogInv, Dropping
    <2> QED
        BY <2>5, <2>6, LogSteps
<1>6. ASSUME NEW t \in Task, NEW i \in Idx, NEW v \in Trace, DecodedAt(Known, t, i) = Absent,
             SaysMore(Known, Known', t, i, v), Recording, Recording', Saved' = Saved
      PROVE  Records(t, i, v)
    <2> DEFINE es == Known
               fs == Known'
    <2>1. es \in Seq(Entry) /\ fs \in Seq(Entry) /\ SaysMore(es, fs, t, i, v)
          /\ DecodedAt(es, t, i) = Absent
        BY <1>1, <1>6
    <2> HIDE DEF es, fs
    <2>2. Decode[fs] = [Decode[es] EXCEPT ![t][i] = v]
        <3>1. Decode[fs] = Plus(Decode[es], t, i, v)
            BY <2>1, ReadMore
        <3> QED
            BY <3>1 DEF Plus
    <2>3. Decode[es] = [u \in Task |-> [k \in Idx |-> DecodedAt(es, u, k)]]
        BY <2>1, DecodeIs
    <2>4. Decode[es][t][i] = Absent
        BY <2>1, <2>3
    <2>5. Decode[Known'] = [Decode[Known] EXCEPT ![t][i] = v]
        BY <2>2 DEF es, fs
    <2>6. Decode[Known][t][i] = Absent
        BY <2>4 DEF es
    <2> QED
        BY <1>3, <1>6, <2>5, <2>6 DEF Records
<1>7. ASSUME NEW t \in Task, NEW i \in Idx, NEW v \in Trace, NEW full \in BOOLEAN,
             Record(t, i, v, full)
      PROVE  LogInv' /\ [Log!Next]_Log!vars
    <2>1. /\ Saved' = Saved /\ Logged' /\ DecodedAt(Known, t, i) = Absent
          /\ SaysMore(Known, Known', t, i, v) \/ SaysSame(Known, Known')
        BY <1>2, <1>7, RecordSaid
    <2>2. pc = "run" /\ pc' \in {"run", "write"}
        BY <1>7 DEF Record, AppendEntry
    <2>3. Recording /\ Recording'
        BY <2>2 DEF Recording
    <2>4. LogInv'
        BY <2>1, <2>2 DEF LogInv, Dropping
    <2>5. CASE SaysMore(Known, Known', t, i, v)
        <3>1. Records(t, i, v)
            BY <1>6, <2>1, <2>3, <2>5
        <3> QED
            BY <2>4, <3>1, LogSteps
    <2>6. CASE SaysSame(Known, Known')
        <3>1. Decode[Known'] = Decode[Known]
            BY <1>1, <2>6, ReadSame
        <3>2. UNCHANGED <<Told, Held, Leaving>>
            BY <1>3, <2>1, <2>3, <3>1
        <3> QED
            BY <2>4, <3>2, LogSteps
    <2> QED
        BY <2>1, <2>5, <2>6
<1>8. ASSUME NEW full \in BOOLEAN, RecordRest(full) PROVE LogInv' /\ [Log!Next]_Log!vars
    <2>1. /\ Saved' = Saved /\ Logged'
          /\ \E t \in Task, i \in Idx, v \in Trace :
                DecodedAt(Known, t, i) = Absent /\ SaysMore(Known, Known', t, i, v)
        BY <1>2, <1>8, RestSaid
    <2>2. pc = "run" /\ pc' \in {"run", "write"}
        BY <1>8 DEF RecordRest, AppendEntry
    <2>3. Recording /\ Recording'
        BY <2>2 DEF Recording
    <2>4. LogInv'
        BY <2>1, <2>2 DEF LogInv, Dropping
    <2>5. \E t \in Task, i \in Idx, v \in Trace : Records(t, i, v)
        BY <1>6, <2>1, <2>3
    <2> QED
        BY <2>4, <2>5, LogSteps
<1>9. CASE \/ Flush \/ (\E next_ \in {"exit", "discard"} : Close(next_))
           \/ WriteNothing \/ InitializeInventory \/ WriteTmp \/ RenameSegment \/ WriteIndex
           \/ WriteFails
    <2>1. /\ Logged' /\ Known' = Known /\ Recording
          /\ Saved' = Saved \/ Saved' = Known
          /\ pc' \in {"run", "write", "rename", "index", "exit", "discard"}
        BY <1>2, <1>9, WriteSaid
    <2>2. LogInv'
        BY <2>1 DEF LogInv, Dropping
    <2>3. Leaving' = {} /\ Leaving = {}
        BY <1>3, <2>1 DEF Leaving
    <2>4. CASE Saved' = Known
        <3>1. Told' = Held /\ UNCHANGED <<Held, Leaving>>
            BY <1>3, <2>1, <2>3, <2>4
        <3> QED
            BY <2>2, <3>1, LogSteps
    <2>5. CASE Saved' = Saved /\ Recording'
        <3>1. UNCHANGED <<Told, Held, Leaving>>
            BY <1>3, <2>1, <2>3, <2>5
        <3> QED
            BY <2>2, <3>1, LogSteps
    <2>6. CASE Saved' = Saved /\ ~Recording'
        <3>1. Loses
            BY <1>3, <2>1, <2>3, <2>6 DEF Loses
        <3> QED
            BY <2>2, <3>1, LogSteps
    <2> QED
        BY <2>1, <2>4, <2>5, <2>6
<1>10. CASE \/ DropBuffer \/ DropNothing \/ DropCopy \/ DropSwap \/ DropIndex \/ DropUnlink
            \/ DropEnd \/ DropFails
    <2>1. Removing'
        BY DEF Inv
    <2>2. /\ LogInv' /\ ~Recording /\ ~Recording' /\ active' = active
          /\ DropBuffer => Saved' = Saved /\ pc = "discard" /\ pc' = "drop"
          /\ DropNothing \/ DropEnd => Saved' = Saved /\ pc' = "exit"
          /\ DropCopy \/ DropSwap =>
                /\ SaysSame(Saved, Saved') /\ pc \in {"drop", "swap"}
                /\ pc' \in {"swap", "reindex", "unlink"}
          /\ DropIndex \/ DropUnlink =>
                SaysLess(Saved, Saved') /\ pc \in {"reindex", "unlink"} /\ pc' = "unlink"
          /\ DropFails => /\ SaysLess(Saved, Saved') /\ pc' = "exit"
                          /\ pc \in {"drop", "swap", "reindex", "unlink"}
        BY <1>10, <2>1, DropSaid
    <2>3. Held = Told /\ Held' = Told' /\ active \in SUBSET Task
        BY <1>2, <1>3, <2>2 DEF TypeOK
    <2>4. ASSUME SaysLess(Saved, Saved'), pc \in {"drop", "swap", "reindex", "unlink"},
                 pc' \in {"unlink", "exit"}
          PROVE  Discards
        <3>1. Leaving = active /\ Leaving' \in {active, {}}
            BY <2>2, <2>4 DEF Leaving
        <3>2. Told' \in [Task -> [Idx -> Trace \cup {Absent}]]
            BY <1>1, <1>3, DecodeIs
        <3>3. ASSUME NEW t \in Task, NEW i \in Idx
              PROVE  Told[t][i] = DecodedAt(Saved, t, i) /\ Told'[t][i] = DecodedAt(Saved', t, i)
            <4> DEFINE es == Saved
                       fs == Saved'
            <4>1. es \in Seq(Entry) /\ fs \in Seq(Entry) /\ Told = Decode[es] /\ Told' = Decode[fs]
                BY <1>1, <1>3
            <4> HIDE DEF es, fs
            <4>2. /\ Decode[es] = [u \in Task |-> [k \in Idx |-> DecodedAt(es, u, k)]]
                  /\ Decode[fs] = [u \in Task |-> [k \in Idx |-> DecodedAt(fs, u, k)]]
                BY <4>1, DecodeIs
            <4>3. Told[t][i] = DecodedAt(es, t, i) /\ Told'[t][i] = DecodedAt(fs, t, i)
                BY <4>1, <4>2
            <4> QED
                BY <4>3 DEF es, fs
        <3> QED
            BY <2>3, <2>4, <3>1, <3>2, <3>3 DEF Discards, SaysLess
    <2>5. CASE DropBuffer
        <3>1. Leaving = {} /\ Leaving' = active /\ Held' = Told /\ UNCHANGED Told
            BY <1>3, <2>2, <2>3, <2>5 DEF Leaving
        <3> QED
            BY <2>2, <2>3, <3>1, LogSteps
    <2>6. CASE DropNothing \/ DropEnd
        <3>1. Leaving' = {} /\ UNCHANGED <<Told, Held>>
            BY <1>3, <2>2, <2>3, <2>6 DEF Leaving
        <3> QED
            BY <2>2, <3>1, LogSteps
    <2>7. CASE DropCopy \/ DropSwap
        <3>1. Told' = Told
            BY <1>1, <1>3, <2>2, <2>7, ReadSame
        <3>2. UNCHANGED <<Told, Held, Leaving>>
            BY <2>2, <2>3, <2>7, <3>1 DEF Leaving
        <3> QED
            BY <2>2, <3>2, LogSteps
    <2>8. CASE DropIndex \/ DropUnlink \/ DropFails
        <3>1. Discards
            BY <2>2, <2>4, <2>8
        <3> QED
            BY <2>2, <3>1, LogSteps
    <2> QED
        BY <1>10, <2>5, <2>6, <2>7, <2>8
<1> QED
    BY <1>4, <1>5, <1>7, <1>8, <1>9, <1>10 DEF Next

\* The stream, with its segments, index and drops, keeps what RecordLog promises:
\* what was saved is read back as it was recorded, by every later run, until the
\* records of its task, and of its task alone, are dropped.
THEOREM KeepsPromise == Spec => KeepsItsPromise
<1>1. ASSUME Init PROVE LogInv /\ Log!Init
    <2>1. /\ segs = NoFiles /\ index = NoIndex /\ pc = "off"
        BY <1>1 DEF Init
    <2>2. Saved = <<>>
        BY <2>1, NoFilesIs DEF Saved, Committed
    <2>3. <<>> \in Seq(Entry) /\ Len(<<>>) = 0 /\ Sound(<<>>)
        BY DEF Sound, Headed
    <2>4. LogInv
        BY <2>1, <2>2, <2>3 DEF LogInv, Logged, Recording, Dropping
    <2>5. Decode[Saved] = [t \in Task |-> [i \in Idx |-> Absent]]
        <3>1. ASSUME NEW t \in Task, NEW i \in Idx PROVE DecodedAt(<<>>, t, i) = Absent
            <4>1. \A j \in 1 .. Len(<<>>) : <<>>[j] # Result(t, i)
                BY <2>3
            <4> QED
                BY <2>3, <4>1, DecodedIs
        <3>2. Decode[<<>>] = [t \in Task |-> [i \in Idx |-> DecodedAt(<<>>, t, i)]]
            BY <2>3, DecodeIs
        <3> QED
            BY <2>2, <3>1, <3>2
    <2> QED
        BY <2>1, <2>4, <2>5 DEF Log!Init, Saved
<1>2. ASSUME UNCHANGED vars PROVE (LogInv => LogInv') /\ UNCHANGED Log!vars
    <2>1. UNCHANGED <<shared, segs, index, tmp, pc, active, recording, entering, buffer, published,
                      old>>
        BY <1>2 DEF vars, disk, memory
    <2> QED
        BY <2>1 DEF LogInv, Logged, Dropping, Leaves, Saved, Known, Kept, Removed, Rewritten,
                    Committed, Written, Recording, Log!vars
<1>3. ASSUME Inv, Inv', LogInv, [Next]_vars PROVE LogInv' /\ [Log!Next]_Log!vars
    <2>1. TypeOK'
        BY <1>3 DEF Inv
    <2> QED
        BY <1>2, <1>3, <2>1, StepLogged
<1> QED
    BY <1>1, <1>3, Inductive, PTL DEF Spec, KeepsItsPromise, Log!Spec
=============================================================================
