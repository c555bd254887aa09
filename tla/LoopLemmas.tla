----------------------------- MODULE LoopLemmas -----------------------------
(***************************************************************************)
(* Facts about numbers and sequences that the proofs of several components *)
(* use.  A statement about every pass of a loop, or every prefix of a       *)
(* sequence, is shown by the least number at which it would fail (LeastOf),  *)
(* which takes the place of an induction rule.                             *)
(***************************************************************************)
EXTENDS Integers, Sequences, Places, FiniteSetTheorems, SequenceTheorems, WellFoundedInduction, TLAPS

\* The least of a set of numbers.
LEMMA LeastOf ==
    ASSUME NEW T \in SUBSET Nat, T # {}
    PROVE  \E x \in T : \A y \in T : x <= y
<1> DEFINE R == {ss \in Nat \X Nat : ss[1] < ss[2]}
<1>1. IsWellFoundedOn(R, Nat)
    BY NatLessThanWellFounded DEF OpToRel
<1>2. \E x \in T : \A y \in T : ~(<<y, x>> \in R)
    BY <1>1, WFMin
<1>3. ASSUME NEW x \in Nat, NEW y \in Nat, y < x PROVE <<y, x>> \in R
    <2>1. <<y, x>> \in Nat \X Nat
        OBVIOUS
    <2>2. <<y, x>>[1] = y /\ <<y, x>>[2] = x
        OBVIOUS
    <2> QED
        BY <2>1, <2>2, <1>3
<1> HIDE DEF R
<1>4. PICK x \in T : \A y \in T : ~(<<y, x>> \in R)
    BY <1>2
<1>5. ASSUME NEW y \in T PROVE x <= y
    <2>1. ~(y < x)
        BY <1>3, <1>4
    <2> QED
        BY <2>1
<1> QED
    BY <1>5

\* What holds at the start and is kept by each pass holds after every pass.
LEMMA Reaches ==
    ASSUME NEW size \in Nat, NEW T, 0 \in T, \A n \in 1 .. size : n - 1 \in T => n \in T
    PROVE  \A n \in 0 .. size : n \in T
<1> DEFINE missed == {n \in 0 .. size : n \notin T}
<1> SUFFICES ASSUME missed # {} PROVE FALSE
    OBVIOUS
<1>1. missed \in SUBSET Nat
    OBVIOUS
<1>2. PICK k \in missed : \A i \in missed : k <= i
    <2> HIDE DEF missed
    <2> QED
        BY <1>1, LeastOf
<1>3. k \in 0 .. size /\ k \notin T /\ k # 0
    BY <1>2
<1>4. k \in 1 .. size /\ k - 1 \in 0 .. size /\ ~(k <= k - 1)
    BY <1>3
<1>5. k - 1 \in T
    BY <1>2, <1>4
<1> QED
    BY <1>3, <1>4, <1>5

\* A loop over 1 .. size from zero, with what each pass makes of the state before it.
IsLoop(f, S, zero, next, size) ==
    f \in [0 .. size -> S] /\ f[0] = zero /\ \A n \in 1 .. size : f[n] = next[f[n - 1]][n]

\* There is one, for every number of passes.
LEMMA LoopRuns ==
    ASSUME NEW S, NEW zero \in S, NEW next \in [S -> [Nat -> S]], NEW size \in Nat
    PROVE  \E f : IsLoop(f, S, zero, next, size)
<1> DEFINE Runs(f, k) == IsLoop(f, S, zero, next, k)
           T == {k \in Nat : \E f : Runs(f, k)}
<1>1. 0 \in T
    <2>1. Runs([n \in 0 .. 0 |-> zero], 0)
        BY DEF IsLoop
    <2> HIDE DEF Runs
    <2> QED
        BY <2>1
<1>2. ASSUME NEW k \in 1 .. size, k - 1 \in T PROVE k \in T
    <2>1. PICK g : Runs(g, k - 1)
        BY <1>2
    <2> DEFINE f == [n \in 0 .. k |-> IF n = k THEN next[g[k - 1]][k] ELSE g[n]]
    <2>2. k \in Nat /\ k - 1 \in 0 .. k - 1 /\ \A n \in 0 .. k : n # k => n \in 0 .. k - 1
        OBVIOUS
    <2>9. g \in [0 .. k - 1 -> S] /\ g[0] = zero /\ \A n \in 1 .. k - 1 : g[n] = next[g[n - 1]][n]
        BY <2>1 DEF IsLoop
    <2>3. next[g[k - 1]][k] \in S
        BY <2>2, <2>9
    <2>4. \A n \in 0 .. k : n # k => g[n] \in S
        BY <2>2, <2>9
    <2>5. f \in [0 .. k -> S]
        BY <2>3, <2>4
    <2>6. f[0] = zero
        BY <2>2, <2>9
    <2>7. ASSUME NEW n \in 1 .. k PROVE f[n] = next[f[n - 1]][n]
        <3>1. n - 1 \in 0 .. k /\ n - 1 # k /\ n \in 0 .. k /\ n - 1 \in 0 .. k - 1
            OBVIOUS
        <3>2. f[n - 1] = g[n - 1]
            BY <3>1
        <3>3. CASE n = k
            BY <3>1, <3>2, <3>3
        <3>4. CASE n # k
            <4>1. n \in 1 .. k - 1
                BY <3>4
            <4> QED
                BY <2>9, <3>1, <3>2, <3>4, <4>1
        <3> QED
            BY <3>3, <3>4
    <2> HIDE DEF f
    <2>8. Runs(f, k)
        BY <2>5, <2>6, <2>7 DEF IsLoop
    <2> HIDE DEF Runs
    <2> QED
        BY <2>2, <2>8
<1> HIDE DEF T
<1>3. size \in T
    <2>1. \A k \in 0 .. size : k \in T
        BY <1>1, <1>2, Reaches
    <2> QED
        BY <2>1
<1> QED
    BY <1>3 DEF T

LEMMA OneTo == \A n \in Nat : IsFiniteSet(1 .. n) /\ Cardinality(1 .. n) = n
<1> TAKE n \in Nat
<1>1. IsFiniteSet(1 .. n) /\ Cardinality(1 .. n) = IF 1 > n THEN 0 ELSE n - 1 + 1
    <2>1. 1 \in Int /\ n \in Int
        OBVIOUS
    <2> QED
        BY <2>1, FS_Interval
<1>2. (IF 1 > n THEN 0 ELSE n - 1 + 1) = n
    OBVIOUS
<1> QED
    BY <1>1, <1>2

LEMMA SequenceOf ==
    ASSUME NEW S, NEW n \in Nat, NEW f \in [1 .. n -> S]
    PROVE  f \in Seq(S) /\ Len(f) = n /\ DOMAIN f = 1 .. n
<1>1. f \in Seq(S)
    BY SeqDef
<1> QED
    BY <1>1, LenProperties

\* The numbers of a set up to a bound can be put in order, one after the other.
LEMMA InOrderIs ==
    ASSUME NEW places \in SUBSET Nat, NEW k \in Nat, \A n \in places : n <= k
    PROVE  LET order == CHOOSE f \in [1 .. Cardinality(places) -> places] :
                            \A m, n \in DOMAIN f : m < n => f[m] < f[n]
           IN  /\ Cardinality(places) \in Nat
               /\ order \in [1 .. Cardinality(places) -> places]
               /\ \A m, n \in DOMAIN order : m < n => order[m] < order[n]
               /\ \A p \in places : \E n \in 1 .. Cardinality(places) : order[n] = p
<1> DEFINE UpTo(j) == {n \in places : n <= j}
           Ordered(f) == \A m, n \in DOMAIN f : m < n => f[m] < f[n]
           HasOrder(j) == \E f \in [1 .. Cardinality(UpTo(j)) -> UpTo(j)] : Ordered(f)
           T == {j \in Nat : ~HasOrder(j)}
<1>1. \A j \in Nat : IsFiniteSet(UpTo(j)) /\ Cardinality(UpTo(j)) \in Nat
    <2> TAKE j \in Nat
    <2>1. UpTo(j) \in SUBSET Nat /\ \A n \in UpTo(j) : n <= j
        OBVIOUS
    <2> HIDE DEF UpTo
    <2> QED
        BY <2>1, FS_BoundedSetOfNaturals, FS_CardinalityType
<1>2. ASSUME T # {} PROVE FALSE
    <2>1. PICK j \in T : \A i \in T : j <= i
        <3>1. T \in SUBSET Nat
            OBVIOUS
        <3> HIDE DEF T
        <3> QED
            BY <1>2, <3>1, LeastOf
    <2>2. j \in Nat /\ ~HasOrder(j)
        BY <2>1
    <2>3. j # 0 \/ 0 \in places
        <3> SUFFICES ASSUME j = 0, 0 \notin places PROVE FALSE
            OBVIOUS
        <3>1. UpTo(j) = {}
            <4>1. ASSUME NEW n \in places PROVE ~(n <= j)
                <5>1. n \in Nat /\ n # 0
                    OBVIOUS
                <5> QED
                    BY <5>1
            <4> QED
                BY <4>1
        <3>2. Cardinality(UpTo(j)) = 0
            BY <3>1, FS_EmptySet
        <3> DEFINE f == [i \in 1 .. 0 |-> 0]
        <3>3. f \in [1 .. 0 -> {}] /\ Ordered(f)
            OBVIOUS
        <3>4. HasOrder(j)
            BY <3>1, <3>2, <3>3
        <3> QED
            BY <2>2, <3>4
    <2> DEFINE before == IF j = 0 THEN {} ELSE UpTo(j - 1)
               c == Cardinality(before)
    <2>4. PICK g \in [1 .. c -> before] : Ordered(g)
        <3>1. CASE j = 0
            <4> DEFINE f == [i \in 1 .. 0 |-> 0]
            <4>1. c = 0 /\ before = {}
                BY <3>1, FS_EmptySet
            <4>2. f \in [1 .. 0 -> {}] /\ Ordered(f)
                OBVIOUS
            <4> QED
                BY <4>1, <4>2
        <3>2. CASE j # 0
            <4>1. j - 1 \in Nat /\ ~(j <= j - 1)
                BY <2>2, <3>2
            <4>2. HasOrder(j - 1)
                BY <2>1, <4>1
            <4> QED
                BY <3>2, <4>2
        <3> QED
            BY <3>1, <3>2
    <2>5. IsFiniteSet(before) /\ c \in Nat /\ \A n \in before : n < j /\ n \in Nat
        <3>1. CASE j = 0
            BY <3>1, FS_EmptySet
        <3>2. CASE j # 0
            <4>1. j - 1 \in Nat /\ \A n \in Nat : n <= j - 1 => n < j
                BY <2>2, <3>2
            <4> QED
                BY <3>2, <4>1, <1>1
        <3> QED
            BY <3>1, <3>2
    <2>6. UpTo(j) = before \cup (IF j \in places THEN {j} ELSE {})
        <3>1. \A n \in Nat : n <= j <=> (n = j \/ (j # 0 /\ n <= j - 1))
            BY <2>2
        <3> QED
            BY <3>1, <2>2
    <2>7. CASE j \notin places
        <3>1. UpTo(j) = before
            BY <2>6, <2>7
        <3> HIDE DEF UpTo, before, c, Ordered
        <3>2. g \in [1 .. Cardinality(UpTo(j)) -> UpTo(j)]
            BY <2>4, <3>1 DEF c
        <3> QED
            BY <2>2, <2>4, <3>2
    <2>8. CASE j \in places
        <3>1. UpTo(j) = before \cup {j} /\ j \notin before
            BY <2>5, <2>6, <2>8
        <3>2. Cardinality(UpTo(j)) = c + 1
            <4> HIDE DEF UpTo, before
            <4> QED
                BY <2>5, <3>1, FS_AddElement
        <3> DEFINE h == [i \in 1 .. (c + 1) |-> IF i = c + 1 THEN j ELSE g[i]]
        <3> HIDE DEF UpTo, before, c
        <3>3. \A i \in 1 .. (c + 1) : i # c + 1 => i \in 1 .. c
            BY <2>5
        <3>4. h \in [1 .. (c + 1) -> UpTo(j)]
            BY <2>4, <3>1, <3>3
        <3>5. ASSUME NEW m \in 1 .. (c + 1), NEW n \in 1 .. (c + 1), m < n PROVE h[m] < h[n]
            <4>1. m \in 1 .. c
                BY <2>5, <3>5
            <4>2. CASE n = c + 1
                <5>1. h[m] = g[m] /\ h[n] = j /\ g[m] \in before
                    BY <4>1, <4>2, <2>4, <2>5, <3>5
                <5> QED
                    BY <5>1, <2>5
            <4>3. CASE n # c + 1
                <5>1. n \in 1 .. c /\ h[m] = g[m] /\ h[n] = g[n]
                    BY <4>1, <4>3, <3>3, <3>5
                <5> QED
                    BY <5>1, <4>1, <2>4, <3>5
            <4> QED
                BY <4>2, <4>3
        <3>6. DOMAIN h = 1 .. (c + 1)
            OBVIOUS
        <3> HIDE DEF h
        <3>7. Ordered(h)
            BY <3>5, <3>6
        <3> HIDE DEF Ordered
        <3> QED
            BY <2>2, <3>2, <3>4, <3>7
    <2> QED
        BY <2>7, <2>8
<1>3. UpTo(k) = places
    OBVIOUS
<1>4. HasOrder(k)
    BY <1>2
<1> DEFINE order == CHOOSE f \in [1 .. Cardinality(places) -> places] : Ordered(f)
<1>5. \E f \in [1 .. Cardinality(places) -> places] : Ordered(f)
    <2> HIDE DEF UpTo, Ordered
    <2> QED
        BY <1>3, <1>4
<1>6. order \in [1 .. Cardinality(places) -> places] /\ Ordered(order)
    <2> HIDE DEF Ordered
    <2> QED
        BY <1>5
<1>7. IsFiniteSet(places) /\ Cardinality(places) \in Nat
    <2> HIDE DEF UpTo
    <2> QED
        BY <1>1, <1>3
<1> HIDE DEF order
<1>8. order \in Injection(1 .. Cardinality(places), places)
    <2>1. ASSUME NEW m \in 1 .. Cardinality(places), NEW n \in 1 .. Cardinality(places), order[m] = order[n]
          PROVE  m = n
        <3>1. m \in Nat /\ n \in Nat /\ order[m] \in Nat /\ order[n] \in Nat
            <4>1. order[m] \in places /\ order[n] \in places
                BY <1>6
            <4>2. order[m] \in Nat /\ order[n] \in Nat
                BY <4>1
            <4>3. \A i \in 1 .. Cardinality(places) : i \in Nat
                BY <1>7
            <4> QED
                BY <4>2, <4>3
        <3>2. m \in DOMAIN order /\ n \in DOMAIN order
            BY <1>6
        <3>3. ~(m < n) /\ ~(n < m)
            BY <1>6, <2>1, <3>1, <3>2
        <3> QED
            BY <3>1, <3>3
    <2> QED
        BY <1>6, <2>1 DEF Injection, IsInjective
<1>9. IsFiniteSet(1 .. Cardinality(places)) /\ Cardinality(1 .. Cardinality(places)) = Cardinality(places)
    <2>1. 1 \in Int /\ Cardinality(places) \in Int
        BY <1>7
    <2> QED
        BY <2>1, <1>7, FS_Interval
<1>10. order \in Surjection(1 .. Cardinality(places), places)
    BY <1>7, <1>8, <1>9, FS_Injection
<1>11. \A p \in places : \E n \in 1 .. Cardinality(places) : order[n] = p
    BY <1>10 DEF Surjection
<1> QED
    BY <1>6, <1>7, <1>11 DEF order

LEMMA NthIs ==
    ASSUME NEW places \in SUBSET Nat, NEW k \in Nat, \A n \in places : n <= k
    PROVE  /\ Cardinality(places) \in Nat
           /\ \A i \in 1 .. Cardinality(places) : Nth(places, i) \in places
           /\ \A i, j \in 1 .. Cardinality(places) : i < j => Nth(places, i) < Nth(places, j)
           /\ \A p \in places : \E i \in 1 .. Cardinality(places) : Nth(places, i) = p
<1> DEFINE size == Cardinality(places)
           order == CHOOSE f \in [1 .. size -> places] : \A m, n \in DOMAIN f : m < n => f[m] < f[n]
           Below(p) == {q \in places : q <= p}
           Height(p) == Cardinality(Below(p))
<1>1. /\ size \in Nat /\ order \in [1 .. size -> places]
      /\ \A m, n \in DOMAIN order : m < n => order[m] < order[n]
      /\ \A p \in places : \E n \in 1 .. size : order[n] = p
    BY InOrderIs
<1>2. \A p \in places : IsFiniteSet(Below(p)) /\ Height(p) \in Nat
    <2> TAKE p \in places
    <2>1. p \in Nat /\ Below(p) \in SUBSET Nat /\ \A n \in Below(p) : n <= p
        OBVIOUS
    <2> HIDE DEF Below
    <2> QED
        BY <2>1, FS_BoundedSetOfNaturals, FS_CardinalityType
<1> HIDE DEF size, order
<1>3. DOMAIN order = 1 .. size /\ \A i \in 1 .. size : i \in Nat /\ order[i] \in places /\ order[i] \in Nat
    <2>1. DOMAIN order = 1 .. size /\ \A i \in 1 .. size : order[i] \in places
        BY <1>1
    <2>2. \A i \in 1 .. size : i \in Nat
        BY <1>1
    <2> QED
        BY <2>1, <2>2
<1>4. \A i, j \in 1 .. size : order[i] <= order[j] <=> i <= j
    <2> TAKE i, j \in 1 .. size
    <2>1. i \in Nat /\ j \in Nat /\ order[i] \in Nat /\ order[j] \in Nat
        BY <1>3
    <2>2. i < j => order[i] < order[j]
        BY <1>1, <1>3
    <2>3. j < i => order[j] < order[i]
        BY <1>1, <1>3
    <2>4. i = j => order[i] = order[j]
        OBVIOUS
    <2> QED
        BY <2>1, <2>2, <2>3, <2>4
<1>5. ASSUME NEW i \in 1 .. size PROVE Height(order[i]) = i
    <2>1. i \in Nat /\ \A j \in Nat : j \in 1 .. i => j \in 1 .. size /\ j <= i
        BY <1>1
    <2> DEFINE f == [j \in 1 .. i |-> order[j]]
    <2>2. \A j \in 1 .. i : j \in Nat /\ j \in 1 .. size /\ j <= i
        BY <2>1
    <2>3. f \in [1 .. i -> Below(order[i])]
        BY <1>3, <1>4, <2>2
    <2>4. \A j, l \in 1 .. i : f[j] = f[l] => j = l
        <3> TAKE j, l \in 1 .. i
        <3>1. f[j] = order[j] /\ f[l] = order[l] /\ j \in Nat /\ l \in Nat
            BY <2>2
        <3>2. order[j] \in Nat /\ order[l] \in Nat
            BY <1>3, <2>2
        <3>3. j <= l <=> order[j] <= order[l]
            BY <1>4, <2>2
        <3>4. l <= j <=> order[l] <= order[j]
            BY <1>4, <2>2
        <3> HIDE DEF f
        <3> QED
            BY <3>1, <3>2, <3>3, <3>4
    <2>5. \A p \in Below(order[i]) : \E j \in 1 .. i : f[j] = p
        <3> TAKE p \in Below(order[i])
        <3>1. p \in places /\ p <= order[i]
            OBVIOUS
        <3>2. PICK j \in 1 .. size : order[j] = p
            BY <1>1, <3>1
        <3>3. j <= i /\ j \in Nat /\ 1 <= j
            <4>1. j <= i
                BY <1>4, <3>1, <3>2
            <4>2. j \in Nat /\ 1 <= j
                BY <1>1
            <4> QED
                BY <4>1, <4>2
        <3>4. j \in 1 .. i
            BY <2>1, <3>3
        <3> QED
            BY <3>2, <3>4
    <2>6. f \in Bijection(1 .. i, Below(order[i]))
        <3> HIDE DEF f, Below
        <3>1. f \in Injection(1 .. i, Below(order[i]))
            BY <2>3, <2>4 DEF Injection, IsInjective
        <3>2. f \in Surjection(1 .. i, Below(order[i]))
            BY <2>3, <2>5 DEF Surjection
        <3> QED
            BY <3>1, <3>2 DEF Bijection
    <2>7. Cardinality(1 .. i) = i /\ IsFiniteSet(1 .. i)
        BY <2>1, OneTo
    <2> HIDE DEF f, Below
    <2>8. ExistsBijection(1 .. i, Below(order[i]))
        BY <2>6 DEF ExistsBijection
    <2>9. Cardinality(Below(order[i])) = i
        BY <2>7, <2>8, FS_Bijection
    <2> QED
        BY <2>9
<1>6. ASSUME NEW i \in 1 .. size PROVE Nth(places, i) = order[i]
    <2>1. order[i] \in places /\ Height(order[i]) = i
        BY <1>3, <1>5
    <2>2. ASSUME NEW p \in places, Height(p) = i PROVE p = order[i]
        <3>1. PICK j \in 1 .. size : order[j] = p
            BY <1>1
        <3>2. Height(p) = j
            BY <1>5, <3>1
        <3> HIDE DEF Height
        <3> QED
            BY <2>2, <3>1, <3>2
    <2> QED
        BY <2>1, <2>2 DEF Nth
<1>7. \A i, j \in 1 .. size : i < j => order[i] < order[j]
    BY <1>1, <1>3
<1> QED
    BY <1>1, <1>3, <1>6, <1>7 DEF size

\* What a loop leaves of a sequence.
LEMMA PickedIs ==
    ASSUME NEW S, NEW s \in Seq(S), NEW places \in SUBSET DOMAIN s
    PROVE  /\ Cardinality(places) \in Nat
           /\ Picked(s, places) \in Seq(S) /\ Len(Picked(s, places)) = Cardinality(places)
           /\ DOMAIN Picked(s, places) = 1 .. Cardinality(places)
           /\ \A i \in 1 .. Cardinality(places) :
                 Nth(places, i) \in places /\ Picked(s, places)[i] = s[Nth(places, i)]
           /\ \A p \in places : \E i \in 1 .. Cardinality(places) : Picked(s, places)[i] = s[p]
<1>1. Len(s) \in Nat /\ DOMAIN s = 1 .. Len(s) /\ \A n \in DOMAIN s : s[n] \in S
    BY LenProperties
<1>2. places \in SUBSET Nat /\ \A n \in places : n <= Len(s)
    BY <1>1
<1>3. /\ Cardinality(places) \in Nat
      /\ \A i \in 1 .. Cardinality(places) : Nth(places, i) \in places
      /\ \A p \in places : \E i \in 1 .. Cardinality(places) : Nth(places, i) = p
    BY <1>1, <1>2, NthIs
<1> DEFINE picked == [i \in 1 .. Cardinality(places) |-> s[Nth(places, i)]]
<1>4. Picked(s, places) = picked
    BY DEF Picked
<1>5. picked \in [1 .. Cardinality(places) -> S]
    BY <1>1, <1>3
<1>6. \A i \in 1 .. Cardinality(places) : picked[i] = s[Nth(places, i)]
    OBVIOUS
<1> HIDE DEF picked
<1>7. picked \in Seq(S) /\ Len(picked) = Cardinality(places) /\ DOMAIN picked = 1 .. Cardinality(places)
    BY <1>3, <1>5, SequenceOf
<1> QED
    BY <1>3, <1>4, <1>6, <1>7

=============================================================================
