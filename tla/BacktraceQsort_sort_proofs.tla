--------------------- MODULE BacktraceQsort_sort_proofs ---------------------
(***************************************************************************)
(* backtrace_qsort's type invariant and its correctness, SortsInput, for  *)
(* every array length and every set of integer values.                    *)
(*                                                                         *)
(* The argument has three parts.  Every swap exchanges two elements, so    *)
(* for every threshold v the number of elements below v, and at most v,   *)
(* stays what it was in the input (Perm).  The last pass, with dist = 1,  *)
(* is an insertion sort: the prefix before i is sorted, and inside the    *)
(* inner loop the element being moved down sits at cur + 1, no greater    *)
(* than anything it has passed, while the other elements of 0 .. i are    *)
(* in order (InsertInv).  A sorted array with the counts of the input is  *)
(* SortedOf(input) (SortedIsSortedOf).                                     *)
(***************************************************************************)
EXTENDS BacktraceQsort_proofs, FiniteSetTheorems

USE SortAssumption

(* The counters' bounds that TypeOK states need these facts about the    *)
(* loops: a pass's gap is at most count, the outer index starts at the    *)
(* gap and never passes count, and the cursor is at most one gap below    *)
(* the base.                                                               *)
Bounds ==
    /\ pc \in {"pass", "outer", "inner"} => dist <= count
    /\ pc \in {"outer", "inner"} => dist <= i /\ i <= count
    /\ pc = "inner" => cur + dist >= 0

TInv == TypeOK /\ IInv /\ Bounds

(* a is in order between lo and hi.                                        *)
SortedOn(a, lo, hi) ==
    \A k1, k2 \in lo .. hi : k1 <= k2 => a[k1] <= a[k2]

(* arr holds the input's elements: for every threshold, as many below it *)
(* and as many at most it.                                                 *)
Perm ==
    \A v \in Int : Below(arr, v) = Below(input, v) /\ AtMost(arr, v) = AtMost(input, v)

(* The inner-loop shape of InsertInv for an array a, the moving element *)
(* at c + 1 and the current element's index top.                        *)
Inserting(a, c, top) ==
    /\ \A k1, k2 \in (0 .. top) \ {c + 1} : k1 <= k2 => a[k1] <= a[k2]
    /\ \A k \in c + 2 .. top : a[c + 1] <= a[k]

(* The insertion-sort invariant of the last pass (dist = 1).  Between     *)
(* elements, 0 .. i - 1 is sorted.  In the inner loop the moving element  *)
(* is at cur + 1: the others of 0 .. i are in order and it is no greater  *)
(* than those above it.                                                    *)
InsertInv ==
    /\ pc = "outer" /\ dist = 1 => SortedOn(arr, 0, i - 1)
    /\ pc = "inner" /\ dist = 1 => Inserting(arr, cur, i)
    /\ pc = "done" => SortedOn(arr, 0, count - 1)

SInv == TInv /\ Perm /\ InsertInv

-----------------------------------------------------------------------------
(* Operator lemmas.                                                        *)

(* A gap computed from a positive one is positive and no larger: the gap  *)
(* sequence of lines 76-78 decreases to 1 and never reaches 0.            *)
LEMMA GapRange ==
    ASSUME NEW d \in Nat \ {0}
    PROVE  Gap(d) \in 1 .. d
<1>1. d \div 8 \in Nat /\ 8 * (d \div 8) <= d
    OBVIOUS
<1>2. CASE d < 8
    <2>1. (d \div 8) * 3 = 0
        BY <1>2
    <2>2. QED
        BY <2>1, <1>2 DEF Gap
<1>3. CASE d >= 8
    <2>1. (d \div 8) * 3 \in 3 .. d - 1
        BY <1>1, <1>3
    <2>2. QED
        BY <2>1 DEF Gap
<1>4. QED
    BY <1>2, <1>3

(* Swapping two elements of an array keeps its domain and element set.   *)
LEMMA SwapType ==
    ASSUME NEW D, NEW S, NEW a \in [D -> S], NEW x \in D, NEW y \in D
    PROVE  Swap(a, x, y) \in [D -> S]
BY DEF Swap

(* Swapping two elements keeps how many elements lie in any set T: the  *)
(* swap moves at most one member of T out of a position and one in.       *)
CountIn(a, D, T) == Cardinality({k \in D : a[k] \in T})

LEMMA SwapCard ==
    ASSUME NEW D, IsFiniteSet(D), NEW a \in [D -> Int], NEW x \in D, NEW y \in D,
           NEW T
    PROVE  CountIn(Swap(a, x, y), D, T) = CountIn(a, D, T)
<1> DEFINE S == {k \in D : a[k] \in T}
           S2 == {k \in D : Swap(a, x, y)[k] \in T}
<1>1. IsFiniteSet(S)
    BY FS_Subset
<1>2. \A k \in D \ {x, y} : Swap(a, x, y)[k] = a[k]
    BY DEF Swap
<1>3. CASE (a[x] \in T) = (a[y] \in T)
    <2>1. S2 = S
        BY <1>2, <1>3 DEF Swap
    <2>2. QED
        BY <2>1 DEF S, S2, CountIn
<1>4. CASE a[x] \in T /\ a[y] \notin T
    <2>1. x # y
        BY <1>4
    <2>2. S2 = (S \ {x}) \cup {y}
        BY <1>2, <1>4, <2>1 DEF Swap
    <2>3. IsFiniteSet(S \ {x}) /\ Cardinality(S \ {x}) = Cardinality(S) - 1
        BY <1>1, <1>4, FS_RemoveElement
    <2>4. Cardinality((S \ {x}) \cup {y}) = Cardinality(S \ {x}) + 1
        BY <2>3, <1>4, FS_AddElement
    <2>5. Cardinality(S) \in Nat
        BY <1>1, FS_CardinalityType
    <2>6. Cardinality(S2) = Cardinality((S \ {x}) \cup {y})
        BY <2>2, Zenon
    <2>7. Cardinality(S2) = Cardinality(S)
        BY <2>3, <2>4, <2>5, <2>6
    <2>8. QED
        BY <2>7 DEF S, S2, CountIn
<1>5. CASE a[x] \notin T /\ a[y] \in T
    <2>1. x # y
        BY <1>5
    <2>2. S2 = (S \ {y}) \cup {x}
        BY <1>2, <1>5, <2>1 DEF Swap
    <2>3. IsFiniteSet(S \ {y}) /\ Cardinality(S \ {y}) = Cardinality(S) - 1
        BY <1>1, <1>5, FS_RemoveElement
    <2>4. Cardinality((S \ {y}) \cup {x}) = Cardinality(S \ {y}) + 1
        BY <2>3, <1>5, FS_AddElement
    <2>5. Cardinality(S) \in Nat
        BY <1>1, FS_CardinalityType
    <2>6. Cardinality(S2) = Cardinality((S \ {y}) \cup {x})
        BY <2>2, Zenon
    <2>7. Cardinality(S2) = Cardinality(S)
        BY <2>3, <2>4, <2>5, <2>6
    <2>8. QED
        BY <2>7 DEF S, S2, CountIn
<1>6. QED
    BY <1>3, <1>4, <1>5

(* Hence a swap keeps Below and AtMost, the counts SortedOf is built on.  *)
LEMMA SwapCounts ==
    ASSUME NEW D, IsFiniteSet(D), NEW a \in [D -> Int], NEW x \in D, NEW y \in D,
           NEW v \in Int
    PROVE  /\ Below(Swap(a, x, y), v) = Below(a, v)
           /\ AtMost(Swap(a, x, y), v) = AtMost(a, v)
<1> DEFINE b == Swap(a, x, y)
           Lt == {w \in Int : w < v}
           Le == {w \in Int : w <= v}
<1>1. b \in [D -> Int]
    BY SwapType
<1>2. /\ {k \in D : b[k] < v} = {k \in D : b[k] \in Lt}
      /\ {k \in D : a[k] < v} = {k \in D : a[k] \in Lt}
      /\ {k \in D : b[k] <= v} = {k \in D : b[k] \in Le}
      /\ {k \in D : a[k] <= v} = {k \in D : a[k] \in Le}
    BY <1>1
<1>3. Cardinality({k \in D : b[k] \in Lt}) = Cardinality({k \in D : a[k] \in Lt})
    <2>1. CountIn(b, D, Lt) = CountIn(a, D, Lt)
        BY SwapCard DEF b
    <2>2. QED
        BY <2>1 DEF CountIn
<1>4. Cardinality({k \in D : b[k] \in Le}) = Cardinality({k \in D : a[k] \in Le})
    <2>1. CountIn(b, D, Le) = CountIn(a, D, Le)
        BY SwapCard DEF b
    <2>2. QED
        BY <2>1 DEF CountIn
<1>5. DOMAIN b = D
    BY <1>1
<1>6. QED
    BY <1>2, <1>3, <1>4, <1>5 DEF Below, AtMost

(* The reference SortedOf characterises sorting: an array that is sorted *)
(* and has, for every threshold, the counts of b is SortedOf(b).  At      *)
(* position j of a sorted array, fewer than j + 1 elements lie below a[j] *)
(* and at least j + 1 lie at or below it, and no other value has both.    *)
LEMMA SortedIsSortedOf ==
    ASSUME NEW n \in Nat, NEW a \in [0 .. n - 1 -> Int], NEW b \in [0 .. n - 1 -> Int],
           \A v \in Int : Below(a, v) = Below(b, v) /\ AtMost(a, v) = AtMost(b, v),
           SortedOn(a, 0, n - 1)
    PROVE  a = SortedOf(b)
<1> DEFINE D == 0 .. n - 1
           P(c, v, pos) == Below(c, v) <= pos /\ pos < AtMost(c, v)
<1>0. \A lo, hi \in Int : IsFiniteSet(lo .. hi)
                          /\ Cardinality(lo .. hi) = IF lo > hi THEN 0 ELSE hi - lo + 1
    BY FS_Interval
<1>1. IsFiniteSet(D)
    BY <1>0
<1>2. \A v \in Int : Below(a, v) \in Nat /\ AtMost(a, v) \in Nat
    <2> TAKE v \in Int
    <2>1. IsFiniteSet({k \in D : a[k] < v}) /\ IsFiniteSet({k \in D : a[k] <= v})
        BY <1>1, FS_Subset
    <2>2. QED
        BY <2>1, FS_CardinalityType DEF Below, AtMost
<1>3. \A j \in D : Below(a, a[j]) <= j
    <2> TAKE j \in D
    <2> DEFINE L == {k \in D : a[k] < a[j]}
    <2>1. L \cup {j} \subseteq 0 .. j /\ j \notin L
        BY DEF SortedOn
    <2>2. IsFiniteSet(0 .. j) /\ Cardinality(0 .. j) = j + 1
        BY <1>0 DEF D
    <2>3. IsFiniteSet(L) /\ Cardinality(L) \in Nat
        BY <1>1, FS_Subset, FS_CardinalityType
    <2>4. Cardinality(L \cup {j}) = Cardinality(L) + 1
        BY <2>1, <2>3, FS_AddElement
    <2>5. Cardinality(L \cup {j}) <= j + 1
        BY <2>1, <2>2, FS_Subset
    <2>6. QED
        BY <2>3, <2>4, <2>5 DEF Below
<1>4. \A j \in D : j + 1 <= AtMost(a, a[j])
    <2> TAKE j \in D
    <2> DEFINE M == {k \in D : a[k] <= a[j]}
    <2>1. 0 .. j \subseteq M
        BY DEF SortedOn
    <2>2. IsFiniteSet(M)
        BY <1>1, FS_Subset
    <2>3. Cardinality(0 .. j) = j + 1
        BY <1>0 DEF D
    <2>4. Cardinality(0 .. j) <= Cardinality(M)
        BY <2>1, <2>2, FS_Subset
    <2>5. QED
        BY <2>3, <2>4 DEF AtMost
<1>5. \A v, w \in Int : v < w => AtMost(a, v) <= Below(a, w)
    <2> TAKE v, w \in Int
    <2> HAVE v < w
    <2>1. {k \in D : a[k] <= v} \subseteq {k \in D : a[k] < w}
        OBVIOUS
    <2>2. IsFiniteSet({k \in D : a[k] < w})
        BY <1>1, FS_Subset
    <2>3. QED
        BY <2>1, <2>2, FS_Subset DEF AtMost, Below
<1>6. \A j \in D, w \in Int : P(a, w, j) => w = a[j]
    <2> TAKE j \in D, w \in Int
    <2> HAVE P(a, w, j)
    <2>1. CASE w < a[j]
        BY <2>1, <1>2, <1>3, <1>5 DEF P, D
    <2>2. CASE a[j] < w
        <3>1. AtMost(a, a[j]) <= Below(a, w)
            BY <2>2, <1>5 DEF D
        <3>2. j + 1 <= AtMost(a, a[j])
            BY <1>4
        <3>3. a[j] \in Int /\ j \in Nat
            BY DEF D
        <3>4. QED
            BY <3>1, <3>2, <3>3, <1>2 DEF P
    <2>3. QED
        BY <2>1, <2>2
<1>7. \A j \in D : P(b, a[j], j)
    <2> TAKE j \in D
    <2>1. a[j] \in Int
        BY DEF D
    <2>2. Below(b, a[j]) = Below(a, a[j]) /\ AtMost(b, a[j]) = AtMost(a, a[j])
        BY <2>1
    <2>3. QED
        BY <2>2, <1>2, <1>3, <1>4 DEF P, D
<1>8. \A j \in D : a[j] \in {b[k] : k \in D}
    <2> TAKE j \in D
    <2> DEFINE Lb == {k \in D : b[k] < a[j]}
               Mb == {k \in D : b[k] <= a[j]}
    <2>1. Below(b, a[j]) < AtMost(b, a[j]) /\ Below(b, a[j]) \in Nat
        <3>1. P(b, a[j], j) /\ a[j] \in Int /\ j \in Nat
            BY <1>7 DEF D
        <3>2. Below(b, a[j]) = Below(a, a[j])
            BY <3>1
        <3>3. QED
            BY <3>1, <3>2, <1>2 DEF P
    <2>2. IsFiniteSet(Mb) /\ Lb \subseteq Mb
        BY <1>1, FS_Subset
    <2>3. Lb # Mb
        <3>1. Lb = Mb => Below(b, a[j]) = AtMost(b, a[j])
            BY Zenon DEF Below, AtMost, Lb, Mb
        <3>2. QED
            BY <2>1, <3>1
    <2>4. PICK k \in Mb : k \notin Lb
        BY <2>2, <2>3, Zenon
    <2>5. QED
        BY <2>4 DEF Lb, Mb, D
<1>9. \A j \in D : SortedOf(b)[j] = a[j]
    <2> TAKE j \in D
    <2>1. \A w \in {b[k] : k \in D} : P(b, w, j) => w = a[j]
        BY <1>6
    <2>2. QED
        BY <1>7, <1>8, <2>1 DEF SortedOf
<1>10. QED
    BY <1>9 DEF SortedOf

(* Starting the inner loop (cur = i - 1) on a sorted prefix 0 .. i - 1.   *)
LEMMA InsertBegin ==
    ASSUME NEW a, NEW top \in Int, SortedOn(a, 0, top - 1)
    PROVE  Inserting(a, top - 1, top)
BY DEF SortedOn, Inserting

(* A swap of line 83 moves the element one down and keeps the shape.     *)
LEMMA InsertSwap ==
    ASSUME NEW n \in Nat, NEW a \in [0 .. n - 1 -> Int], NEW c \in Nat,
           NEW top \in Nat, c + 1 <= top, top < n,
           Inserting(a, c, top), ~(a[c] <= a[c + 1])
    PROVE  Inserting(Swap(a, c, c + 1), c - 1, top)
<1> DEFINE b == Swap(a, c, c + 1)
<1>1. \A k \in 0 .. n - 1 : b[k] = IF k = c THEN a[c + 1] ELSE IF k = c + 1 THEN a[c] ELSE a[k]
    BY DEF Swap
<1>2. \A k1, k2 \in (0 .. top) \ {c} : k1 <= k2 => b[k1] <= b[k2]
    <2> TAKE k1, k2 \in (0 .. top) \ {c}
    <2> HAVE k1 <= k2
    <2>1. CASE k1 # c + 1 /\ k2 # c + 1
        BY <1>1, <2>1 DEF Inserting
    <2>2. CASE k1 = c + 1
        BY <1>1, <2>2 DEF Inserting
    <2>3. CASE k2 = c + 1 /\ k1 # c + 1
        <3>1. k1 < c
            BY <2>3
        <3>2. a[k1] <= a[c]
            BY <3>1 DEF Inserting
        <3>3. QED
            BY <1>1, <2>3, <3>1, <3>2
    <2>4. QED
        BY <2>1, <2>2, <2>3
<1>3. \A k \in c + 1 .. top : b[c] <= b[k]
    <2> TAKE k \in c + 1 .. top
    <2>1. CASE k = c + 1
        BY <1>1, <2>1
    <2>2. CASE k > c + 1
        BY <1>1, <2>2 DEF Inserting
    <2>3. QED
        BY <2>1, <2>2
<1>4. QED
    BY <1>2, <1>3 DEF Inserting

(* The inner loop ends, the cursor past base (c = -1) or the pair in      *)
(* order (line 81): 0 .. top is sorted.                                    *)
LEMMA InsertEnd ==
    ASSUME NEW n \in Nat, NEW a \in [0 .. n - 1 -> Int], NEW c \in Int,
           NEW top \in Nat, -1 <= c, c + 1 <= top, top < n,
           Inserting(a, c, top), c >= 0 => a[c] <= a[c + 1]
    PROVE  SortedOn(a, 0, top)
<1> SUFFICES ASSUME NEW k1 \in 0 .. top, NEW k2 \in 0 .. top, k1 <= k2
             PROVE  a[k1] <= a[k2]
    BY DEF SortedOn
<1>1. CASE k1 # c + 1 /\ k2 # c + 1
    BY <1>1 DEF Inserting
<1>2. CASE k1 = c + 1
    BY <1>2 DEF Inserting
<1>3. CASE k2 = c + 1 /\ k1 # c + 1
    <2>1. k1 <= c /\ c >= 0
        BY <1>3
    <2>2. a[k1] <= a[c]
        BY <2>1 DEF Inserting
    <2>3. QED
        BY <1>3, <2>1, <2>2
<1>4. QED
    BY <1>1, <1>2, <1>3

-----------------------------------------------------------------------------
(* Type correctness.                                                       *)

LEMMA InitTInv == Init => TInv
BY DEF Init, TInv, TypeOK, IInv, Bounds, Idx

LEMMA NextTInv == TInv /\ [Next]_vars => TInv'
<1> SUFFICES ASSUME TInv, [Next]_vars PROVE TInv'
    OBVIOUS
<1>0. IInv'
    BY NextIInv DEF TInv
<1>1. CASE Start
    BY <1>0, <1>1 DEF Start, TInv, TypeOK, Bounds, Idx
<1>2. CASE NewPass
    <2>1. dist \in 1 .. MaxCount /\ dist <= count
        BY <1>2 DEF NewPass, TInv, TypeOK, Bounds
    <2>2. Gap(dist) \in 1 .. dist
        BY <2>1, GapRange
    <2>3. QED
        BY <1>0, <1>2, <2>1, <2>2 DEF NewPass, TInv, TypeOK, Bounds, Idx
<1>3. CASE NextElement
    BY <1>0, <1>3 DEF NextElement, TInv, TypeOK, Bounds, Idx
<1>4. CASE InnerCompare
    <2>1. pc = "inner" /\ cur >= 0 /\ cur \in Idx /\ cur + dist \in Idx
        BY <1>4 DEF InnerCompare, TInv, TypeOK, IInv, Idx
    <2>2. CASE arr[cur] <= arr[cur + dist]
        BY <1>0, <1>4, <2>1, <2>2 DEF InnerCompare, TInv, TypeOK, IInv, Bounds, Idx
    <2>3. CASE ~(arr[cur] <= arr[cur + dist])
        <3>1. arr' = Swap(arr, cur, cur + dist) /\ cur' = cur - dist
              /\ UNCHANGED <<input, count, dist, i, pc>>
            BY <1>4, <2>3 DEF InnerCompare
        <3>2. Swap(arr, cur, cur + dist) \in [Idx -> Vals]
            BY <2>1, SwapType DEF TInv, TypeOK
        <3>3. QED
            BY <1>0, <2>1, <3>1, <3>2 DEF TInv, TypeOK, IInv, Bounds, Idx
    <2>4. QED
        BY <2>2, <2>3
<1>5. CASE InnerExit
    BY <1>0, <1>5 DEF InnerExit, TInv, TypeOK, IInv, Bounds, Idx
<1>6. CASE EndPass
    BY <1>0, <1>6 DEF EndPass, TInv, TypeOK, Bounds, Idx
<1>7. CASE UNCHANGED vars
    BY <1>0, <1>7 DEF vars, TInv, TypeOK, Bounds, Idx
<1>8. QED
    BY <1>1, <1>2, <1>3, <1>4, <1>5, <1>6, <1>7 DEF Next

(* backtrace_qsort's counters stay in range for every array length: the   *)
(* gap is at least 1 in every pass (the "| 1" of line 76), the outer      *)
(* index never passes MaxCount and the cursor never falls more than       *)
(* MaxCount below base, and every swap keeps the array over its values.  *)
THEOREM TypeCorrect == Spec => []TypeOK
<1>1. Init => TInv
    BY InitTInv
<1>2. TInv /\ [Next]_vars => TInv'
    BY NextTInv
<1>3. TInv => TypeOK
    BY DEF TInv
<1>4. QED
    BY <1>1, <1>2, <1>3, PTL DEF Spec

-----------------------------------------------------------------------------
(* Correctness.                                                            *)

(* An array over Vals is an array over Int.                              *)
LEMMA ValsArray ==
    ASSUME NEW D, NEW f \in [D -> Vals]
    PROVE  f \in [D -> Int]
BY SortAssumption

LEMMA InitSInv == Init => SInv
<1> SUFFICES ASSUME Init PROVE SInv
    OBVIOUS
<1>1. TInv
    BY InitTInv
<1>2. Perm
    BY DEF Init, Perm
<1>3. InsertInv
    BY DEF Init, InsertInv
<1>4. QED
    BY <1>1, <1>2, <1>3 DEF SInv

(* A step that leaves arr and input alone keeps Perm.                     *)
LEMMA PermKept ==
    ASSUME Perm, UNCHANGED <<arr, input>>
    PROVE  Perm'
BY DEF Perm

LEMMA NextSInv == SInv /\ [Next]_vars => SInv'
<1> SUFFICES ASSUME SInv, [Next]_vars PROVE SInv'
    OBVIOUS
<1>0. TInv'
    BY NextTInv DEF SInv
<1> USE DEF SInv
<1>a. /\ count \in Nat /\ arr \in [0 .. count - 1 -> Int]
      /\ dist \in Nat /\ i \in Nat /\ cur \in Int
      /\ pc \in {"pass", "outer", "inner"} => dist >= 1
    <2>1. arr \in [0 .. count - 1 -> Vals]
        BY DEF TInv, TypeOK, Idx
    <2>2. QED
        BY <2>1, ValsArray DEF TInv, TypeOK
<1>1. CASE Start
    <2>1. Perm'
        BY <1>1, PermKept DEF Start
    <2>2. CASE count < 2
        <3>1. pc' = "done" /\ UNCHANGED <<arr, count>>
            BY <1>1, <2>2 DEF Start
        <3>2. SortedOn(arr, 0, count - 1)
            BY <1>a, <2>2 DEF SortedOn
        <3>3. QED
            BY <1>0, <2>1, <3>1, <3>2 DEF InsertInv
    <2>3. CASE count >= 2
        <3>1. pc' = "pass"
            BY <1>1, <1>a, <2>3 DEF Start
        <3>2. QED
            BY <1>0, <2>1, <3>1 DEF InsertInv
    <2>4. QED
        BY <1>a, <2>2, <2>3
<1>2. CASE NewPass
    <2>1. Perm'
        BY <1>2, PermKept DEF NewPass
    <2>2. 1 <= dist /\ dist <= count
        BY <1>2, <1>a DEF NewPass, TInv, Bounds
    <2>3. SortedOn(arr, 0, 0)
        BY <1>a, <2>2 DEF SortedOn
    <2>4. pc' = "outer" /\ dist' = Gap(dist) /\ i' = Gap(dist) /\ UNCHANGED arr
        BY <1>2 DEF NewPass
    <2>5. QED
        BY <1>0, <2>1, <2>3, <2>4 DEF InsertInv, SortedOn
<1>3. CASE NextElement
    <2>1. Perm'
        BY <1>3, PermKept DEF NextElement
    <2>2. dist = 1 => Inserting(arr, i - 1, i)
        BY <1>3, <1>a, InsertBegin DEF NextElement, InsertInv
    <2>3. pc' = "inner" /\ cur' = i - 1 + (1 - dist) /\ UNCHANGED <<arr, dist, i>>
        BY <1>3, <1>a DEF NextElement
    <2>4. QED
        BY <1>0, <1>a, <2>1, <2>2, <2>3 DEF InsertInv, Inserting
<1>4. CASE InnerCompare
    <2>0. pc = "inner" /\ cur >= 0 /\ cur + dist <= i /\ i < count
        BY <1>4 DEF InnerCompare, TInv, IInv
    <2>1. CASE arr[cur] <= arr[cur + dist]
        <3>1. Perm'
            BY <1>4, <2>1, PermKept DEF InnerCompare
        <3>2. dist = 1 => SortedOn(arr, 0, i)
            BY <1>a, <2>0, <2>1, InsertEnd DEF InsertInv
        <3>3. i' = i + 1 /\ pc' = "outer" /\ UNCHANGED <<arr, dist>>
            BY <1>4, <2>1 DEF InnerCompare
        <3>4. QED
            BY <1>0, <1>a, <3>1, <3>2, <3>3 DEF InsertInv, SortedOn
    <2>2. CASE ~(arr[cur] <= arr[cur + dist])
        <3>1. arr' = Swap(arr, cur, cur + dist) /\ cur' = cur - dist
              /\ UNCHANGED <<input, count, dist, i, pc>>
            BY <1>4, <2>2 DEF InnerCompare
        <3>2. Perm'
            <4>1. IsFiniteSet(0 .. count - 1)
                BY <1>a, FS_Interval
            <4>2. \A v \in Int : Below(arr', v) = Below(arr, v) /\ AtMost(arr', v) = AtMost(arr, v)
                <5> TAKE v \in Int
                <5>1. cur \in 0 .. count - 1 /\ cur + dist \in 0 .. count - 1
                    BY <1>a, <2>0
                <5>2. /\ Below(Swap(arr, cur, cur + dist), v) = Below(arr, v)
                      /\ AtMost(Swap(arr, cur, cur + dist), v) = AtMost(arr, v)
                    BY <1>a, <4>1, <5>1, SwapCounts
                <5>3. QED
                    BY <3>1, <5>2
            <4>3. QED
                BY <3>1, <4>2 DEF Perm
        <3>3. dist = 1 => Inserting(arr', cur', i')
            BY <1>a, <2>0, <2>2, <3>1, InsertSwap DEF InsertInv
        <3>4. dist = 1 => Inserting(arr, cur, i)'
            BY <3>3 DEF Inserting
        <3>5. QED
            BY <1>0, <2>0, <3>1, <3>2, <3>4 DEF InsertInv
    <2>3. QED
        BY <2>1, <2>2
<1>5. CASE InnerExit
    <2>1. Perm'
        BY <1>5, PermKept DEF InnerExit
    <2>2. pc = "inner" /\ cur < 0 /\ cur + dist >= 0 /\ cur + dist <= i /\ i < count
        BY <1>5 DEF InnerExit, TInv, IInv, Bounds
    <2>3. dist = 1 => SortedOn(arr, 0, i)
        BY <1>a, <2>2, InsertEnd DEF InsertInv
    <2>4. i' = i + 1 /\ pc' = "outer" /\ UNCHANGED <<arr, dist>>
        BY <1>5 DEF InnerExit
    <2>5. QED
        BY <1>0, <1>a, <2>1, <2>3, <2>4 DEF InsertInv, SortedOn
<1>6. CASE EndPass
    <2>1. Perm'
        BY <1>6, PermKept DEF EndPass
    <2>2. pc = "outer" /\ i = count => (dist = 1 => SortedOn(arr, 0, count - 1))
        BY DEF InsertInv
    <2>3. i = count
        BY <1>6, <1>a DEF EndPass, TInv, Bounds
    <2>4. QED
        BY <1>0, <1>6, <2>1, <2>2, <2>3 DEF EndPass, InsertInv
<1>7. CASE UNCHANGED vars
    BY <1>0, <1>7, PermKept DEF vars, InsertInv
<1>8. QED
    BY <1>1, <1>2, <1>3, <1>4, <1>5, <1>6, <1>7 DEF Next

(* SInv gives SortsInput: once done, arr is sorted and has the input's  *)
(* counts, so it is SortedOf(input).                                       *)
LEMMA SInvSorts == SInv => SortsInput
<1> SUFFICES ASSUME SInv, pc = "done" PROVE arr = SortedOf(input)
    BY DEF SortsInput
<1>1. count \in Nat /\ arr \in [0 .. count - 1 -> Int] /\ input \in [0 .. count - 1 -> Int]
    <2>1. count \in Nat /\ arr \in [0 .. count - 1 -> Vals] /\ input \in [0 .. count - 1 -> Vals]
        BY DEF SInv, TInv, TypeOK, Idx
    <2>2. QED
        BY <2>1, ValsArray
<1>2. SortedOn(arr, 0, count - 1)
    BY DEF SInv, InsertInv
<1>3. QED
    BY <1>1, <1>2, SortedIsSortedOf DEF SInv, Perm

(* backtrace_qsort sorts: for every array length and every set of integer *)
(* values, when the passes are over the array holds exactly the sorted    *)
(* permutation of the input.  This is what the binary searches over the   *)
(* symbol tables and address ranges that libbacktrace sorts with it rely  *)
(* on.                                                                     *)
THEOREM SortCorrect == Spec => []SortsInput
<1>1. Init => SInv
    BY InitSInv
<1>2. SInv /\ [Next]_vars => SInv'
    BY NextSInv
<1>3. SInv => SortsInput
    BY SInvSorts
<1>4. QED
    BY <1>1, <1>2, <1>3, PTL DEF Spec

=============================================================================
