--------------------------- MODULE BacktraceQsort ---------------------------
(***************************************************************************)
(* backtrace_qsort in sort.c: the Shell sort libbacktrace uses in place of *)
(* qsort, which may allocate and so cannot run in a signal handler.  Each  *)
(* pass computes dist = (dist / 8 * 3) | 1 and insertion-sorts the         *)
(* elements dist apart, walking a cursor down by dist until the compared  *)
(* pair is in order or the cursor passes the base; the passes stop after   *)
(* the one with dist = 1.                                                  *)
(*                                                                         *)
(* An element is a value of Vals compared by its order (compar returning   *)
(* <= 0 means "in order"); the element size only scales the pointer        *)
(* arithmetic and swap moves whole elements, so both are left out.  The    *)
(* cursor is an element index, possibly negative where the code forms a    *)
(* pointer below base.                                                     *)
(***************************************************************************)
EXTENDS Integers, FiniteSets

CONSTANTS
    Vals,      \* the element values, totally ordered by <=
    MaxCount   \* the largest count sorted

ASSUME SortAssumption ==
    /\ Vals \subseteq Int
    /\ MaxCount \in Nat

VARIABLES
    input,  \* the array as passed in (never changes)
    arr,    \* the array being sorted, indices 0 .. count - 1
    count,  \* the number of elements
    dist,   \* the current gap
    i,      \* the outer loop index
    cur,    \* the inner loop cursor: an index, below 0 once it passes base
    pc      \* "start", "pass", "outer", "inner" or "done"

vars == <<input, arr, count, dist, i, cur, pc>>

Idx == 0 .. count - 1

(* dist / 8 * 3 | 1, with C's unsigned division and OR with 1.           *)
Gap(d) == LET g == (d \div 8) * 3 IN IF g % 2 = 0 THEN g + 1 ELSE g

(* swap (cur, cur + d, size): exchange the two elements.                   *)
Swap(a, x, y) == [a EXCEPT ![x] = a[y], ![y] = a[x]]

-----------------------------------------------------------------------------
(* Mutants: plausible slips in the code.                                   *)

(* The gap is computed without "| 1": it can reach 0.                      *)
NewPassNoOr ==
    /\ pc = "pass"
    /\ dist' = (dist \div 8) * 3
    /\ i' = (dist \div 8) * 3
    /\ pc' = "outer"
    /\ UNCHANGED <<input, arr, count, cur>>

(* The inner loop treats the first element as past the base (cur > base).  *)
InnerCompareNoBase ==
    /\ pc = "inner"
    /\ cur >= 0
    /\ IF cur = 0 \/ arr[cur] <= arr[cur + dist]
       THEN /\ i' = i + 1
            /\ pc' = "outer"
            /\ UNCHANGED <<arr, cur>>
       ELSE /\ arr' = Swap(arr, cur, cur + dist)
            /\ cur' = cur - dist
            /\ UNCHANGED <<i, pc>>
    /\ UNCHANGED <<input, count, dist>>

(* The do-while loop tests dist != 0 instead of dist != 1.                 *)
EndPassWhileNonzero ==
    /\ pc = "outer"
    /\ i >= count
    /\ pc' = IF dist # 0 THEN "pass" ELSE "done"
    /\ UNCHANGED <<input, arr, count, dist, i, cur>>

(* The outer loop runs while i <= count.                                   *)
NextElementThroughCount ==
    /\ pc = "outer"
    /\ i <= count
    /\ cur' = i - dist
    /\ pc' = "inner"
    /\ UNCHANGED <<input, arr, count, dist, i>>

-----------------------------------------------------------------------------
(* backtrace_qsort is called on any array of at most MaxCount values.      *)
Init ==
    /\ count \in 0 .. MaxCount
    /\ input \in [0 .. count - 1 -> Vals]
    /\ arr = input
    /\ dist = 0
    /\ i = 0
    /\ cur = 0
    /\ pc = "start"

(* Lines 68-73: fewer than two elements return at once; otherwise the    *)
(* passes start from dist = count.                                         *)
Start ==
    /\ pc = "start"
    /\ pc' = IF count < 2 THEN "done" ELSE "pass"
    /\ dist' = count
    /\ UNCHANGED <<input, arr, count, i, cur>>

(* Lines 76-78: the next gap, and the outer loop starts at i = dist.       *)
NewPass ==
    /\ pc = "pass"
    /\ dist' = Gap(dist)
    /\ i' = Gap(dist)
    /\ pc' = "outer"
    /\ UNCHANGED <<input, arr, count, cur>>

(* Lines 78-79: for i < count the cursor starts dist below i.              *)
NextElement ==
    /\ pc = "outer"
    /\ i < count
    /\ cur' = i - dist
    /\ pc' = "inner"
    /\ UNCHANGED <<input, arr, count, dist, i>>

(* Lines 79-84: while cur >= base, stop if the pair is in order and        *)
(* otherwise swap it and move the cursor down by dist.                     *)
InnerCompare ==
    /\ pc = "inner"
    /\ cur >= 0
    /\ IF arr[cur] <= arr[cur + dist]
       THEN /\ i' = i + 1
            /\ pc' = "outer"
            /\ UNCHANGED <<arr, cur>>
       ELSE /\ arr' = Swap(arr, cur, cur + dist)
            /\ cur' = cur - dist
            /\ UNCHANGED <<i, pc>>
    /\ UNCHANGED <<input, count, dist>>

(* Line 79: the cursor has passed base; the outer loop moves on.           *)
InnerExit ==
    /\ pc = "inner"
    /\ cur < 0
    /\ i' = i + 1
    /\ pc' = "outer"
    /\ UNCHANGED <<input, arr, count, dist, cur>>

(* Lines 78, 86: the pass is over; another one follows unless dist = 1.   *)
EndPass ==
    /\ pc = "outer"
    /\ i >= count
    /\ pc' = IF dist # 1 THEN "pass" ELSE "done"
    /\ UNCHANGED <<input, arr, count, dist, i, cur>>

Next ==
    \/ Start \/ NewPass \/ NextElement \/ InnerCompare \/ InnerExit
    \/ EndPass

(* The sort runs in the calling thread with nothing else to do: every      *)
(* step it can take, it takes.                                             *)
Spec == Init /\ [][Next]_vars /\ WF_vars(Next)

-----------------------------------------------------------------------------
(* Reference: the sorted permutation of a, defined without any algorithm:  *)
(* position j holds the value v with fewer than j + 1 elements below v and *)
(* at least j + 1 elements at most v.                                      *)
Below(a, v) == Cardinality({k \in DOMAIN a : a[k] < v})
AtMost(a, v) == Cardinality({k \in DOMAIN a : a[k] <= v})
SortedOf(a) ==
    [j \in DOMAIN a |->
        CHOOSE v \in {a[k] : k \in DOMAIN a} : Below(a, v) <= j /\ j < AtMost(a, v)]

(* Type invariant.                                                         *)
TypeOK ==
    /\ count \in 0 .. MaxCount
    /\ input \in [Idx -> Vals]
    /\ arr \in [Idx -> Vals]
    /\ dist \in 0 .. MaxCount
    /\ pc \in {"start", "pass", "outer", "inner", "done"}
    /\ pc \in {"pass", "outer", "inner"} => dist \in 1 .. MaxCount
    /\ i \in 0 .. MaxCount
    /\ cur \in -MaxCount .. MaxCount

(* backtrace_qsort leaves the array holding exactly the sorted            *)
(* permutation of what it was given: every pass only swaps, and the last   *)
(* pass, with dist = 1, is a full insertion sort.  Callers (coff_syminfo, *)
(* elf_syminfo, the DWARF address ranges) binary-search the result.        *)
SortsInput ==
    pc = "done" => arr = SortedOf(input)

(* Every compare and swap of the inner loop (lines 81-83) reads and writes *)
(* inside the array: the pair cur, cur + dist lies in 0 .. count - 1 and   *)
(* cur + dist <= i, whatever the gap sequence and however far the cursor  *)
(* has walked down.                                                        *)
AccessesInBounds ==
    pc = "inner" /\ cur >= 0 => {cur, cur + dist} \subseteq Idx

(* backtrace_qsort returns: the gap sequence reaches 1 and every inner     *)
(* loop ends, for every count.                                             *)
Terminates ==
    <>(pc = "done")

=============================================================================
