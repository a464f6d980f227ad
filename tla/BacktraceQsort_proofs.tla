------------------------ MODULE BacktraceQsort_proofs ------------------------
(***************************************************************************)
(* Proofs about backtrace_qsort for every array length and element set.    *)
(***************************************************************************)
EXTENDS BacktraceQsort, TLAPS

USE SortAssumption

(* The inductive invariant behind AccessesInBounds: the counters are       *)
(* integers, and inside the inner loop i is below count and the cursor is *)
(* at least one gap below i.  AccessesInBounds alone is not inductive: it  *)
(* says nothing when cur < 0 or outside the inner loop, and it does not   *)
(* bound i, which the next NextElement turns into the cursor.              *)
IInv ==
    /\ count \in Nat
    /\ dist \in Nat
    /\ i \in Int
    /\ cur \in Int
    /\ pc = "inner" => i < count /\ cur + dist <= i

(* The next gap is a natural number.                                       *)
LEMMA GapNat ==
    ASSUME NEW d \in Nat
    PROVE  Gap(d) \in Nat
BY DEF Gap

LEMMA InitIInv == Init => IInv
BY DEF Init, IInv

(* Every step keeps IInv; only NextElement and the swapping branch of     *)
(* InnerCompare move the cursor, and both keep it a gap below i.          *)
LEMMA NextIInv == IInv /\ [Next]_vars => IInv'
<1> SUFFICES ASSUME IInv, [Next]_vars PROVE IInv'
    OBVIOUS
<1>1. CASE Start
    BY <1>1 DEF Start, IInv
<1>2. CASE NewPass
    <2>1. Gap(dist) \in Nat
        BY GapNat DEF IInv
    <2>2. QED
        BY <1>2, <2>1 DEF NewPass, IInv
<1>3. CASE NextElement
    BY <1>3 DEF NextElement, IInv
<1>4. CASE InnerCompare
    BY <1>4 DEF InnerCompare, IInv
<1>5. CASE InnerExit
    BY <1>5 DEF InnerExit, IInv
<1>6. CASE EndPass
    BY <1>6 DEF EndPass, IInv
<1>7. CASE UNCHANGED vars
    BY <1>7 DEF vars, IInv
<1>8. QED
    BY <1>1, <1>2, <1>3, <1>4, <1>5, <1>6, <1>7 DEF Next

(* IInv gives AccessesInBounds: cur >= 0 and cur + dist <= i < count.     *)
LEMMA IInvBounds == IInv => AccessesInBounds
BY DEF IInv, AccessesInBounds, Idx

(* Whatever the array and its length, every compare and swap of           *)
(* backtrace_qsort's inner loop stays inside the array: the sort never    *)
(* reads or writes an element before base or past base + count * size.   *)
THEOREM BoundsSafe == Spec => []AccessesInBounds
<1>1. Init => IInv
    BY InitIInv
<1>2. IInv /\ [Next]_vars => IInv'
    BY NextIInv
<1>3. IInv => AccessesInBounds
    BY IInvBounds
<1>4. QED
    BY <1>1, <1>2, <1>3, PTL DEF Spec

=============================================================================
