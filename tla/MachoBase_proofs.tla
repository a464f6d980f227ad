--------------------------- MODULE MachoBase_proofs ---------------------------
(***************************************************************************)
(* Proof that macho_get_base reads only inside sizeofcmds, for every word *)
(* width, every sequence of load commands and every sizeofcmds.           *)
(***************************************************************************)
EXTENDS MachoBase, TLAPS

(* The part of BaseAssumption the proof needs.                          *)
LEMMA TotalsNat == TotalSizes \subseteq Nat
BY BaseAssumption, Zenon

(* ReadsInBounds with the facts about the numbers it is computed from.    *)
IInv ==
    /\ cmds \in Seq(Commands)
    /\ total \in Nat
    /\ i \in 1 .. Len(cmds) + 1
    /\ offset \in Nat
    /\ lastRead \in Nat
    /\ pc \in {"loop", "returned"}
    /\ ReadsInBounds

(* Every command has a kind, and each segment struct is at least as long  *)
(* as the fields read from it.                                             *)
LEMMA CmdFacts ==
    ASSUME IInv, i <= Len(cmds)
    PROVE  /\ Cmd.cmd \in {"other", "LC_SEGMENT", "LC_SEGMENT_64"}
           /\ Cmd.cmd # "other" => Checked(Cmd) >= Fields32End
           /\ SizeOf[Cmd.cmd] \in Nat
           /\ Checked(Cmd) \in Nat
<1>1. Cmd \in Commands
    BY DEF IInv, Cmd
<1>2. Cmd.cmd \in {"other", "LC_SEGMENT", "LC_SEGMENT_64"}
    BY <1>1 DEF Commands
<1>3. QED
    BY <1>2 DEF Checked, SizeOf, Fields32End

LEMMA InitIInv == Init => IInv
<1> SUFFICES ASSUME Init PROVE IInv
    OBVIOUS
<1>1. PICK m \in 0 .. MaxCmds : cmds \in [1 .. m -> Commands]
    BY DEF Init, BoundedSeq, SeqOf
<1>2. cmds \in Seq(Commands)
    BY <1>1
<1>3. total \in Nat
    BY TotalsNat DEF Init
<1>4. QED
    BY <1>2, <1>3 DEF Init, IInv, ReadsInBounds

LEMMA NextIInv == IInv /\ [Next]_vars => IInv'
<1> SUFFICES ASSUME IInv, [Next]_vars PROVE IInv'
    OBVIOUS
<1>1. CASE HeaderTruncated
    BY <1>1 DEF HeaderTruncated, IInv, ReadsInBounds
<1>2. CASE SegmentTruncated
    BY <1>2 DEF SegmentTruncated, IInv, ReadsInBounds, LoadCommandSize
<1>3. CASE FoundText
    <2>1. i <= Len(cmds) /\ Cmd.cmd # "other"
        BY <1>3 DEF FoundText
    <2>2. Checked(Cmd) >= Fields32End /\ Checked(Cmd) \in Nat
        BY <2>1, CmdFacts
    <2>3. QED
        BY <1>3, <2>2 DEF FoundText, IInv, ReadsInBounds, Fields32End
<1>4. CASE Advance
    <2>1. i <= Len(cmds)
        BY <1>4 DEF Advance
    <2>2. SizeOf[Cmd.cmd] \in Nat
        BY <2>1, CmdFacts
    <2>3. lastRead' <= total
        <3>1. CASE Cmd.cmd = "other"
            BY <1>4, <3>1 DEF Advance, IInv, LoadCommandSize
        <3>2. CASE Cmd.cmd # "other"
            <4>1. Checked(Cmd) >= Fields32End /\ Checked(Cmd) \in Nat
                BY <2>1, <3>2, CmdFacts
            <4>2. QED
                BY <1>4, <3>2, <4>1 DEF Advance, IInv, SegnameEnd, Fields32End
        <3>3. QED
            BY <3>1, <3>2
    <2>4. offset' \in Nat /\ lastRead' \in Nat
        BY <1>4, <2>2 DEF Advance, IInv, LoadCommandSize, SegnameEnd
    <2>5. i' \in 1 .. Len(cmds') + 1
        BY <1>4, <2>1 DEF Advance, IInv
    <2>6. cmds' \in Seq(Commands) /\ total' = total /\ pc' \in {"loop", "returned"}
        BY <1>4 DEF Advance, IInv
    <2>7. QED
        BY <2>3, <2>4, <2>5, <2>6 DEF IInv, ReadsInBounds
<1>5. CASE NoText
    BY <1>5 DEF NoText, IInv, ReadsInBounds
<1>6. CASE UNCHANGED vars
    BY <1>6 DEF vars, IInv, ReadsInBounds
<1>7. QED
    BY <1>1, <1>2, <1>3, <1>4, <1>5, <1>6 DEF Next

(* Every byte macho_get_base reads lies inside sizeofcmds.                *)
THEOREM InBounds == Spec => []ReadsInBounds
<1>1. Init => IInv
    BY InitIInv
<1>2. IInv /\ [Next]_vars => IInv'
    BY NextIInv
<1>3. IInv => ReadsInBounds
    BY DEF IInv
<1>4. QED
    BY <1>1, <1>2, <1>3, PTL DEF Spec

=============================================================================
