------------------------------ MODULE MachoBase ------------------------------
(***************************************************************************)
(* macho_get_base (macho.c, 238-316): walk the load commands for the       *)
(* __TEXT segment and return its vmaddr - fileoff, the address the        *)
(* executable expects to be loaded at.                                    *)
(*                                                                         *)
(* A command is read at the running offset, which advances by cmdsize;    *)
(* before each struct is read the offset plus its size is checked against *)
(* sizeofcmds.  Here each command's cmdsize is its size, so the command   *)
(* at the offset is the next one of cmds; sizeofcmds (total) may be       *)
(* smaller than their sum, which is a truncated file.                     *)
(*                                                                         *)
(* The LC_SEGMENT_64 branch reads through struct segment_command, the    *)
(* 32-bit layout.  On the little-endian hosts Mach-O runs on its vmaddr   *)
(* field (byte 24, 4 bytes) is the low half of the 64-bit vmaddr and its  *)
(* fileoff field (byte 32) the low half of the 64-bit vmsize.  Words are  *)
(* W bits wide: uint64_t arithmetic is modulo 2^W and the uint32_t fields *)
(* hold W \div 2 bits.  Files in the host byte order.                     *)
(***************************************************************************)
EXTENDS Integers, Sequences, SequencesExt

CONSTANTS
    W,           \* the width of uint64_t in the model
    MaxCmds,     \* the most load commands
    Vals,        \* segment addresses and sizes
    TotalSizes   \* values of sizeofcmds

ASSUME BaseAssumption ==
    /\ W \in Nat \ {0} /\ W % 2 = 0
    /\ MaxCmds \in Nat
    /\ Vals \subseteq 0 .. 2^W - 1
    /\ TotalSizes \subseteq Nat

Word == 2^W
Half == 2^(W \div 2)

(* sizeof of struct load_command, segment_command, segment_command_64,   *)
(* and the size of a command of another kind.                             *)
LoadCommandSize == 8
SizeOf == [LC_SEGMENT |-> 56, LC_SEGMENT_64 |-> 72, other |-> 24]
(* The last byte of segname in either segment struct, and the last byte  *)
(* of segment_command's fileoff.                                          *)
SegnameEnd == 24
Fields32End == 36

(* A load command: its kind, whether segname is "__TEXT", and for a       *)
(* segment its vmaddr, vmsize and fileoff (32-bit fields for LC_SEGMENT). *)
Commands ==
    [cmd : {"other"}, text : {FALSE}, vmaddr : {0}, vmsize : {0}, fileoff : {0}]
    \cup [cmd : {"LC_SEGMENT"}, text : BOOLEAN, vmaddr : Vals \cap (0 .. Half - 1),
          vmsize : Vals \cap (0 .. Half - 1), fileoff : Vals \cap (0 .. Half - 1)]
    \cup [cmd : {"LC_SEGMENT_64"}, text : BOOLEAN, vmaddr : Vals, vmsize : Vals,
          fileoff : Vals]

VARIABLES
    cmds,      \* the load commands of the executable
    total,     \* commands_total_size (sizeofcmds)
    i,         \* the loop index, 1-based
    offset,    \* the byte offset of the current command
    lastRead,  \* one past the last byte the previous step read
    ret,       \* the return value
    base,      \* *base_address
    pc

vars == <<cmds, total, i, offset, lastRead, ret, base, pc>>

Cmd == cmds[i]

(* Mutant: the LC_SEGMENT_64 branch checks only the load_command header. *)
CheckedHeaderOnly(c) ==
    IF c.cmd = "LC_SEGMENT_64" THEN LoadCommandSize ELSE SizeOf[c.cmd]

(* Reading a segment command: the size the branch checks, and the base it *)
(* computes from the fields it reads.                                     *)
Checked(c) == SizeOf[c.cmd]
(* Mutant: the difference is taken in a signed 64-bit integer.            *)
BaseReadSigned(c) ==
    IF c.cmd = "LC_SEGMENT" THEN c.vmaddr - c.fileoff
    ELSE (c.vmaddr % Half) - (c.vmsize % Half)

BaseRead(c) ==
    IF c.cmd = "LC_SEGMENT" THEN (c.vmaddr - c.fileoff) % Word
    ELSE ((c.vmaddr % Half) - (c.vmsize % Half)) % Word

Init ==
    /\ cmds \in BoundedSeq(Commands, MaxCmds)
    /\ total \in TotalSizes
    /\ i = 1
    /\ offset = 0
    /\ lastRead = 0
    /\ ret = 0
    /\ base = 0
    /\ pc = "loop"

(* Lines 249-254: the load_command header would run past sizeofcmds.      *)
HeaderTruncated ==
    /\ pc = "loop" /\ i <= Len(cmds)
    /\ offset + LoadCommandSize > total
    /\ ret' = 0 /\ pc' = "returned"
    /\ UNCHANGED <<cmds, total, i, offset, lastRead, base>>

(* Lines 264-271 and 287-294: the segment struct would run past           *)
(* sizeofcmds.                                                             *)
SegmentTruncated ==
    /\ pc = "loop" /\ i <= Len(cmds)
    /\ offset + LoadCommandSize <= total
    /\ Cmd.cmd # "other"
    /\ offset + Checked(Cmd) > total
    /\ lastRead' = offset + LoadCommandSize
    /\ ret' = 0 /\ pc' = "returned"
    /\ UNCHANGED <<cmds, total, i, offset, base>>

(* Lines 256-262, 276-277 and 299-300: the __TEXT segment: base = vmaddr  *)
(* - fileoff as read, in uint64_t.                                         *)
FoundText ==
    /\ pc = "loop" /\ i <= Len(cmds)
    /\ offset + LoadCommandSize <= total
    /\ Cmd.cmd # "other" /\ offset + Checked(Cmd) <= total
    /\ Cmd.text
    /\ base' = BaseRead(Cmd)
    /\ lastRead' = offset + Fields32End
    /\ ret' = 1 /\ pc' = "returned"
    /\ UNCHANGED <<cmds, total, i, offset>>

(* Lines 256-262, 276 or 299, 309: another command; offset += cmdsize.    *)
Advance ==
    /\ pc = "loop" /\ i <= Len(cmds)
    /\ offset + LoadCommandSize <= total
    /\ Cmd.cmd = "other" \/ (offset + Checked(Cmd) <= total /\ ~Cmd.text)
    /\ lastRead' = offset + IF Cmd.cmd = "other" THEN LoadCommandSize ELSE SegnameEnd
    /\ offset' = offset + SizeOf[Cmd.cmd]
    /\ i' = i + 1
    /\ UNCHANGED <<cmds, total, ret, base, pc>>

(* Lines 312-314: no __TEXT segment among ncmds commands.                 *)
NoText ==
    /\ pc = "loop" /\ i > Len(cmds)
    /\ ret' = 0 /\ pc' = "returned"
    /\ UNCHANGED <<cmds, total, i, offset, lastRead, base>>

Next ==
    \/ HeaderTruncated \/ SegmentTruncated \/ FoundText \/ Advance \/ NoText

Spec == Init /\ [][Next]_vars

-----------------------------------------------------------------------------
(* Type invariant.                                                         *)
TypeOK ==
    /\ cmds \in Seq(Commands)
    /\ total \in TotalSizes
    /\ i \in 1 .. Len(cmds) + 1
    /\ offset \in Nat /\ lastRead \in Nat
    /\ ret \in {0, 1}
    /\ base \in 0 .. Word - 1
    /\ pc \in {"loop", "returned"}

(* Every byte macho_get_base reads from the commands view lies inside     *)
(* sizeofcmds, whatever the commands and however the file is truncated:   *)
(* the size checks come before the reads on every branch.                 *)
ReadsInBounds ==
    lastRead <= total

(* The first __TEXT segment command.                                      *)
FirstText ==
    LET ks == {k \in 1 .. Len(cmds) : cmds[k].cmd # "other" /\ cmds[k].text}
    IN  cmds[CHOOSE k \in ks : \A j \in ks : k <= j]

(* Spec section 4.4.3: the file base address of LC_SEGMENT{_64} __TEXT is *)
(* "vm - file offset", for 32- and 64-bit images alike.                   *)
BaseIsVmaddrMinusFileoff ==
    ret = 1 => base = (FirstText.vmaddr - FirstText.fileoff) % Word

=============================================================================
