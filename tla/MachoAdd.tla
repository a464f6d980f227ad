------------------------------ MODULE MachoAdd ------------------------------
(***************************************************************************)
(* The Mach-O reader in macho.c: backtrace_initialize reads the            *)
(* executable's load commands, its UUID and its __TEXT base, finds it in   *)
(* the dyld image list, and scans its directory for *.dSYM bundles;        *)
(* macho_try_dsym scans a bundle's Contents/Resources/DWARF directory;     *)
(* macho_try_dwarf opens one candidate, checks its UUID, maps its DWARF    *)
(* sections and hands them to backtrace_dwarf_add.  macho_get_commands     *)
(* maps the header and the load commands of a file.                        *)
(*                                                                         *)
(* The three functions nest without recursion, so each keeps its locals   *)
(* in variables of its own.  Views, descriptors and directory handles are  *)
(* numbered in the order they are obtained and count their releases and   *)
(* closes.  Files and directories are reduced to the outcomes the code     *)
(* tests; a view that cannot be mapped and backtrace_dwarf_add failing are *)
(* allowed for the kinds listed in Faults.                                 *)
(***************************************************************************)
EXTENDS Integers, Sequences, SequencesExt, FiniteSets

CONSTANTS
    MaxBundles,  \* the most directory entries beside the executable
    MaxFiles,    \* the most entries in a dSYM's DWARF directory
    Faults       \* a subset of {"view", "dwarf"}

ASSUME MachoAssumption ==
    /\ MaxBundles \in Nat /\ MaxFiles \in Nat
    /\ Faults \subseteq {"view", "dwarf"}

(* A candidate DWARF file, as macho_try_dwarf sees it: whether             *)
(* backtrace_open succeeds, whether the Mach-O magic is known, its LC_UUID *)
(* compared with the executable's, and, for a file with an LC_UUID, its   *)
(* __DWARF sections ("truncated" when a command or section runs past the  *)
(* load commands).  Fields the code never reaches are fixed.              *)
DwarfFiles ==
    [reg : {TRUE}, open : {FALSE}, magic : {FALSE}, uuid : {"none"}, sects : {"none"}]
    \cup [reg : {TRUE}, open : {TRUE}, magic : {FALSE}, uuid : {"none"}, sects : {"none"}]
    \cup [reg : {TRUE}, open : {TRUE}, magic : {TRUE}, uuid : {"none"}, sects : {"none"}]
    \cup [reg : {TRUE}, open : {TRUE}, magic : {TRUE}, uuid : {"match", "other"},
          sects : {"present", "truncated", "none"}]

(* A directory entry that is not a regular file (d_type != DT_REG).       *)
NotRegular == [reg |-> FALSE, open |-> FALSE, magic |-> FALSE, uuid |-> "none", sects |-> "none"]

(* An entry beside the executable: a *.dSYM bundle, with whether its DWARF *)
(* directory opens and that directory's entries, or another name.          *)
Bundles ==
    [dsym : {FALSE}, opens : {FALSE}, entries : {<<>>}]
    \cup [dsym : {TRUE}, opens : {FALSE}, entries : {<<>>}]
    \cup [dsym : {TRUE}, opens : {TRUE},
          entries : BoundedSeq(DwarfFiles \cup {NotRegular}, MaxFiles)]

(* The executable: a known magic; identified (macho_get_uuid and           *)
(* macho_get_base succeed and the image is in the dyld list, which the     *)
(* code only tells apart by the error message); its directory opens.       *)
Executables ==
    [magic : BOOLEAN, identified : BOOLEAN, dir : BOOLEAN]

VARIABLES
    exe, bundles,        \* the environment of this behaviour (never change)
    views,               \* views[v]: kind, the file it maps, release count
    fds,                 \* fds[d]: the file of the d-th descriptor, close count
    badCloses,           \* calls of backtrace_close (-1)
    dirs,                \* dirs[k]: the closedir count of the k-th DIR
    dwarfViews,          \* the views given to backtrace_dwarf_add
    pc,                  \* the next step
    ret,                 \* backtrace_initialize's ret
    iCmd, iDir, iEntry,  \* backtrace_initialize: commands view, DIR, entry
    dDir, dEntry, dRet,  \* macho_try_dsym: DIR, entry, ret
    wFd, wFdValid, wCmd, wView, wRet  \* macho_try_dwarf's locals

vars == <<exe, bundles, views, fds, badCloses, dirs, dwarfViews, pc, ret,
          iCmd, iDir, iEntry, dDir, dEntry, dRet, wFd, wFdValid, wCmd, wView, wRet>>

(* The executable's file, and the j-th entry of the i-th bundle <<i, j>>. *)
ExeSrc == <<0, 0>>
Srcs == {ExeSrc} \cup ((1 .. MaxBundles) \X (1 .. MaxFiles))

Bundle == bundles[iEntry]
DFile == Bundle.entries[dEntry]
DSrc == <<iEntry, dEntry>>   \* the file a view or descriptor of try_dwarf maps

Released(vs, v) == IF v = 0 THEN vs ELSE [vs EXCEPT ![v].rel = @ + 1]

(* The header view and the load-commands view of file src.               *)
Hdr(src, r) == [kind |-> "header", src |-> src, rel |-> r]
Cmds(src) == [kind |-> "commands", src |-> src, rel |-> 0]
(* Mutant: the commands view is reported as the view just before it.     *)
GetCommandsOffByOne(src, magicOk) ==
    (IF "view" \in Faults THEN {<<views, 0>>} ELSE {})
    \cup (IF ~magicOk THEN {<<Append(views, Hdr(src, 1)), 0>>}
          ELSE {<<views \o <<Hdr(src, 1), Cmds(src)>>, Len(views) + 1>>}
               \cup (IF "view" \in Faults THEN {<<Append(views, Hdr(src, 1)), 0>>} ELSE {}))

(* macho_get_commands on file src: the outcomes, each the new views and    *)
(* the commands view (0 on failure).  The header view is released on      *)
(* every path it was obtained on.                                          *)
GetCommands(src, magicOk) ==
    (IF "view" \in Faults THEN {<<views, 0>>} ELSE {})
    \cup (IF ~magicOk THEN {<<Append(views, Hdr(src, 1)), 0>>}
          ELSE {<<views \o <<Hdr(src, 1), Cmds(src)>>, Len(views) + 2>>}
               \cup (IF "view" \in Faults THEN {<<Append(views, Hdr(src, 1)), 0>>} ELSE {}))

-----------------------------------------------------------------------------
(* Mutants: plausible slips in the code.                                   *)

(* The UUID is only required to exist, not to match.                     *)
DwarfUuidUnchecked ==
    /\ pc = "w_uuid"
    /\ pc' = IF DFile.uuid # "none" THEN "w_sections" ELSE "w_end"
    /\ UNCHANGED <<exe, bundles, views, fds, badCloses, dirs, dwarfViews, ret,
                   iCmd, iDir, iEntry, dDir, dEntry, dRet, wFd, wFdValid, wCmd, wView, wRet>>

(* The end label forgets the commands view.                                *)
InitEndKeepsCommands ==
    /\ pc = "i_end"
    /\ dirs' = IF iDir = 0 THEN dirs ELSE [dirs EXCEPT ![iDir] = @ + 1]
    /\ pc' = "returned"
    /\ UNCHANGED <<exe, bundles, views, fds, badCloses, dwarfViews, ret,
                   iCmd, iDir, iEntry, dDir, dEntry, dRet, wFd, wFdValid, wCmd, wView, wRet>>

(* A found DWARF file returns at once, skipping closedir.                  *)
DsymEndReturnEarly ==
    /\ pc = "d_end"
    /\ dirs' = IF dDir = 0 \/ dRet = 1 THEN dirs ELSE [dirs EXCEPT ![dDir] = @ + 1]
    /\ IF dRet = 1 THEN ret' = 1 /\ pc' = "i_end" /\ UNCHANGED iEntry
                   ELSE iEntry' = iEntry + 1 /\ pc' = "i_loop" /\ UNCHANGED ret
    /\ UNCHANGED <<exe, bundles, views, fds, badCloses, dwarfViews,
                   iCmd, iDir, dDir, dEntry, dRet, wFd, wFdValid, wCmd, wView, wRet>>

-----------------------------------------------------------------------------
(* The caller has opened the executable: descriptor 1.                    *)
Init ==
    /\ exe \in Executables
    /\ bundles \in BoundedSeq(Bundles, MaxBundles)
    /\ views = <<>>
    /\ fds = <<[src |-> ExeSrc, closes |-> 0]>>
    /\ badCloses = 0
    /\ dirs = <<>>
    /\ dwarfViews = {}
    /\ pc = "i_commands"
    /\ ret = 0
    /\ iCmd = 0 /\ iDir = 0 /\ iEntry = 1
    /\ dDir = 0 /\ dEntry = 1 /\ dRet = 0
    /\ wFd = 0 /\ wFdValid = FALSE /\ wCmd = 0 /\ wView = 0 /\ wRet = 0

(* backtrace_initialize, lines 641-645: macho_get_commands on the          *)
(* executable.                                                             *)
InitCommands ==
    /\ pc = "i_commands"
    /\ \E o \in GetCommands(ExeSrc, exe.magic) :
          /\ views' = o[1]
          /\ iCmd' = o[2]
          /\ pc' = IF o[2] = 0 THEN "i_end" ELSE "i_identify"
    /\ UNCHANGED <<exe, bundles, fds, badCloses, dirs, dwarfViews, ret,
                   iDir, iEntry, dDir, dEntry, dRet, wFd, wFdValid, wCmd, wView, wRet>>

(* Lines 647-682: macho_get_uuid, macho_get_base and the dyld image list;  *)
(* lines 684-703: the directory of the executable is opened.               *)
InitOpenDir ==
    /\ pc = "i_identify"
    /\ IF exe.identified /\ exe.dir
       THEN /\ dirs' = Append(dirs, 0)
            /\ iDir' = Len(dirs) + 1
            /\ pc' = "i_loop"
       ELSE /\ pc' = "i_end"
            /\ UNCHANGED <<dirs, iDir>>
    /\ UNCHANGED <<exe, bundles, views, fds, badCloses, dwarfViews, ret,
                   iCmd, iEntry, dDir, dEntry, dRet, wFd, wFdValid, wCmd, wView, wRet>>

(* Lines 705-730: the next entry; a *.dSYM entry is tried with             *)
(* macho_try_dsym; at the end of the directory ret = 0.                    *)
InitLoop ==
    /\ pc = "i_loop"
    /\ IF iEntry > Len(bundles)
       THEN pc' = "i_end" /\ UNCHANGED <<iEntry, dDir, dEntry, dRet>>
       ELSE IF ~bundles[iEntry].dsym
       THEN iEntry' = iEntry + 1 /\ UNCHANGED <<pc, dDir, dEntry, dRet>>
       ELSE /\ pc' = "d_opendir"
            /\ dDir' = 0 /\ dEntry' = 1 /\ dRet' = 0
            /\ UNCHANGED iEntry
    /\ UNCHANGED <<exe, bundles, views, fds, badCloses, dirs, dwarfViews, ret,
                   iCmd, iDir, wFd, wFdValid, wCmd, wView, wRet>>

(* Lines 732-738: release the commands view and close the directory.  The *)
(* executable's descriptor is not closed.                                  *)
InitEnd ==
    /\ pc = "i_end"
    /\ views' = Released(views, iCmd)
    /\ dirs' = IF iDir = 0 THEN dirs ELSE [dirs EXCEPT ![iDir] = @ + 1]
    /\ pc' = "returned"
    /\ UNCHANGED <<exe, bundles, fds, badCloses, dwarfViews, ret,
                   iCmd, iDir, iEntry, dDir, dEntry, dRet, wFd, wFdValid, wCmd, wView, wRet>>

(* macho_try_dsym, lines 583-591: open Contents/Resources/DWARF.           *)
DsymOpenDir ==
    /\ pc = "d_opendir"
    /\ IF Bundle.opens
       THEN dirs' = Append(dirs, 0) /\ dDir' = Len(dirs) + 1 /\ pc' = "d_loop"
       ELSE pc' = "d_end" /\ UNCHANGED <<dirs, dDir>>
    /\ UNCHANGED <<exe, bundles, views, fds, badCloses, dwarfViews, ret,
                   iCmd, iDir, iEntry, dEntry, dRet, wFd, wFdValid, wCmd, wView, wRet>>

(* Lines 593-609: the next regular file is tried with macho_try_dwarf.     *)
DsymLoop ==
    /\ pc = "d_loop"
    /\ IF dEntry > Len(Bundle.entries)
       THEN pc' = "d_end" /\ UNCHANGED <<dEntry, wFd, wFdValid, wCmd, wView, wRet>>
       ELSE IF ~DFile.reg
       THEN dEntry' = dEntry + 1 /\ UNCHANGED <<pc, wFd, wFdValid, wCmd, wView, wRet>>
       ELSE /\ pc' = "w_open"
            /\ wFd' = 0 /\ wFdValid' = FALSE /\ wCmd' = 0 /\ wView' = 0 /\ wRet' = 0
            /\ UNCHANGED dEntry
    /\ UNCHANGED <<exe, bundles, views, fds, badCloses, dirs, dwarfViews, ret,
                   iCmd, iDir, iEntry, dDir, dRet>>

(* Lines 611-614: close the directory and return; back in                   *)
(* backtrace_initialize (721-727) a success ends the search.               *)
DsymEnd ==
    /\ pc = "d_end"
    /\ dirs' = IF dDir = 0 THEN dirs ELSE [dirs EXCEPT ![dDir] = @ + 1]
    /\ IF dRet = 1 THEN ret' = 1 /\ pc' = "i_end" /\ UNCHANGED iEntry
                   ELSE iEntry' = iEntry + 1 /\ pc' = "i_loop" /\ UNCHANGED ret
    /\ UNCHANGED <<exe, bundles, views, fds, badCloses, dwarfViews,
                   iCmd, iDir, dDir, dEntry, dRet, wFd, wFdValid, wCmd, wView, wRet>>

(* macho_try_dwarf, lines 335-338: backtrace_open returns -1 on failure,   *)
(* but the code tests for 0, so the descriptor is marked valid either way. *)
DwarfOpen ==
    /\ pc = "w_open"
    /\ IF DFile.open
       THEN fds' = Append(fds, [src |-> DSrc, closes |-> 0]) /\ wFd' = Len(fds) + 1
       ELSE wFd' = -1 /\ UNCHANGED fds
    /\ wFdValid' = TRUE
    /\ pc' = "w_commands"
    /\ UNCHANGED <<exe, bundles, views, badCloses, dirs, dwarfViews, ret,
                   iCmd, iDir, iEntry, dDir, dEntry, dRet, wCmd, wView, wRet>>

(* Lines 340-343: macho_get_commands; on descriptor -1 the first view     *)
(* fails.                                                                  *)
DwarfCommands ==
    /\ pc = "w_commands"
    /\ \E o \in IF wFd = -1 THEN {<<views, 0>>} ELSE GetCommands(DSrc, DFile.magic) :
          /\ views' = o[1]
          /\ wCmd' = o[2]
          /\ pc' = IF o[2] = 0 THEN "w_end" ELSE "w_uuid"
    /\ UNCHANGED <<exe, bundles, fds, badCloses, dirs, dwarfViews, ret,
                   iCmd, iDir, iEntry, dDir, dEntry, dRet, wFd, wFdValid, wView, wRet>>

(* Lines 345-353: macho_get_uuid and the memcmp with the executable's.     *)
DwarfUuid ==
    /\ pc = "w_uuid"
    /\ pc' = IF DFile.uuid = "match" THEN "w_sections" ELSE "w_end"
    /\ UNCHANGED <<exe, bundles, views, fds, badCloses, dirs, dwarfViews, ret,
                   iCmd, iDir, iEntry, dDir, dEntry, dRet, wFd, wFdValid, wCmd, wView, wRet>>

(* Lines 355-520: the __DWARF section scan; a truncated command or         *)
(* section, or no DWARF section (max_dwarf_offset == 0), ends the attempt. *)
DwarfSections ==
    /\ pc = "w_sections"
    /\ pc' = IF DFile.sects = "present" THEN "w_view" ELSE "w_end"
    /\ UNCHANGED <<exe, bundles, views, fds, badCloses, dirs, dwarfViews, ret,
                   iCmd, iDir, iEntry, dDir, dEntry, dRet, wFd, wFdValid, wCmd, wView, wRet>>

(* Lines 522-526: one view over all the DWARF sections.                    *)
DwarfView ==
    /\ pc = "w_view"
    /\ \/ /\ "view" \in Faults
          /\ pc' = "w_end"
          /\ UNCHANGED <<views, wView>>
       \/ /\ views' = Append(views, [kind |-> "dwarf", src |-> DSrc, rel |-> 0])
          /\ wView' = Len(views) + 1
          /\ pc' = "w_add"
    /\ UNCHANGED <<exe, bundles, fds, badCloses, dirs, dwarfViews, ret,
                   iCmd, iDir, iEntry, dDir, dEntry, dRet, wFd, wFdValid, wCmd, wRet>>

(* Lines 528-557: backtrace_dwarf_add keeps the view; then line 555 clears *)
(* dwarf_descriptor_valid, where the comment says the view is meant.       *)
DwarfAdd ==
    /\ pc = "w_add"
    /\ \/ /\ "dwarf" \in Faults
          /\ UNCHANGED <<dwarfViews, wFdValid, wRet>>
       \/ /\ dwarfViews' = dwarfViews \cup {wView}
          /\ wFdValid' = FALSE
          /\ wRet' = 1
    /\ pc' = "w_end"
    /\ UNCHANGED <<exe, bundles, views, fds, badCloses, dirs, ret,
                   iCmd, iDir, iEntry, dDir, dEntry, dRet, wFd, wCmd, wView>>

(* Lines 559-567: close the descriptor, release the commands view and the  *)
(* DWARF view, return; back in macho_try_dsym (603-607) a success ends     *)
(* the directory scan.                                                     *)
DwarfEnd ==
    /\ pc = "w_end"
    /\ IF wFdValid /\ wFd = -1 THEN badCloses' = badCloses + 1 ELSE UNCHANGED badCloses
    /\ fds' = IF wFdValid /\ wFd > 0 THEN [fds EXCEPT ![wFd].closes = @ + 1] ELSE fds
    /\ views' = Released(Released(views, wCmd), wView)
    /\ IF wRet = 1 THEN dRet' = 1 /\ pc' = "d_end" /\ UNCHANGED dEntry
                   ELSE dEntry' = dEntry + 1 /\ pc' = "d_loop" /\ UNCHANGED dRet
    /\ UNCHANGED <<exe, bundles, dirs, dwarfViews, ret,
                   iCmd, iDir, iEntry, dDir, wFd, wFdValid, wCmd, wView, wRet>>

Next ==
    \/ InitCommands \/ InitOpenDir \/ InitLoop \/ InitEnd
    \/ DsymOpenDir \/ DsymLoop \/ DsymEnd
    \/ DwarfOpen \/ DwarfCommands \/ DwarfUuid \/ DwarfSections \/ DwarfView
    \/ DwarfAdd \/ DwarfEnd

Spec == Init /\ [][Next]_vars

-----------------------------------------------------------------------------
(* Type invariant; a commands or DWARF local names a view of its kind.    *)
TypeOK ==
    /\ views \in Seq([kind : {"header", "commands", "dwarf"},
                      src : Srcs,
                      rel : Nat])
    /\ fds \in Seq([src : Srcs, closes : Nat])
    /\ badCloses \in Nat
    /\ dirs \in Seq(Nat)
    /\ dwarfViews \subseteq DOMAIN views
    /\ ret \in {0, 1}
    /\ iCmd = 0 \/ (iCmd \in DOMAIN views /\ views[iCmd].kind = "commands")
    /\ wCmd = 0 \/ (wCmd \in DOMAIN views /\ views[wCmd].kind = "commands")
    /\ wView = 0 \/ (wView \in DOMAIN views /\ views[wView].kind = "dwarf")
    /\ wFd \in {-1} \cup (0 .. Len(fds))

(* When backtrace_initialize returns, every view it or its callees mapped  *)
(* and did not hand to backtrace_dwarf_add has been released exactly once, *)
(* on every path: the headers inside macho_get_commands, the commands      *)
(* views at the end labels, DWARF views whose registration failed.         *)
TransientViewsReleased ==
    pc = "returned" =>
        \A v \in DOMAIN views : v \notin dwarfViews => views[v].rel = 1

(* Every directory opened (the executable's, each dSYM's DWARF directory)  *)
(* is closed exactly once by the time backtrace_initialize returns, also  *)
(* when a DWARF file was found and the scans stop early.                   *)
DirsClosed ==
    pc = "returned" => \A k \in DOMAIN dirs : dirs[k] = 1

(* Spec section 8.8: only a dSYM whose LC_UUID matches the executable's is *)
(* used, and once one is registered the search stops: at most one DWARF    *)
(* view is registered, from a matching file.                               *)
DwarfFromMatchingDsym ==
    /\ \A v, u \in dwarfViews : v = u
    /\ \A v \in dwarfViews :
          LET s == views[v].src IN bundles[s[1]].entries[s[2]].uuid = "match"

(* The view handed to backtrace_dwarf_add stays mapped: its section data   *)
(* is used by every later lookup (the comment at line 555).                *)
RegisteredDwarfViewLive ==
    \A v \in dwarfViews : views[v].rel = 0

=============================================================================
