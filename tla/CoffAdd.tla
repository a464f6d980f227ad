------------------------------ MODULE CoffAdd ------------------------------
(***************************************************************************)
(* coff_add in pecoff.c: reading one PE/COFF file, registering its symbol  *)
(* table, following .gnu_debuglink and .gnu_debugaltlink to a separate     *)
(* debug file by calling itself, and registering the file's DWARF.         *)
(* The recursion is an explicit call stack of frames; each frame holds     *)
(* the locals of one coff_add call that decide which views it releases     *)
(* and which descriptor it closes.  Views and descriptors are numbered in  *)
(* the order they are obtained and keep a count of their releases and     *)
(* closes.  backtrace_initialize drives the first call and, when it        *)
(* returns, chooses state->syminfo_fn.                                     *)
(*                                                                         *)
(* Data is abstracted to what the lifecycle depends on: a file is a model  *)
(* value with a description saying which parts it has and where its links  *)
(* lead; path probing, CRC arithmetic and section parsing are the outcomes *)
(* they produce.  Environment failures (a view that cannot be mapped, an   *)
(* allocation, a close, an open or the DWARF reader failing) are allowed   *)
(* where the code checks for them, for the kinds listed in Faults.         *)
(***************************************************************************)
EXTENDS Integers, Sequences

CONSTANTS
    Files,        \* the files of the file system (model values)
    Primary,      \* the executable passed to backtrace_initialize
    None,         \* "no such file": a link that is absent or resolves to nothing
    FileSystems,  \* the candidate file systems, functions Files -> FileDesc
    Faults        \* the kinds of environment failure that may happen

FaultKinds == {"view", "alloc", "open", "close", "dwarf"}

(* What coff_add can tell about a file.                                    *)
(*  coff:  "no" if the MZ/PE magic is wrong, "badopt" if the optional     *)
(*         header has a bad magic, "ok" otherwise;                         *)
(*  syms:  "none" without a symbol table, "bad" if a symbol has an invalid *)
(*         section or name offset, "ok" otherwise;                         *)
(*  link, crc: the file .gnu_debuglink names and how the recorded CRC      *)
(*         compares with that file ("zero" means no CRC is recorded);      *)
(*  alt:   the file .gnu_debugaltlink names;                               *)
(*  dbg:   whether it has any .debug_* section.                            *)
FileDesc ==
    [coff : {"no", "badopt", "ok"},
     syms : {"none", "bad", "ok"},
     link : Files \cup {None},
     crc  : {"zero", "match", "mismatch"},
     alt  : Files \cup {None},
     dbg  : BOOLEAN]

ASSUME ConstantsAssumption ==
    /\ Primary \in Files
    /\ None \notin Files
    /\ FileSystems \subseteq [Files -> FileDesc]
    /\ Faults \subseteq FaultKinds

VARIABLES
    fs,          \* the file system of this behaviour (never changes)
    stack,       \* the coff_add frames, the innermost last
    views,       \* views[v]: the v-th view obtained: its kind and release count
    fds,         \* fds[d]: the d-th descriptor opened: its file and close count
    ret,         \* the value returned by the last coff_add that returned
    foundSym,    \* *found_sym, shared by all frames of one call
    foundDwarf,  \* *found_dwarf, shared likewise
    fileline,    \* *fileline_fn: "unset", "nodebug" (coff_nodebug) or "dwarf"
    shards,      \* state->syminfo_data: the files whose symbols were added
    dwarfViews,  \* the views handed to backtrace_dwarf_add
    syminfoFn,   \* state->syminfo_fn: "null", "coff_syminfo", "coff_nosyms"
    phase        \* "coff_add" while the first call runs, then "done"

vars == <<fs, stack, views, fds, ret, foundSym, foundDwarf, fileline,
          shards, dwarfViews, syminfoFn, phase>>

ViewKinds == {"sects", "syms", "str", "debuglink", "debugaltlink", "debug"}

Pcs == {"GetFileHeader", "GetSections", "GetSymtab", "GetDebuglink",
        "GetDebugaltlink", "AddSyminfo", "TryDebuglink", "AfterDebuglink",
        "TryDebugaltlink", "AfterDebugaltlink", "GetDebugView", "DwarfAdd",
        "Fail"}

(* One frame: the locals of a coff_add call.  A view local is the number  *)
(* of the view, 0 when its *_valid flag is clear; fd is the descriptor and *)
(* desc whether it is still != -1; nameView is the view that holds the     *)
(* filename argument (0 when the caller owns it); child is the descriptor  *)
(* d of the debug file being tried.                                        *)
Frame ==
    [file : Files, fd : Nat \ {0}, desc : BOOLEAN, pc : Pcs,
     sects : Nat, syms : Nat, str : Nat, dl : Nat, alt : Nat, dbg : Nat,
     dlName : BOOLEAN, altName : BOOLEAN, nameView : Nat, child : Nat]

(* A view: its kind and how often it was released; a descriptor: its file *)
(* and how often it was closed.                                            *)
ViewRec == [kind : ViewKinds, rel : Nat]
FdRec == [file : Files, closes : Nat]

NewFrame(f, d, nv) ==
    [file |-> f, fd |-> d, desc |-> TRUE, pc |-> "GetFileHeader",
     sects |-> 0, syms |-> 0, str |-> 0, dl |-> 0, alt |-> 0, dbg |-> 0,
     dlName |-> FALSE, altName |-> FALSE, nameView |-> nv, child |-> 0]

-----------------------------------------------------------------------------
(* Helpers on the stack, the views and the descriptors.                    *)

Top == stack[Len(stack)]
Desc == fs[Top.file]

SetTop(fr) == stack' = [stack EXCEPT ![Len(stack)] = fr]
Goto(p) == SetTop([Top EXCEPT !.pc = p])

Live(v) == v \in DOMAIN views /\ views[v].rel = 0

(* The next view number, and views with the views in S released once more. *)
NextView == Len(views) + 1
Obtain(k) == views' = Append(views, [kind |-> k, rel |-> 0])
Released(vs, S) ==
    [v \in DOMAIN vs |->
        IF v \in S THEN [kind |-> vs[v].kind, rel |-> vs[v].rel + 1] ELSE vs[v]]

(* Descriptors: open a new one on file f, close the ones in S once more.   *)
NextFd == Len(fds) + 1
Closed(ds, S) ==
    [d \in DOMAIN ds |->
        IF d \in S THEN [file |-> ds[d].file, closes |-> ds[d].closes + 1] ELSE ds[d]]

(* A failure of kind k may happen in this run.                             *)
May(k) == k \in Faults

(* Return from the innermost coff_add with value r.                        *)
Return(r) ==
    /\ stack' = SubSeq(stack, 1, Len(stack) - 1)
    /\ ret' = r

(* Call coff_add on file f with the descriptor opened last, the caller    *)
(* resuming at p and keeping the descriptor as its child; nv is the view   *)
(* holding the callee's filename.                                          *)
Call(p, f, nv) ==
    stack' = Append([stack EXCEPT ![Len(stack)] = [Top EXCEPT !.pc = p,
                                                              !.child = NextFd]],
                    NewFrame(f, NextFd, nv))

-----------------------------------------------------------------------------
(* Mutants: plausible slips in the code, each the body of one action, used *)
(* to show that the properties of the passing run can tell them apart.     *)

(* fail: forgets to close the descriptor.                                  *)
FailKeepsDescriptor ==
    /\ Top.pc = "Fail"
    /\ views' = Released(views, {Top.sects, Top.str, Top.syms, Top.dbg} \ {0})
    /\ Return(0)
    /\ UNCHANGED <<fs, fds, foundSym, foundDwarf, fileline, shards, dwarfViews,
                   syminfoFn, phase>>

(* fail: returns -1, as the descriptor-returning helpers of this file do.  *)
FailReturnsMinusOne ==
    /\ Top.pc = "Fail"
    /\ views' = Released(views, {Top.sects, Top.str, Top.syms, Top.dbg} \ {0})
    /\ fds' = Closed(fds, IF Top.desc THEN {Top.fd} ELSE {})
    /\ stack' = SubSeq(stack, 1, Len(stack) - 1)
    /\ ret' = -1
    /\ UNCHANGED <<fs, foundSym, foundDwarf, fileline, shards, dwarfViews,
                   syminfoFn, phase>>

(* The success path releases the section view but not the symbol view.    *)
AddSyminfoKeepsSymsView ==
    /\ Top.pc = "AddSyminfo"
    /\ \/ /\ Desc.syms = "none"
          /\ UNCHANGED <<foundSym, shards>>
          /\ views' = Released(views, {Top.sects})
          /\ SetTop([Top EXCEPT !.sects = 0, !.pc = "TryDebuglink"])
       \/ /\ Desc.syms # "none"
          /\ \/ Desc.syms = "bad"
             \/ May("alloc")
          /\ Goto("Fail")
          /\ UNCHANGED <<foundSym, shards, views>>
       \/ /\ Desc.syms = "ok"
          /\ foundSym' = TRUE
          /\ shards' = Append(shards, Top.file)
          /\ views' = Released(views, {Top.sects})
          /\ SetTop([Top EXCEPT !.sects = 0, !.syms = 0, !.pc = "TryDebuglink"])
    /\ UNCHANGED <<fs, fds, ret, foundDwarf, fileline, dwarfViews,
                   syminfoFn, phase>>

(* Without debug sections, returns 1 without setting coff_nodebug.         *)
GetDebugViewNoNodebug ==
    /\ Top.pc = "GetDebugView"
    /\ \/ /\ ~Desc.dbg
          /\ fds' = Closed(fds, {Top.fd})
          /\ \/ Return(1)
             \/ /\ May("close")
                /\ Goto("Fail")
                /\ UNCHANGED ret
          /\ UNCHANGED <<views, fileline>>
       \/ /\ Desc.dbg
          /\ May("view")
          /\ Goto("Fail")
          /\ UNCHANGED <<views, fds, fileline, ret>>
       \/ /\ Desc.dbg
          /\ Obtain("debug")
          /\ SetTop([Top EXCEPT !.dbg = NextView, !.pc = "DwarfAdd"])
          /\ UNCHANGED <<fds, fileline, ret>>
    /\ UNCHANGED <<fs, foundSym, foundDwarf, shards, dwarfViews,
                   syminfoFn, phase>>

(* The cleanup releases the debug view it has just handed to the DWARF     *)
(* reader, as when the wrong *_valid flag is cleared before "end:".        *)
DwarfAddReleasesView ==
    /\ Top.pc = "DwarfAdd"
    /\ fds' = Closed(fds, {Top.fd})
    /\ \/ /\ May("close")
          /\ Goto("Fail")
          /\ UNCHANGED <<foundDwarf, fileline, dwarfViews, ret, views>>
       \/ /\ May("dwarf")
          /\ SetTop([Top EXCEPT !.desc = FALSE, !.pc = "Fail"])
          /\ UNCHANGED <<foundDwarf, fileline, dwarfViews, ret, views>>
       \/ /\ dwarfViews' = dwarfViews \cup {Top.dbg}
          /\ views' = Released(views, {Top.dbg})
          /\ foundDwarf' = TRUE
          /\ fileline' = "dwarf"
          /\ Return(1)
    /\ UNCHANGED <<fs, foundSym, shards, syminfoFn, phase>>

-----------------------------------------------------------------------------
(* The initial state: backtrace_initialize has been given the open         *)
(* descriptor 1 of the executable and calls coff_add on it (line 1449);    *)
(* coff_add clears *found_sym and *found_dwarf (949-950).                  *)
Init ==
    /\ fs \in FileSystems
    /\ stack = << NewFrame(Primary, 1, 0) >>
    /\ views = << >>
    /\ fds = << [file |-> Primary, closes |-> 0] >>
    /\ ret = 0
    /\ foundSym = FALSE
    /\ foundDwarf = FALSE
    /\ fileline = "unset"
    /\ shards = << >>
    /\ dwarfViews = {}
    /\ syminfoFn = "null"
    /\ phase = "coff_add"

(* Lines 962-1004: map the MS-DOS stub and the COFF file header, each view *)
(* released at once, and check the PE magic.                               *)
GetFileHeader ==
    /\ Top.pc = "GetFileHeader"
    /\ \/ /\ May("view")
          /\ Goto("Fail")
       \/ /\ Desc.coff = "no"
          /\ Goto("Fail")
       \/ /\ Desc.coff # "no"
          /\ Goto("GetSections")
    /\ UNCHANGED <<fs, views, fds, ret, foundSym, foundDwarf, fileline,
                   shards, dwarfViews, syminfoFn, phase>>

(* Lines 1006-1042: map the optional header and the section headers; a    *)
(* bad optional-header magic fails with the view held.                     *)
GetSections ==
    /\ Top.pc = "GetSections"
    /\ \/ /\ May("view")
          /\ Goto("Fail")
          /\ UNCHANGED views
       \/ /\ Obtain("sects")
          /\ SetTop([Top EXCEPT !.sects = NextView,
                       !.pc = IF Desc.coff = "badopt" THEN "Fail" ELSE "GetSymtab"])
    /\ UNCHANGED <<fs, fds, ret, foundSym, foundDwarf, fileline,
                   shards, dwarfViews, syminfoFn, phase>>

(* Lines 1046-1081: map the symbol table and then the string table that  *)
(* follows it.  The string table is taken to be present whenever symbols  *)
(* are; either mapping may fail.                                           *)
GetSymtab ==
    /\ Top.pc = "GetSymtab"
    /\ \/ /\ Desc.syms = "none"
          /\ Goto("GetDebuglink")
          /\ UNCHANGED views
       \/ /\ Desc.syms # "none"
          /\ May("view")
          /\ Goto("Fail")
          /\ UNCHANGED views
       \/ /\ Desc.syms # "none"
          /\ May("view")
          /\ Obtain("syms")
          /\ SetTop([Top EXCEPT !.syms = NextView, !.pc = "Fail"])
       \/ /\ Desc.syms # "none"
          /\ views' = views \o << [kind |-> "syms", rel |-> 0],
                                  [kind |-> "str", rel |-> 0] >>
          /\ SetTop([Top EXCEPT !.syms = NextView, !.str = NextView + 1,
                                !.pc = "GetDebuglink"])
    /\ UNCHANGED <<fs, fds, ret, foundSym, foundDwarf, fileline,
                   shards, dwarfViews, syminfoFn, phase>>

(* Lines 1116-1153: the section loop finds .gnu_debuglink, maps it and     *)
(* takes debuglink_name and the CRC from the view.                         *)
GetDebuglink ==
    /\ Top.pc = "GetDebuglink"
    /\ \/ /\ Desc.link = None
          /\ Goto("GetDebugaltlink")
          /\ UNCHANGED views
       \/ /\ Desc.link # None
          /\ May("view")
          /\ Goto("Fail")
          /\ UNCHANGED views
       \/ /\ Desc.link # None
          /\ Obtain("debuglink")
          /\ SetTop([Top EXCEPT !.dl = NextView, !.dlName = TRUE,
                                !.pc = "GetDebugaltlink"])
    /\ UNCHANGED <<fs, fds, ret, foundSym, foundDwarf, fileline,
                   shards, dwarfViews, syminfoFn, phase>>

(* Lines 1154-1165: likewise for .gnu_debugaltlink.                        *)
GetDebugaltlink ==
    /\ Top.pc = "GetDebugaltlink"
    /\ \/ /\ Desc.alt = None
          /\ Goto("AddSyminfo")
          /\ UNCHANGED views
       \/ /\ Desc.alt # None
          /\ May("view")
          /\ Goto("Fail")
          /\ UNCHANGED views
       \/ /\ Desc.alt # None
          /\ Obtain("debugaltlink")
          /\ SetTop([Top EXCEPT !.alt = NextView, !.altName = TRUE,
                                !.pc = "AddSyminfo"])
    /\ UNCHANGED <<fs, fds, ret, foundSym, foundDwarf, fileline,
                   shards, dwarfViews, syminfoFn, phase>>

(* Lines 1169-1199: build the symbol table (coff_initialize_syminfo,       *)
(* 654-787), append it to state->syminfo_data, then release the section   *)
(* and symbol views.  A failure jumps to fail with both views held.        *)
AddSyminfo ==
    /\ Top.pc = "AddSyminfo"
    /\ \/ /\ Desc.syms = "none"
          /\ UNCHANGED <<foundSym, shards>>
          /\ views' = Released(views, {Top.sects})
          /\ SetTop([Top EXCEPT !.sects = 0, !.pc = "TryDebuglink"])
       \/ /\ Desc.syms # "none"
          /\ \/ Desc.syms = "bad"
             \/ May("alloc")
          /\ Goto("Fail")
          /\ UNCHANGED <<foundSym, shards, views>>
       \/ /\ Desc.syms = "ok"
          /\ foundSym' = TRUE
          /\ shards' = Append(shards, Top.file)
          /\ views' = Released(views, {Top.sects, Top.syms})
          /\ SetTop([Top EXCEPT !.sects = 0, !.syms = 0, !.pc = "TryDebuglink"])
    /\ UNCHANGED <<fs, fds, ret, foundDwarf, fileline, dwarfViews,
                   syminfoFn, phase>>

(* coff_find_debugfile_by_debuglink and coff_try_debugfile (383-512)      *)
(* find nothing when the name resolves to no file or an allocation or an  *)
(* open fails.                                                             *)
DebugfileNotFound(target) ==
    /\ \/ target = None
       \/ May("alloc")
       \/ May("open")
    /\ UNCHANGED fds

(* coff_open_debugfile_by_debuglink (514-552): the file opened, and when a *)
(* CRC is recorded, coff_crc32_file (343-368) matches it.                  *)
DebugfileOpened(target, crc) ==
    /\ target # None
    /\ crc \in {"zero", "match"}
    /\ fds' = Append(fds, [file |-> target, closes |-> 0])

(* Lines 533-549: the file opened but its CRC differs from the recorded   *)
(* one, or coff_crc32_file returned 0 because fstat or the view failed:    *)
(* the descriptor is closed and -1 returned.                               *)
DebugfileCrcRejected(target, crc) ==
    /\ target # None
    /\ \/ crc = "mismatch"
       \/ crc = "match" /\ May("view")
    /\ fds' = Append(fds, [file |-> target, closes |-> 1])

(* Lines 1203-1222, 1244-1252: open the .gnu_debuglink file; if it opens,  *)
(* release both link views and call coff_add on it with debuglink_name as *)
(* its filename.                                                           *)
TryDebuglink ==
    /\ Top.pc = "TryDebuglink"
    /\ \/ /\ ~Top.dlName
          /\ Goto("TryDebugaltlink")
          /\ UNCHANGED <<fds, views, foundSym, foundDwarf>>
       \/ /\ Top.dlName
          /\ \/ DebugfileNotFound(Desc.link)
             \/ DebugfileCrcRejected(Desc.link, Desc.crc)
          /\ Goto("TryDebugaltlink")
          /\ UNCHANGED <<views, foundSym, foundDwarf>>
       \/ /\ Top.dlName
          /\ DebugfileOpened(Desc.link, Desc.crc)
          /\ views' = Released(views, {Top.dl, Top.alt} \ {0})
          /\ Call("AfterDebuglink", Desc.link, Top.dl)
          /\ foundSym' = FALSE
          /\ foundDwarf' = FALSE
    /\ UNCHANGED <<fs, ret, fileline, shards, dwarfViews, syminfoFn, phase>>

(* Lines 1223-1242: the debug file's coff_add has returned: on failure    *)
(* close d and fall back; on success close the descriptor and return.     *)
AfterDebuglink ==
    /\ Top.pc = "AfterDebuglink"
    /\ \/ /\ ret = 0
          /\ fds' = Closed(fds, {Top.child})
          /\ Goto("TryDebugaltlink")
          /\ UNCHANGED ret
       \/ /\ ret = 1
          /\ fds' = Closed(fds, {Top.fd})
          /\ Return(1)
    /\ UNCHANGED <<fs, views, foundSym, foundDwarf, fileline, shards,
                   dwarfViews, syminfoFn, phase>>

(* Lines 1254-1258, 1288-1295: open the .gnu_debugaltlink file (no CRC);  *)
(* if it opens, release both link views and call coff_add on it, passing  *)
(* this call's own filename.                                               *)
TryDebugaltlink ==
    /\ Top.pc = "TryDebugaltlink"
    /\ \/ /\ ~Top.altName
          /\ Goto("GetDebugView")
          /\ UNCHANGED <<fds, views, foundSym, foundDwarf>>
       \/ /\ Top.altName
          /\ DebugfileNotFound(Desc.alt)
          /\ Goto("GetDebugView")
          /\ UNCHANGED <<views, foundSym, foundDwarf>>
       \/ /\ Top.altName
          /\ DebugfileOpened(Desc.alt, "zero")
          /\ views' = Released(views, {Top.dl, Top.alt} \ {0})
          /\ Call("AfterDebugaltlink", Desc.alt, Top.nameView)
          /\ foundSym' = FALSE
          /\ foundDwarf' = FALSE
    /\ UNCHANGED <<fs, ret, fileline, shards, dwarfViews, syminfoFn, phase>>

(* Lines 1259-1287: as AfterDebuglink, for the altlink file.               *)
AfterDebugaltlink ==
    /\ Top.pc = "AfterDebugaltlink"
    /\ \/ /\ ret = 0
          /\ fds' = Closed(fds, {Top.child})
          /\ Goto("GetDebugView")
          /\ UNCHANGED ret
       \/ /\ ret = 1
          /\ fds' = Closed(fds, {Top.fd})
          /\ Return(1)
    /\ UNCHANGED <<fs, views, foundSym, foundDwarf, fileline, shards,
                   dwarfViews, syminfoFn, phase>>

(* Lines 1301-1327: without debug sections close the descriptor and       *)
(* return 1 with coff_nodebug (a failed close goes to fail with the       *)
(* descriptor still set); otherwise map all debug sections in one view.   *)
GetDebugView ==
    /\ Top.pc = "GetDebugView"
    /\ \/ /\ ~Desc.dbg
          /\ fds' = Closed(fds, {Top.fd})
          /\ \/ /\ fileline' = "nodebug"
                /\ Return(1)
             \/ /\ May("close")
                /\ Goto("Fail")
                /\ UNCHANGED <<fileline, ret>>
          /\ UNCHANGED views
       \/ /\ Desc.dbg
          /\ May("view")
          /\ Goto("Fail")
          /\ UNCHANGED <<views, fds, fileline, ret>>
       \/ /\ Desc.dbg
          /\ Obtain("debug")
          /\ SetTop([Top EXCEPT !.dbg = NextView, !.pc = "DwarfAdd"])
          /\ UNCHANGED <<fds, fileline, ret>>
    /\ UNCHANGED <<fs, foundSym, foundDwarf, shards, dwarfViews,
                   syminfoFn, phase>>

(* Lines 1329-1359: close the descriptor (descriptor = -1 only after a    *)
(* successful close) and hand the debug view to backtrace_dwarf_add, which *)
(* keeps it: the view is never released.                                   *)
DwarfAdd ==
    /\ Top.pc = "DwarfAdd"
    /\ fds' = Closed(fds, {Top.fd})
    /\ \/ /\ May("close")
          /\ Goto("Fail")
          /\ UNCHANGED <<foundDwarf, fileline, dwarfViews, ret>>
       \/ /\ May("dwarf")
          /\ SetTop([Top EXCEPT !.desc = FALSE, !.pc = "Fail"])
          /\ UNCHANGED <<foundDwarf, fileline, dwarfViews, ret>>
       \/ /\ dwarfViews' = dwarfViews \cup {Top.dbg}
          /\ foundDwarf' = TRUE
          /\ fileline' = "dwarf"
          /\ Return(1)
    /\ UNCHANGED <<fs, views, foundSym, shards, syminfoFn, phase>>

(* Lines 1361-1372: release the valid section, string, symbol and debug   *)
(* views, close the descriptor unless it is -1, and return 0.              *)
Fail ==
    /\ Top.pc = "Fail"
    /\ views' = Released(views, {Top.sects, Top.str, Top.syms, Top.dbg} \ {0})
    /\ fds' = Closed(fds, IF Top.desc THEN {Top.fd} ELSE {})
    /\ Return(0)
    /\ UNCHANGED <<fs, foundSym, foundDwarf, fileline, shards, dwarfViews,
                   syminfoFn, phase>>

(* Lines 1449-1452, 1522-1552: when the first coff_add has returned,      *)
(* backtrace_initialize fails if it failed, and otherwise sets             *)
(* state->syminfo_fn to coff_syminfo if *found_sym, else to coff_nosyms    *)
(* if it is still NULL.                                                    *)
FinishInitialize ==
    /\ phase = "coff_add"
    /\ stack = << >>
    /\ phase' = "done"
    /\ syminfoFn' = IF ret = 1 /\ foundSym THEN "coff_syminfo"
                    ELSE IF ret = 1 /\ syminfoFn = "null" THEN "coff_nosyms"
                    ELSE syminfoFn
    /\ UNCHANGED <<fs, stack, views, fds, ret, foundSym, foundDwarf,
                   fileline, shards, dwarfViews>>

Step ==
    \/ GetFileHeader \/ GetSections \/ GetSymtab \/ GetDebuglink
    \/ GetDebugaltlink \/ AddSyminfo \/ TryDebuglink \/ AfterDebuglink
    \/ TryDebugaltlink \/ AfterDebugaltlink \/ GetDebugView \/ DwarfAdd
    \/ Fail

Next == (stack # << >> /\ Step) \/ FinishInitialize

Spec == Init /\ [][Next]_vars

-----------------------------------------------------------------------------
(* Type invariant.                                                         *)
TypeOK ==
    /\ fs \in [Files -> FileDesc]
    /\ stack \in Seq(Frame)
    /\ views \in Seq(ViewRec)
    /\ fds \in Seq(FdRec)
    /\ ret \in {0, 1}
    /\ foundSym \in BOOLEAN
    /\ foundDwarf \in BOOLEAN
    /\ fileline \in {"unset", "nodebug", "dwarf"}
    /\ shards \in Seq(Files)
    /\ dwarfViews \subseteq Nat
    /\ syminfoFn \in {"null", "coff_syminfo", "coff_nosyms"}
    /\ phase \in {"coff_add", "done"}

(* The comment on coff_add (line 903): it returns 1 or 0 and "in both     *)
(* cases descriptor is closed".  Every descriptor that no active coff_add  *)
(* call holds has been closed, whichever failures happened on the way.     *)
DescriptorClosedOnReturn ==
    \A d \in DOMAIN fds :
        (\A i \in DOMAIN stack : stack[i].fd # d) => fds[d].closes >= 1

(* The section-header and symbol views are only needed while coff_add     *)
(* reads the file: a live one always belongs to an active call, on the     *)
(* success path (1193-1199) as on every path to fail.                      *)
TransientViewsReleased ==
    \A v \in DOMAIN views :
        views[v].kind \in {"sects", "syms"} /\ Live(v)
            => \E i \in DOMAIN stack : v \in {stack[i].sects, stack[i].syms}

(* The view of the debug sections handed to backtrace_dwarf_add is never  *)
(* released (line 1299), whatever the enclosing calls do afterwards: the   *)
(* DWARF reader keeps pointers into it.                                    *)
RegisteredDwarfViewLive ==
    \A v \in dwarfViews : Live(v)

(* When backtrace_initialize sees coff_add succeed it copies its local     *)
(* coff_fileline_fn into *fileline_fn (1541): some call of the recursion   *)
(* must have set it, or an uninitialized function pointer is installed.   *)
SuccessSetsFileline ==
    phase = "done" /\ ret = 1 => fileline # "unset"

(* No descriptor is closed twice: a second close of the same number may    *)
(* close a descriptor another thread has opened since.                     *)
NoDoubleClose ==
    \A d \in DOMAIN fds : fds[d].closes <= 1

(* No view is released twice.                                              *)
NoDoubleRelease ==
    \A v \in DOMAIN views : views[v].rel <= 1

(* Every file name an active coff_add call still reads is in a live view: *)
(* a debug file's call is passed debuglink_name, which points into the    *)
(* caller's debuglink view (1143, 1221), and uses it to look for its own   *)
(* links; and a call about to try .gnu_debugaltlink reads                  *)
(* debugaltlink_name from its own debugaltlink view (1256), which it has   *)
(* released before a failed .gnu_debuglink call (1216).                    *)
FilenameReadable ==
    \A i \in DOMAIN stack :
        /\ stack[i].nameView # 0 => Live(stack[i].nameView)
        /\ stack[i].pc = "TryDebugaltlink" /\ stack[i].altName
               => Live(stack[i].alt)

(* A symbol table that coff_add appended to state->syminfo_data can be     *)
(* found: after a successful backtrace_initialize, syminfo_fn is          *)
(* coff_syminfo, the only reader of that list.                             *)
SymbolsReachable ==
    phase = "done" /\ ret = 1 /\ shards # << >> => syminfoFn = "coff_syminfo"

=============================================================================
