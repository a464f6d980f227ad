--------------------------- MODULE CoffAdd_proofs ---------------------------
(***************************************************************************)
(* Proofs about CoffAdd for every set of files, every set of candidate     *)
(* file systems and every set of environment failures.                    *)
(***************************************************************************)
EXTENDS CoffAdd, TLAPS

USE ConstantsAssumption

-----------------------------------------------------------------------------
(* Lemmas on the helpers the actions are built from.                       *)

(* The innermost frame of a non-empty stack of frames is a frame.          *)
LEMMA TopType ==
    ASSUME NEW st \in Seq(Frame), st # << >>
    PROVE  st[Len(st)] \in Frame
OBVIOUS

(* Replacing the innermost frame by a frame keeps a stack of frames.      *)
LEMMA SetTopType ==
    ASSUME NEW st \in Seq(Frame), st # << >>, NEW fr \in Frame
    PROVE  [st EXCEPT ![Len(st)] = fr] \in Seq(Frame)
OBVIOUS

(* Popping the innermost frame keeps a stack of frames.                    *)
LEMMA PopType ==
    ASSUME NEW st \in Seq(Frame), st # << >>
    PROVE  SubSeq(st, 1, Len(st) - 1) \in Seq(Frame)
OBVIOUS

(* Releasing views once more keeps them views.                            *)
LEMMA ReleasedType ==
    ASSUME NEW vs \in Seq(ViewRec), NEW S
    PROVE  Released(vs, S) \in Seq(ViewRec)
<1>0. \A v \in DOMAIN vs : vs[v] \in ViewRec
    OBVIOUS
<1>1. \A v \in DOMAIN vs : [kind |-> vs[v].kind, rel |-> vs[v].rel + 1] \in ViewRec
    BY <1>0 DEF ViewRec
<1>2. Released(vs, S) \in [1..Len(vs) -> ViewRec]
    BY <1>1 DEF Released
<1>3. QED
    BY <1>2

(* Closing descriptors once more keeps them descriptors.                  *)
LEMMA ClosedType ==
    ASSUME NEW ds \in Seq(FdRec), NEW S
    PROVE  Closed(ds, S) \in Seq(FdRec)
<1>0. \A d \in DOMAIN ds : ds[d] \in FdRec
    OBVIOUS
<1>1. \A d \in DOMAIN ds : [file |-> ds[d].file, closes |-> ds[d].closes + 1] \in FdRec
    BY <1>0 DEF FdRec
<1>2. Closed(ds, S) \in [1..Len(ds) -> FdRec]
    BY <1>1 DEF Closed
<1>3. QED
    BY <1>2

(* A new frame for a file is a frame.                                      *)
LEMMA NewFrameType ==
    ASSUME NEW f \in Files, NEW d \in Nat \ {0}, NEW nv \in Nat
    PROVE  NewFrame(f, d, nv) \in Frame
BY DEF NewFrame, Frame, Pcs

(* Obtaining a view of a kind keeps a sequence of views.                   *)
LEMMA ObtainType ==
    ASSUME views \in Seq(ViewRec), NEW k \in ViewKinds, Obtain(k)
    PROVE  views' \in Seq(ViewRec)
<1>1. [kind |-> k, rel |-> 0] \in ViewRec
    BY DEF ViewRec
<1>2. QED
    BY <1>1 DEF Obtain

(* Opening a descriptor on a file keeps a sequence of descriptors.         *)
LEMMA OpenType ==
    ASSUME NEW ds \in Seq(FdRec), NEW f \in Files, NEW c \in Nat
    PROVE  Append(ds, [file |-> f, closes |-> c]) \in Seq(FdRec)
<1>1. [file |-> f, closes |-> c] \in FdRec
    BY DEF FdRec
<1>2. QED
    BY <1>1

-----------------------------------------------------------------------------
(* Lemmas on the steps of the innermost call, in a well-typed state.       *)

(* The innermost frame is a frame and describes a file of the system.      *)
LEMMA TopFacts ==
    ASSUME TypeOK, stack # << >>
    PROVE  /\ Top \in Frame
           /\ Desc \in FileDesc
<1>1. Top \in Frame
    BY TopType DEF TypeOK, Top
<1>2. Top.file \in Files
    BY <1>1 DEF Frame
<1>3. QED
    BY <1>1, <1>2 DEF TypeOK, Desc

(* Replacing the innermost frame by a frame keeps the stack well-typed.    *)
LEMMA SetTopStep ==
    ASSUME TypeOK, stack # << >>, NEW fr \in Frame, SetTop(fr)
    PROVE  stack' \in Seq(Frame)
BY SetTopType DEF TypeOK, SetTop

(* Moving the innermost call to another label keeps the stack well-typed. *)
LEMMA GotoStep ==
    ASSUME TypeOK, stack # << >>, NEW p \in Pcs, Goto(p)
    PROVE  stack' \in Seq(Frame)
<1>1. [Top EXCEPT !.pc = p] \in Frame
    <2>1. Top \in Frame
        BY TopFacts
    <2>2. QED
        BY <2>1 DEF Frame
<1>2. QED
    BY <1>1, SetTopStep DEF Goto

(* Returning 0 or 1 pops a frame and leaves a result coff_add can return. *)
LEMMA ReturnStep ==
    ASSUME TypeOK, stack # << >>, NEW r \in {0, 1}, Return(r)
    PROVE  stack' \in Seq(Frame) /\ ret' \in {0, 1}
BY PopType DEF TypeOK, Return

(* A recursive call pushes a well-typed frame above a well-typed caller.  *)
LEMMA CallStep ==
    ASSUME TypeOK, stack # << >>, NEW p \in Pcs, NEW f \in Files,
           NEW nv \in Nat, Call(p, f, nv)
    PROVE  stack' \in Seq(Frame)
<1>1. NextFd \in Nat \ {0}
    BY DEF TypeOK, NextFd
<1>2. [Top EXCEPT !.pc = p, !.child = NextFd] \in Frame
    <2>1. Top \in Frame
        BY TopFacts
    <2>2. QED
        BY <1>1, <2>1 DEF Frame
<1>3. [stack EXCEPT ![Len(stack)] = [Top EXCEPT !.pc = p, !.child = NextFd]]
        \in Seq(Frame)
    BY <1>2, SetTopType DEF TypeOK
<1>4. NewFrame(f, NextFd, nv) \in Frame
    BY <1>1, NewFrameType
<1>5. QED
    BY <1>3, <1>4 DEF Call

-----------------------------------------------------------------------------
(* Each action keeps TypeOK.                                               *)

(* Mapping the file header fails or moves on to the sections.              *)
LEMMA GetFileHeaderType ==
    ASSUME TypeOK, stack # << >>, GetFileHeader
    PROVE  TypeOK'
<1>1. stack' \in Seq(Frame)
    BY GotoStep DEF GetFileHeader, Pcs
<1>2. QED
    BY <1>1 DEF GetFileHeader, TypeOK

(* Mapping the section headers obtains one view.                           *)
LEMMA GetSectionsType ==
    ASSUME TypeOK, stack # << >>, GetSections
    PROVE  TypeOK'
<1>1. CASE May("view") /\ Goto("Fail") /\ UNCHANGED views
    <2>1. stack' \in Seq(Frame)
        BY <1>1, GotoStep DEF Pcs
    <2>2. QED
        BY <1>1, <2>1 DEF GetSections, TypeOK
<1>2. CASE Obtain("sects")
          /\ SetTop([Top EXCEPT !.sects = NextView,
                       !.pc = IF Desc.coff = "badopt" THEN "Fail" ELSE "GetSymtab"])
    <2>1. [Top EXCEPT !.sects = NextView,
             !.pc = IF Desc.coff = "badopt" THEN "Fail" ELSE "GetSymtab"] \in Frame
        <3>1. Top \in Frame /\ NextView \in Nat
            BY TopFacts DEF TypeOK, NextView
        <3>2. QED
            BY <3>1 DEF Frame, Pcs
    <2>2. stack' \in Seq(Frame)
        BY <1>2, <2>1, SetTopStep
    <2>3. views' \in Seq(ViewRec)
        BY <1>2, ObtainType DEF TypeOK, ViewKinds
    <2>4. QED
        BY <1>2, <2>2, <2>3 DEF GetSections, TypeOK
<1>3. QED
    BY <1>1, <1>2 DEF GetSections

(* Mapping the symbol and string tables obtains up to two views.           *)
LEMMA GetSymtabType ==
    ASSUME TypeOK, stack # << >>, GetSymtab
    PROVE  TypeOK'
<1>0. Top \in Frame /\ NextView \in Nat
    BY TopFacts DEF TypeOK, NextView
<1>1. CASE Goto("GetDebuglink") /\ UNCHANGED views
    BY <1>1, GotoStep DEF GetSymtab, TypeOK, Pcs
<1>2. CASE Goto("Fail") /\ UNCHANGED views
    BY <1>2, GotoStep DEF GetSymtab, TypeOK, Pcs
<1>3. CASE Obtain("syms") /\ SetTop([Top EXCEPT !.syms = NextView, !.pc = "Fail"])
    <2>1. [Top EXCEPT !.syms = NextView, !.pc = "Fail"] \in Frame
        BY <1>0 DEF Frame, Pcs
    <2>2. views' \in Seq(ViewRec)
        BY <1>3, ObtainType DEF TypeOK, ViewKinds
    <2>3. QED
        BY <1>3, <2>1, <2>2, SetTopStep DEF GetSymtab, TypeOK
<1>4. CASE /\ views' = views \o << [kind |-> "syms", rel |-> 0],
                                  [kind |-> "str", rel |-> 0] >>
           /\ SetTop([Top EXCEPT !.syms = NextView, !.str = NextView + 1,
                                 !.pc = "GetDebuglink"])
    <2>1. [Top EXCEPT !.syms = NextView, !.str = NextView + 1,
                      !.pc = "GetDebuglink"] \in Frame
        <3>1. NextView + 1 \in Nat
            BY <1>0
        <3>2. QED
            BY <1>0, <3>1 DEF Frame, Pcs
    <2>2. << [kind |-> "syms", rel |-> 0], [kind |-> "str", rel |-> 0] >>
            \in Seq(ViewRec)
        BY DEF ViewRec, ViewKinds
    <2>3. views' \in Seq(ViewRec)
        BY <1>4, <2>2 DEF TypeOK
    <2>4. QED
        BY <1>4, <2>1, <2>3, SetTopStep DEF GetSymtab, TypeOK
<1>5. QED
    BY <1>1, <1>2, <1>3, <1>4 DEF GetSymtab

(* Mapping .gnu_debuglink obtains one view.                                *)
LEMMA GetDebuglinkType ==
    ASSUME TypeOK, stack # << >>, GetDebuglink
    PROVE  TypeOK'
<1>0. Top \in Frame /\ NextView \in Nat
    BY TopFacts DEF TypeOK, NextView
<1>1. CASE (Goto("GetDebugaltlink") \/ Goto("Fail")) /\ UNCHANGED views
    BY <1>1, GotoStep DEF GetDebuglink, TypeOK, Pcs
<1>2. CASE Obtain("debuglink")
           /\ SetTop([Top EXCEPT !.dl = NextView, !.dlName = TRUE,
                                 !.pc = "GetDebugaltlink"])
    <2>1. [Top EXCEPT !.dl = NextView, !.dlName = TRUE,
                      !.pc = "GetDebugaltlink"] \in Frame
        BY <1>0 DEF Frame, Pcs
    <2>2. views' \in Seq(ViewRec)
        BY <1>2, ObtainType DEF TypeOK, ViewKinds
    <2>3. QED
        BY <1>2, <2>1, <2>2, SetTopStep DEF GetDebuglink, TypeOK
<1>3. QED
    BY <1>1, <1>2 DEF GetDebuglink

(* Mapping .gnu_debugaltlink obtains one view.                             *)
LEMMA GetDebugaltlinkType ==
    ASSUME TypeOK, stack # << >>, GetDebugaltlink
    PROVE  TypeOK'
<1>0. Top \in Frame /\ NextView \in Nat
    BY TopFacts DEF TypeOK, NextView
<1>1. CASE (Goto("AddSyminfo") \/ Goto("Fail")) /\ UNCHANGED views
    BY <1>1, GotoStep DEF GetDebugaltlink, TypeOK, Pcs
<1>2. CASE Obtain("debugaltlink")
           /\ SetTop([Top EXCEPT !.alt = NextView, !.altName = TRUE,
                                 !.pc = "AddSyminfo"])
    <2>1. [Top EXCEPT !.alt = NextView, !.altName = TRUE,
                      !.pc = "AddSyminfo"] \in Frame
        BY <1>0 DEF Frame, Pcs
    <2>2. views' \in Seq(ViewRec)
        BY <1>2, ObtainType DEF TypeOK, ViewKinds
    <2>3. QED
        BY <1>2, <2>1, <2>2, SetTopStep DEF GetDebugaltlink, TypeOK
<1>3. QED
    BY <1>1, <1>2 DEF GetDebugaltlink

(* Registering the symbol table appends the file to syminfo_data.          *)
LEMMA AddSyminfoType ==
    ASSUME TypeOK, stack # << >>, AddSyminfo
    PROVE  TypeOK'
<1>0. Top \in Frame
    BY TopFacts
<1>1. CASE /\ UNCHANGED <<foundSym, shards>>
           /\ views' = Released(views, {Top.sects})
           /\ SetTop([Top EXCEPT !.sects = 0, !.pc = "TryDebuglink"])
    <2>1. [Top EXCEPT !.sects = 0, !.pc = "TryDebuglink"] \in Frame
        BY <1>0 DEF Frame, Pcs
    <2>2. views' \in Seq(ViewRec)
        BY <1>1, ReleasedType DEF TypeOK
    <2>3. QED
        BY <1>1, <2>1, <2>2, SetTopStep DEF AddSyminfo, TypeOK
<1>2. CASE Goto("Fail") /\ UNCHANGED <<foundSym, shards, views>>
    BY <1>2, GotoStep DEF AddSyminfo, TypeOK, Pcs
<1>3. CASE /\ foundSym' = TRUE
           /\ shards' = Append(shards, Top.file)
           /\ views' = Released(views, {Top.sects, Top.syms})
           /\ SetTop([Top EXCEPT !.sects = 0, !.syms = 0, !.pc = "TryDebuglink"])
    <2>1. [Top EXCEPT !.sects = 0, !.syms = 0, !.pc = "TryDebuglink"] \in Frame
        BY <1>0 DEF Frame, Pcs
    <2>2. views' \in Seq(ViewRec)
        BY <1>3, ReleasedType DEF TypeOK
    <2>3. shards' \in Seq(Files)
        BY <1>0, <1>3 DEF TypeOK, Frame
    <2>4. QED
        BY <1>3, <2>1, <2>2, <2>3, SetTopStep DEF AddSyminfo, TypeOK
<1>4. QED
    BY <1>1, <1>2, <1>3 DEF AddSyminfo

(* Looking for a debug file leaves the descriptors well-typed, and a file *)
(* that opened is a file of the system.                                    *)
LEMMA DebugfileStep ==
    ASSUME TypeOK, NEW t \in Files \cup {None}, NEW c,
           DebugfileNotFound(t) \/ DebugfileOpened(t, c) \/ DebugfileCrcRejected(t, c)
    PROVE  /\ fds' \in Seq(FdRec)
           /\ DebugfileOpened(t, c) => t \in Files
<1>1. CASE DebugfileNotFound(t)
    BY <1>1 DEF DebugfileNotFound, DebugfileOpened, TypeOK
<1>2. CASE DebugfileOpened(t, c)
    BY <1>2, OpenType DEF DebugfileOpened, TypeOK
<1>3. CASE DebugfileCrcRejected(t, c)
    BY <1>3, OpenType DEF DebugfileCrcRejected, DebugfileOpened, TypeOK
<1>4. QED
    BY <1>1, <1>2, <1>3

(* Trying .gnu_debuglink either moves on or calls coff_add on the file.    *)
LEMMA TryDebuglinkType ==
    ASSUME TypeOK, stack # << >>, TryDebuglink
    PROVE  TypeOK'
<1>0. Top \in Frame /\ Desc \in FileDesc
    BY TopFacts
<1>1. Desc.link \in Files \cup {None} /\ Top.dl \in Nat
    BY <1>0 DEF FileDesc, Frame
<1>2. CASE Goto("TryDebugaltlink") /\ UNCHANGED <<fds, views, foundSym, foundDwarf>>
    BY <1>2, GotoStep DEF TryDebuglink, TypeOK, Pcs
<1>3. CASE /\ DebugfileNotFound(Desc.link) \/ DebugfileCrcRejected(Desc.link, Desc.crc)
           /\ Goto("TryDebugaltlink")
           /\ UNCHANGED <<views, foundSym, foundDwarf>>
    <2>1. fds' \in Seq(FdRec)
        BY <1>1, <1>3, DebugfileStep
    <2>2. stack' \in Seq(Frame)
        BY <1>3, GotoStep DEF Pcs
    <2>3. QED
        BY <1>3, <2>1, <2>2 DEF TryDebuglink, TypeOK
<1>4. CASE /\ DebugfileOpened(Desc.link, Desc.crc)
           /\ views' = Released(views, {Top.dl, Top.alt} \ {0})
           /\ Call("AfterDebuglink", Desc.link, Top.dl)
           /\ foundSym' = FALSE
           /\ foundDwarf' = FALSE
    <2>1. fds' \in Seq(FdRec) /\ Desc.link \in Files
        BY <1>1, <1>4, DebugfileStep
    <2>2. stack' \in Seq(Frame)
        BY <1>1, <1>4, <2>1, CallStep DEF Pcs
    <2>3. views' \in Seq(ViewRec)
        BY <1>4, ReleasedType DEF TypeOK
    <2>4. QED
        BY <1>4, <2>1, <2>2, <2>3 DEF TryDebuglink, TypeOK
<1>5. QED
    BY <1>2, <1>3, <1>4 DEF TryDebuglink

(* Trying .gnu_debugaltlink either moves on or calls coff_add on the file. *)
LEMMA TryDebugaltlinkType ==
    ASSUME TypeOK, stack # << >>, TryDebugaltlink
    PROVE  TypeOK'
<1>0. Top \in Frame /\ Desc \in FileDesc
    BY TopFacts
<1>1. Desc.alt \in Files \cup {None} /\ Top.nameView \in Nat
    BY <1>0 DEF FileDesc, Frame
<1>2. CASE Goto("GetDebugView") /\ UNCHANGED <<fds, views, foundSym, foundDwarf>>
    BY <1>2, GotoStep DEF TryDebugaltlink, TypeOK, Pcs
<1>3. CASE /\ DebugfileNotFound(Desc.alt)
           /\ Goto("GetDebugView")
           /\ UNCHANGED <<views, foundSym, foundDwarf>>
    <2>1. fds' \in Seq(FdRec)
        BY <1>1, <1>3, DebugfileStep
    <2>2. stack' \in Seq(Frame)
        BY <1>3, GotoStep DEF Pcs
    <2>3. QED
        BY <1>3, <2>1, <2>2 DEF TryDebugaltlink, TypeOK
<1>4. CASE /\ DebugfileOpened(Desc.alt, "zero")
           /\ views' = Released(views, {Top.dl, Top.alt} \ {0})
           /\ Call("AfterDebugaltlink", Desc.alt, Top.nameView)
           /\ foundSym' = FALSE
           /\ foundDwarf' = FALSE
    <2>1. fds' \in Seq(FdRec) /\ Desc.alt \in Files
        BY <1>1, <1>4, DebugfileStep
    <2>2. stack' \in Seq(Frame)
        BY <1>1, <1>4, <2>1, CallStep DEF Pcs
    <2>3. views' \in Seq(ViewRec)
        BY <1>4, ReleasedType DEF TypeOK
    <2>4. QED
        BY <1>4, <2>1, <2>2, <2>3 DEF TryDebugaltlink, TypeOK
<1>5. QED
    BY <1>2, <1>3, <1>4 DEF TryDebugaltlink

(* After the .gnu_debuglink call: close a descriptor, go on or return.    *)
LEMMA AfterDebuglinkType ==
    ASSUME TypeOK, stack # << >>, AfterDebuglink
    PROVE  TypeOK'
<1>1. \A S : fds' = Closed(fds, S) => fds' \in Seq(FdRec)
    BY ClosedType DEF TypeOK
<1>2. CASE Goto("TryDebugaltlink") /\ UNCHANGED ret
    BY <1>1, <1>2, GotoStep DEF AfterDebuglink, TypeOK, Pcs
<1>3. CASE Return(1)
    BY <1>1, <1>3, ReturnStep DEF AfterDebuglink, TypeOK
<1>4. QED
    BY <1>2, <1>3 DEF AfterDebuglink

(* After the .gnu_debugaltlink call: likewise.                             *)
LEMMA AfterDebugaltlinkType ==
    ASSUME TypeOK, stack # << >>, AfterDebugaltlink
    PROVE  TypeOK'
<1>1. \A S : fds' = Closed(fds, S) => fds' \in Seq(FdRec)
    BY ClosedType DEF TypeOK
<1>2. CASE Goto("GetDebugView") /\ UNCHANGED ret
    BY <1>1, <1>2, GotoStep DEF AfterDebugaltlink, TypeOK, Pcs
<1>3. CASE Return(1)
    BY <1>1, <1>3, ReturnStep DEF AfterDebugaltlink, TypeOK
<1>4. QED
    BY <1>2, <1>3 DEF AfterDebugaltlink

(* Mapping the debug sections, or returning with coff_nodebug.             *)
LEMMA GetDebugViewType ==
    ASSUME TypeOK, stack # << >>, GetDebugView
    PROVE  TypeOK'
<1>0. Top \in Frame /\ NextView \in Nat
    BY TopFacts DEF TypeOK, NextView
<1>1. \A S : fds' = Closed(fds, S) => fds' \in Seq(FdRec)
    BY ClosedType DEF TypeOK
<1>2. CASE fds' = Closed(fds, {Top.fd}) /\ fileline' = "nodebug" /\ Return(1)
           /\ UNCHANGED views
    BY <1>1, <1>2, ReturnStep DEF GetDebugView, TypeOK
<1>3. CASE fds' = Closed(fds, {Top.fd}) /\ Goto("Fail") /\ UNCHANGED <<fileline, ret, views>>
    BY <1>1, <1>3, GotoStep DEF GetDebugView, TypeOK, Pcs
<1>4. CASE Goto("Fail") /\ UNCHANGED <<views, fds, fileline, ret>>
    BY <1>4, GotoStep DEF GetDebugView, TypeOK, Pcs
<1>5. CASE /\ Obtain("debug")
           /\ SetTop([Top EXCEPT !.dbg = NextView, !.pc = "DwarfAdd"])
           /\ UNCHANGED <<fds, fileline, ret>>
    <2>1. [Top EXCEPT !.dbg = NextView, !.pc = "DwarfAdd"] \in Frame
        BY <1>0 DEF Frame, Pcs
    <2>2. views' \in Seq(ViewRec)
        BY <1>5, ObtainType DEF TypeOK, ViewKinds
    <2>3. QED
        BY <1>5, <2>1, <2>2, SetTopStep DEF GetDebugView, TypeOK
<1>6. QED
    BY <1>2, <1>3, <1>4, <1>5 DEF GetDebugView

(* Handing the debug view to the DWARF reader.                             *)
LEMMA DwarfAddType ==
    ASSUME TypeOK, stack # << >>, DwarfAdd
    PROVE  TypeOK'
<1>0. Top \in Frame
    BY TopFacts
<1>1. fds' \in Seq(FdRec)
    BY ClosedType DEF DwarfAdd, TypeOK
<1>2. CASE Goto("Fail") /\ UNCHANGED <<foundDwarf, fileline, dwarfViews, ret>>
    BY <1>1, <1>2, GotoStep DEF DwarfAdd, TypeOK, Pcs
<1>3. CASE /\ SetTop([Top EXCEPT !.desc = FALSE, !.pc = "Fail"])
           /\ UNCHANGED <<foundDwarf, fileline, dwarfViews, ret>>
    <2>1. [Top EXCEPT !.desc = FALSE, !.pc = "Fail"] \in Frame
        BY <1>0 DEF Frame, Pcs
    <2>2. QED
        BY <1>1, <1>3, <2>1, SetTopStep DEF DwarfAdd, TypeOK
<1>4. CASE /\ dwarfViews' = dwarfViews \cup {Top.dbg}
           /\ foundDwarf' = TRUE
           /\ fileline' = "dwarf"
           /\ Return(1)
    <2>1. Top.dbg \in Nat
        BY <1>0 DEF Frame
    <2>2. QED
        BY <1>1, <1>4, <2>1, ReturnStep DEF DwarfAdd, TypeOK
<1>5. QED
    BY <1>2, <1>3, <1>4 DEF DwarfAdd

(* The fail label releases views, closes the descriptor and returns 0.     *)
LEMMA FailType ==
    ASSUME TypeOK, stack # << >>, Fail
    PROVE  TypeOK'
BY ReleasedType, ClosedType, ReturnStep DEF Fail, TypeOK

(* backtrace_initialize choosing syminfo_fn.                               *)
LEMMA FinishInitializeType ==
    ASSUME TypeOK, FinishInitialize
    PROVE  TypeOK'
BY DEF FinishInitialize, TypeOK

-----------------------------------------------------------------------------
(* Type correctness.                                                       *)

(* The initial state is well typed.                                        *)
LEMMA InitType == Init => TypeOK
<1> SUFFICES ASSUME Init PROVE TypeOK
    OBVIOUS
<1>1. NewFrame(Primary, 1, 0) \in Frame
    BY NewFrameType
<1>2. [file |-> Primary, closes |-> 0] \in FdRec
    BY DEF FdRec
<1>3. fs \in [Files -> FileDesc]
    BY DEF Init
<1>4. stack \in Seq(Frame) /\ fds \in Seq(FdRec)
    BY <1>1, <1>2 DEF Init
<1>5. views \in Seq(ViewRec) /\ shards \in Seq(Files)
    BY DEF Init
<1>6. QED
    BY <1>3, <1>4, <1>5 DEF Init, TypeOK

(* Every step keeps TypeOK.                                                *)
LEMMA NextType == TypeOK /\ [Next]_vars => TypeOK'
<1> SUFFICES ASSUME TypeOK, [Next]_vars PROVE TypeOK'
    OBVIOUS
<1>1. CASE UNCHANGED vars
    BY <1>1 DEF vars, TypeOK
<1>2. CASE FinishInitialize
    BY <1>2, FinishInitializeType
<1>3. CASE stack # << >> /\ Step
    BY <1>3, GetFileHeaderType, GetSectionsType, GetSymtabType,
       GetDebuglinkType, GetDebugaltlinkType, AddSyminfoType,
       TryDebuglinkType, AfterDebuglinkType, TryDebugaltlinkType,
       AfterDebugaltlinkType, GetDebugViewType, DwarfAddType, FailType
    DEF Step
<1>4. QED
    BY <1>1, <1>2, <1>3 DEF Next

(* Every reachable state has the types TypeOK gives: whatever the files,   *)
(* their links and the failures of the environment, no step of coff_add    *)
(* and its recursive calls, nor backtrace_initialize's choice of           *)
(* syminfo_fn, leaves the call stack, the views or the descriptors         *)
(* ill-formed, and coff_add only ever returns 0 or 1.                      *)
THEOREM TypeCorrect == Spec => []TypeOK
BY InitType, NextType, PTL DEF Spec

=============================================================================
