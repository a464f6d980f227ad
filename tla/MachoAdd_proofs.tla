--------------------------- MODULE MachoAdd_proofs ---------------------------
(***************************************************************************)
(* Proofs about the Mach-O dSYM search for any number of bundles and      *)
(* files and any set of faults: what each view and each directory handle  *)
(* is at every step, that every one is released or closed once by the    *)
(* return, and that the one registered DWARF view comes from a dSYM whose *)
(* UUID matches.                                                           *)
(***************************************************************************)
EXTENDS MachoAdd, TLAPS

(* The steps of macho_try_dwarf, and of macho_try_dsym with its callee.   *)
WPhase == {"w_open", "w_commands", "w_uuid", "w_sections", "w_view", "w_add", "w_end"}
DPhase == {"d_opendir", "d_loop", "d_end"} \cup WPhase
Pcs == {"i_commands", "i_identify", "i_loop", "i_end", "returned"} \cup DPhase

ViewRec == [kind : {"header", "commands", "dwarf"}, src : Srcs, rel : Nat]
FdRec == [src : Srcs, closes : Nat]

(* View v is held in a local of a running function, directory handle k is *)
(* open: backtrace_initialize's until it returns, macho_try_dsym's and     *)
(* macho_try_dwarf's while they run.                                       *)
IsHeld(v) ==
    /\ v # 0
    /\ \/ pc # "returned" /\ v = iCmd
       \/ pc \in WPhase /\ (v = wCmd \/ v = wView)
IsOpen(k) ==
    /\ k # 0
    /\ \/ pc # "returned" /\ k = iDir
       \/ pc \in DPhase /\ k = dDir

(* A view that maps a DWARF file of a bundle whose UUID matches.          *)
MatchingView(r) ==
    /\ r.kind = "dwarf"
    /\ r.src[1] \in 1 .. Len(bundles)
    /\ r.src[2] \in 1 .. Len(bundles[r.src[1]].entries)
    /\ bundles[r.src[1]].entries[r.src[2]].uuid = "match"

(* The inductive invariant, in parts.  The types, with the ranges of the   *)
(* numbered locals.                                                        *)
TypeInv ==
    /\ pc \in Pcs
    /\ bundles \in Seq(Bundles) /\ Len(bundles) <= MaxBundles
    /\ views \in Seq(ViewRec)
    /\ fds \in Seq(FdRec)
    /\ badCloses \in Nat
    /\ dirs \in Seq(Nat)
    /\ ret \in {0, 1} /\ wRet \in {0, 1} /\ dRet \in {0, 1}
    /\ iDir \in 0 .. Len(dirs) /\ dDir \in 0 .. Len(dirs)
    /\ iCmd \in 0 .. Len(views) /\ wCmd \in 0 .. Len(views) /\ wView \in 0 .. Len(views)
    /\ iEntry \in Nat \ {0} /\ dEntry \in Nat \ {0}
    /\ wFd \in {-1} \cup (0 .. Len(fds))
    /\ dwarfViews \subseteq DOMAIN views

(* A local is 0 until its function has obtained what it names.            *)
ResetInv ==
    /\ pc = "i_commands" => iCmd = 0
    /\ pc \in {"i_commands", "i_identify"} => iDir = 0
    /\ pc = "d_opendir" => dDir = 0
    /\ pc \in {"w_open", "w_commands"} => wCmd = 0
    /\ pc \in WPhase \ {"w_add", "w_end"} => wView = 0

(* A commands or DWARF local names a view of its kind.                    *)
KindInv ==
    /\ iCmd # 0 => views[iCmd].kind = "commands"
    /\ wCmd # 0 => views[wCmd].kind = "commands"
    /\ wView # 0 => views[wView].kind = "dwarf"

(* The candidate macho_try_dwarf works on is a regular file of the current *)
(* bundle; past the UUID test it matches, and the DWARF view maps it.      *)
CandidateInv ==
    /\ pc \in DPhase => iEntry \in 1 .. Len(bundles)
    /\ pc \in WPhase => dEntry \in 1 .. Len(Bundle.entries) /\ DFile.reg
    /\ pc \in {"w_sections", "w_view", "w_add"} => DFile.uuid = "match"
    /\ pc = "w_add" => wView # 0 /\ views[wView].src = DSrc

(* The handles the running functions hold are distinct.                    *)
DistinctInv ==
    /\ pc \in DPhase /\ dDir # 0 => dDir # iDir
    /\ pc \in WPhase /\ wCmd # 0 => wCmd # iCmd
    /\ pc \in WPhase /\ wView # 0 => wView # iCmd /\ wView # wCmd

(* A directory is closed once exactly when it is not open.                 *)
DirsInv ==
    \A k \in DOMAIN dirs : dirs[k] = IF IsOpen(k) THEN 0 ELSE 1

(* A view is released once exactly when no local holds it.                 *)
ViewsInv ==
    \A v \in DOMAIN views : views[v].rel = IF IsHeld(v) THEN 0 ELSE 1

(* At most one view is registered, it maps a matching file, and once it is *)
(* registered every function is on its way out.                            *)
RegisteredInv ==
    /\ \A v, u \in dwarfViews : v = u
    /\ \A v \in dwarfViews : MatchingView(views[v])
    /\ dwarfViews # {} =>
          \/ pc = "w_end" /\ wRet = 1
          \/ pc = "d_end" /\ dRet = 1
          \/ pc \in {"i_end", "returned"}

IInv ==
    /\ TypeInv /\ ResetInv /\ KindInv /\ CandidateInv /\ DistinctInv
    /\ DirsInv /\ ViewsInv /\ RegisteredInv

USE MachoAssumption

(* The file and bundle sets: every bundle's directory has at most MaxFiles *)
(* entries, so the file a local names is one of Srcs.                      *)
LEMMA BundleFacts ==
    ASSUME NEW b \in Bundles
    PROVE  /\ b.entries \in Seq(DwarfFiles \cup {NotRegular})
           /\ Len(b.entries) <= MaxFiles
<1>1. b.entries = <<>> \/ b.entries \in BoundedSeq(DwarfFiles \cup {NotRegular}, MaxFiles)
    BY DEF Bundles
<1>2. CASE b.entries = <<>>
    BY <1>2
<1>3. CASE b.entries \in BoundedSeq(DwarfFiles \cup {NotRegular}, MaxFiles)
    <2>1. PICK m \in 0 .. MaxFiles : b.entries \in [1 .. m -> DwarfFiles \cup {NotRegular}]
        BY <1>3 DEF BoundedSeq, SeqOf
    <2>2. QED
        BY <2>1
<1>4. QED
    BY <1>1, <1>2, <1>3

(* macho_get_commands only appends: the views before it are kept, the      *)
(* header view is released and the commands view, when there is one, is   *)
(* new and unreleased.                                                     *)
LEMMA GetCommandsFacts ==
    ASSUME views \in Seq(ViewRec), NEW src \in Srcs, NEW m,
           NEW o \in GetCommands(src, m)
    PROVE  /\ o[1] \in Seq(ViewRec)
           /\ Len(o[1]) >= Len(views)
           /\ \A v \in DOMAIN views : o[1][v] = views[v]
           /\ \A v \in DOMAIN o[1] : v \notin DOMAIN views =>
                 o[1][v].rel = IF v = o[2] THEN 0 ELSE 1
           /\ o[2] \in 0 .. Len(o[1])
           /\ o[2] # 0 => o[2] \notin DOMAIN views /\ o[1][o[2]].kind = "commands"
<1>1. Hdr(src, 1) \in ViewRec /\ Cmds(src) \in ViewRec
    BY DEF Hdr, Cmds, ViewRec
<1>2. CASE o = <<views, 0>>
    BY <1>2
<1>3. CASE o = <<Append(views, Hdr(src, 1)), 0>>
    BY <1>1, <1>3 DEF Hdr
<1>4. CASE o = <<views \o <<Hdr(src, 1), Cmds(src)>>, Len(views) + 2>>
    BY <1>1, <1>4 DEF Hdr, Cmds
<1>5. QED
    BY <1>2, <1>3, <1>4 DEF GetCommands

(* Released adds one to the release count of view v and changes nothing   *)
(* else.                                                                   *)
LEMMA ReleasedFacts ==
    ASSUME NEW vs \in Seq(ViewRec), NEW v \in 0 .. Len(vs)
    PROVE  /\ Released(vs, v) \in Seq(ViewRec)
           /\ DOMAIN Released(vs, v) = DOMAIN vs
           /\ \A k \in DOMAIN vs :
                 /\ Released(vs, v)[k].kind = vs[k].kind
                 /\ Released(vs, v)[k].src = vs[k].src
                 /\ Released(vs, v)[k].rel = IF k = v THEN vs[k].rel + 1 ELSE vs[k].rel
<1>1. CASE v = 0
    BY <1>1 DEF Released
<1>2. CASE v # 0
    <2>1. vs[v] \in ViewRec
        BY <1>2
    <2>2. vs[v].rel + 1 \in Nat
        BY <2>1 DEF ViewRec
    <2>3. [vs[v] EXCEPT !.rel = @ + 1] \in ViewRec
        BY <2>1, <2>2 DEF ViewRec
    <2>4. QED
        BY <1>2, <2>3 DEF Released
<1>3. QED
    BY <1>1, <1>2

LEMMA InitIInv == Init => IInv
<1> SUFFICES ASSUME Init PROVE IInv
    OBVIOUS
<1>1. PICK m \in 0 .. MaxBundles : bundles \in [1 .. m -> Bundles]
    BY DEF Init, BoundedSeq, SeqOf
<1>2. bundles \in Seq(Bundles) /\ Len(bundles) <= MaxBundles
    BY <1>1
<1>3. fds \in Seq(FdRec)
    BY DEF Init, FdRec, Srcs, ExeSrc
<1>4. TypeInv
    BY <1>2, <1>3 DEF Init, TypeInv, Pcs
<1>5. ResetInv /\ KindInv /\ CandidateInv /\ DistinctInv
    BY DEF Init, ResetInv, KindInv, CandidateInv, DistinctInv, DPhase, WPhase
<1>6. DirsInv /\ ViewsInv /\ RegisteredInv
    BY DEF Init, DirsInv, ViewsInv, RegisteredInv
<1>7. QED
    BY <1>4, <1>5, <1>6 DEF IInv

(* A step that leaves the directory handles alone and neither returns nor *)
(* enters or leaves macho_try_dsym keeps DirsInv.                          *)
LEMMA DirsKept ==
    ASSUME IInv, UNCHANGED <<dirs, iDir, dDir>>,
           (pc' = "returned") <=> (pc = "returned"),
           (pc' \in DPhase) <=> (pc \in DPhase)
    PROVE  DirsInv'
<1> SUFFICES ASSUME NEW k \in DOMAIN dirs'
             PROVE  dirs'[k] = IF IsOpen(k)' THEN 0 ELSE 1
    BY DEF DirsInv
<1>1. IsOpen(k)' <=> IsOpen(k)
    BY DEF IsOpen
<1>2. QED
    BY <1>1 DEF IInv, DirsInv

(* Likewise for the views and the locals that hold them.                   *)
LEMMA ViewsKept ==
    ASSUME IInv, UNCHANGED <<views, iCmd, wCmd, wView>>,
           (pc' = "returned") <=> (pc = "returned"),
           (pc' \in WPhase) <=> (pc \in WPhase)
    PROVE  ViewsInv' /\ KindInv'
<1>1. ViewsInv'
    <2> SUFFICES ASSUME NEW v \in DOMAIN views'
                 PROVE  views'[v].rel = IF IsHeld(v)' THEN 0 ELSE 1
        BY DEF ViewsInv
    <2>1. IsHeld(v)' <=> IsHeld(v)
        BY DEF IsHeld
    <2>2. QED
        BY <2>1 DEF IInv, ViewsInv
<1>2. KindInv'
    BY DEF IInv, KindInv
<1>3. QED
    BY <1>1, <1>2

(* Nothing registered and nothing registering: RegisteredInv holds.       *)
LEMMA NoneRegistered ==
    ASSUME dwarfViews' = {}
    PROVE  RegisteredInv'
BY DEF RegisteredInv

(* backtrace_initialize maps the executable's commands: the new commands   *)
(* view is the one iCmd holds, every other new view is released.          *)
LEMMA InitCommandsIInv ==
    ASSUME IInv, InitCommands
    PROVE  IInv'
<1>1. PICK o \in GetCommands(ExeSrc, exe.magic) :
          /\ views' = o[1]
          /\ iCmd' = o[2]
          /\ pc' = IF o[2] = 0 THEN "i_end" ELSE "i_identify"
    BY DEF InitCommands
<1>2. /\ o[1] \in Seq(ViewRec)
      /\ Len(o[1]) >= Len(views)
      /\ \A v \in DOMAIN views : o[1][v] = views[v]
      /\ \A v \in DOMAIN o[1] : v \notin DOMAIN views =>
            o[1][v].rel = IF v = o[2] THEN 0 ELSE 1
      /\ o[2] \in 0 .. Len(o[1])
      /\ o[2] # 0 => o[2] \notin DOMAIN views /\ o[1][o[2]].kind = "commands"
    <2>1. ExeSrc \in Srcs /\ views \in Seq(ViewRec)
        BY DEF Srcs, ExeSrc, IInv, TypeInv
    <2>2. QED
        BY <2>1, GetCommandsFacts
<1>3. pc = "i_commands" /\ iCmd = 0 /\ iDir = 0 /\ dwarfViews = {}
    BY DEF InitCommands, IInv, ResetInv, RegisteredInv, RegisteredInv
<1>4. pc' \in {"i_end", "i_identify"} /\ pc' \notin DPhase /\ pc' \notin WPhase
    BY <1>1 DEF DPhase, WPhase
<1>5. TypeInv'
    <2>1. /\ views' \in Seq(ViewRec)
          /\ iCmd' \in 0 .. Len(views')
          /\ wCmd' \in 0 .. Len(views')
          /\ wView' \in 0 .. Len(views')
        BY <1>1, <1>2 DEF InitCommands, IInv, TypeInv
    <2>2. QED
        BY <1>3, <1>4, <2>1 DEF InitCommands, IInv, TypeInv, Pcs
<1>6. ResetInv' /\ CandidateInv' /\ DistinctInv'
    BY <1>3, <1>4 DEF InitCommands, ResetInv, CandidateInv, DistinctInv, DPhase
<1>7. KindInv'
    <2>1. UNCHANGED <<wCmd, wView>> /\ wCmd \in 0 .. Len(views) /\ wView \in 0 .. Len(views)
        BY DEF InitCommands, IInv, TypeInv
    <2>2. iCmd' # 0 => views'[iCmd'].kind = "commands"
        BY <1>1, <1>2
    <2>3. wCmd' # 0 => views'[wCmd'].kind = "commands"
        BY <1>1, <1>2, <2>1 DEF IInv, KindInv
    <2>4. wView' # 0 => views'[wView'].kind = "dwarf"
        BY <1>1, <1>2, <2>1 DEF IInv, KindInv
    <2>5. QED
        BY <2>2, <2>3, <2>4 DEF KindInv
<1>8. DirsInv'
    <2>1. UNCHANGED <<dirs, iDir, dDir>>
        BY DEF InitCommands
    <2>2. /\ (pc' = "returned") <=> (pc = "returned")
          /\ (pc' \in DPhase) <=> (pc \in DPhase)
        BY <1>3, <1>4 DEF DPhase, WPhase
    <2>3. QED
        BY <2>1, <2>2, DirsKept
<1>9. ViewsInv'
    <2> SUFFICES ASSUME NEW v \in DOMAIN views'
                 PROVE  views'[v].rel = IF IsHeld(v)' THEN 0 ELSE 1
        BY DEF ViewsInv
    <2>1. IsHeld(v)' <=> v = o[2] /\ v # 0
        BY <1>1, <1>4 DEF IsHeld
    <2>2. CASE v \in DOMAIN views
        <3>1. ~IsHeld(v)
            BY <1>3 DEF IsHeld, WPhase
        <3>2. views[v].rel = 1
            BY <2>2, <3>1 DEF IInv, ViewsInv
        <3>3. QED
            BY <1>1, <1>2, <2>1, <2>2, <3>2
    <2>3. CASE v \notin DOMAIN views
        BY <1>1, <1>2, <2>1, <2>3
    <2>4. QED
        BY <2>2, <2>3
<1>10. RegisteredInv'
    BY <1>3, NoneRegistered DEF InitCommands
<1>11. QED
    BY <1>5, <1>6, <1>7, <1>8, <1>9, <1>10 DEF IInv

(* The executable's directory is opened: the one open handle.             *)
LEMMA InitOpenDirIInv ==
    ASSUME IInv, InitOpenDir
    PROVE  IInv'
<1>1. pc = "i_identify" /\ iDir = 0 /\ dwarfViews = {}
    BY DEF InitOpenDir, IInv, ResetInv, RegisteredInv
<1>2. pc' \in {"i_loop", "i_end"} /\ pc' \notin DPhase /\ pc' \notin WPhase
    BY DEF InitOpenDir, DPhase, WPhase
<1>3. ViewsInv' /\ KindInv'
    <2>1. UNCHANGED <<views, iCmd, wCmd, wView>>
        BY DEF InitOpenDir
    <2>2. /\ (pc' = "returned") <=> (pc = "returned")
          /\ (pc' \in WPhase) <=> (pc \in WPhase)
        BY <1>1, <1>2 DEF WPhase
    <2>3. QED
        BY <2>1, <2>2, ViewsKept
<1>4. RegisteredInv'
    BY <1>1, NoneRegistered DEF InitOpenDir
<1>5. ResetInv' /\ CandidateInv' /\ DistinctInv'
    BY <1>2 DEF ResetInv, CandidateInv, DistinctInv, DPhase
<1>6. CASE exe.identified /\ exe.dir
    <2>1. dirs' = Append(dirs, 0) /\ iDir' = Len(dirs) + 1
        BY <1>6 DEF InitOpenDir
    <2>2. TypeInv'
        BY <1>2, <2>1 DEF InitOpenDir, IInv, TypeInv, Pcs
    <2>3. DirsInv'
        <3> SUFFICES ASSUME NEW k \in DOMAIN dirs'
                     PROVE  dirs'[k] = IF IsOpen(k)' THEN 0 ELSE 1
            BY DEF DirsInv
        <3>1. IsOpen(k)' <=> k = Len(dirs) + 1
            BY <1>2, <2>1 DEF IsOpen
        <3>2. CASE k \in DOMAIN dirs
            <4>1. ~IsOpen(k)
                BY <1>1 DEF IsOpen, DPhase, WPhase
            <4>2. dirs[k] = 1
                BY <3>2, <4>1 DEF IInv, DirsInv
            <4>3. QED
                BY <2>1, <3>1, <3>2, <4>2 DEF IInv, TypeInv
        <3>3. CASE k \notin DOMAIN dirs
            BY <2>1, <3>1, <3>3 DEF IInv, TypeInv
        <3>4. QED
            BY <3>2, <3>3
    <2>4. QED
        BY <1>3, <1>4, <1>5, <2>2, <2>3 DEF IInv
<1>7. CASE ~(exe.identified /\ exe.dir)
    <2>1. UNCHANGED <<dirs, iDir, dDir>>
        BY <1>7 DEF InitOpenDir
    <2>2. TypeInv'
        BY <1>2, <2>1 DEF InitOpenDir, IInv, TypeInv, Pcs
    <2>3. /\ (pc' = "returned") <=> (pc = "returned")
          /\ (pc' \in DPhase) <=> (pc \in DPhase)
        BY <1>1, <1>2 DEF DPhase, WPhase
    <2>4. DirsInv'
        BY <2>1, <2>3, DirsKept
    <2>5. QED
        BY <1>3, <1>4, <1>5, <2>2, <2>4 DEF IInv
<1>8. QED
    BY <1>6, <1>7

(* The next entry beside the executable; a dSYM starts macho_try_dsym    *)
(* with its locals reset.                                                  *)
LEMMA InitLoopIInv ==
    ASSUME IInv, InitLoop
    PROVE  IInv'
<1>1. pc = "i_loop" /\ dwarfViews = {}
    BY DEF InitLoop, IInv, RegisteredInv
<1>2. pc' \in {"i_end", "i_loop", "d_opendir"} /\ pc' \notin WPhase
    BY DEF InitLoop, WPhase
<1>3. ViewsInv' /\ KindInv'
    <2>1. UNCHANGED <<views, iCmd, wCmd, wView>>
        BY DEF InitLoop
    <2>2. /\ (pc' = "returned") <=> (pc = "returned")
          /\ (pc' \in WPhase) <=> (pc \in WPhase)
        BY <1>1, <1>2 DEF WPhase
    <2>3. QED
        BY <2>1, <2>2, ViewsKept
<1>4. RegisteredInv'
    BY <1>1, NoneRegistered DEF InitLoop
<1>5. iEntry \in Nat \ {0} /\ bundles \in Seq(Bundles)
    BY DEF IInv, TypeInv
<1>6. CASE iEntry > Len(bundles)
    <2>1. pc' = "i_end" /\ UNCHANGED <<iEntry, dDir, dEntry, dRet>>
        BY <1>6 DEF InitLoop
    <2>2. TypeInv' /\ ResetInv' /\ CandidateInv' /\ DistinctInv'
        BY <2>1 DEF InitLoop, IInv, TypeInv, Pcs, ResetInv, CandidateInv, DistinctInv,
                    DPhase, WPhase
    <2>3. DirsInv'
        <3>1. UNCHANGED <<dirs, iDir, dDir>>
            BY <2>1 DEF InitLoop
        <3>2. /\ (pc' = "returned") <=> (pc = "returned")
              /\ (pc' \in DPhase) <=> (pc \in DPhase)
            BY <1>1, <2>1 DEF DPhase, WPhase
        <3>3. QED
            BY <3>1, <3>2, DirsKept
    <2>4. QED
        BY <1>3, <1>4, <2>2, <2>3 DEF IInv
<1>7. CASE iEntry <= Len(bundles) /\ ~bundles[iEntry].dsym
    <2>1. pc' = "i_loop" /\ iEntry' = iEntry + 1 /\ UNCHANGED <<dDir, dEntry, dRet>>
        BY <1>5, <1>7 DEF InitLoop
    <2>2. TypeInv' /\ ResetInv' /\ CandidateInv' /\ DistinctInv'
        BY <1>5, <2>1 DEF InitLoop, IInv, TypeInv, Pcs, ResetInv, CandidateInv, DistinctInv,
                          DPhase, WPhase
    <2>3. DirsInv'
        <3>1. UNCHANGED <<dirs, iDir, dDir>>
            BY <2>1 DEF InitLoop
        <3>2. /\ (pc' = "returned") <=> (pc = "returned")
              /\ (pc' \in DPhase) <=> (pc \in DPhase)
            BY <1>1, <2>1 DEF DPhase, WPhase
        <3>3. QED
            BY <3>1, <3>2, DirsKept
    <2>4. QED
        BY <1>3, <1>4, <2>2, <2>3 DEF IInv
<1>8. CASE iEntry <= Len(bundles) /\ bundles[iEntry].dsym
    <2>1. pc' = "d_opendir" /\ dDir' = 0 /\ dEntry' = 1 /\ dRet' = 0 /\ UNCHANGED iEntry
        BY <1>5, <1>8 DEF InitLoop
    <2>2. iEntry \in 1 .. Len(bundles)
        BY <1>5, <1>8
    <2>3. TypeInv'
        BY <2>1 DEF InitLoop, IInv, TypeInv, Pcs, DPhase
    <2>4. ResetInv' /\ CandidateInv' /\ DistinctInv'
        BY <2>1, <2>2 DEF InitLoop, ResetInv, CandidateInv, DistinctInv, DPhase, WPhase
    <2>5. DirsInv'
        <3> SUFFICES ASSUME NEW k \in DOMAIN dirs'
                     PROVE  dirs'[k] = IF IsOpen(k)' THEN 0 ELSE 1
            BY DEF DirsInv
        <3>1. IsOpen(k)' <=> IsOpen(k)
            BY <1>1, <2>1 DEF InitLoop, IsOpen, DPhase, WPhase
        <3>2. QED
            BY <3>1 DEF InitLoop, IInv, DirsInv
    <2>6. QED
        BY <1>3, <1>4, <2>3, <2>4, <2>5 DEF IInv
<1>9. QED
    BY <1>5, <1>6, <1>7, <1>8

(* backtrace_initialize's end label releases the commands view and closes *)
(* the executable's directory: after it nothing is held or open.           *)
LEMMA InitEndIInv ==
    ASSUME IInv, InitEnd
    PROVE  IInv'
<1>1. pc = "i_end" /\ pc' = "returned"
    BY DEF InitEnd
<1>2. views \in Seq(ViewRec) /\ iCmd \in 0 .. Len(views)
    BY DEF IInv, TypeInv
<1>3. /\ views' \in Seq(ViewRec)
      /\ DOMAIN views' = DOMAIN views
      /\ \A k \in DOMAIN views :
            /\ views'[k].kind = views[k].kind
            /\ views'[k].src = views[k].src
            /\ views'[k].rel = IF k = iCmd THEN views[k].rel + 1 ELSE views[k].rel
    BY <1>2, ReleasedFacts DEF InitEnd
<1>4. Len(views') = Len(views)
    BY <1>2, <1>3
<1>5. dirs' \in Seq(Nat) /\ DOMAIN dirs' = DOMAIN dirs
      /\ \A k \in DOMAIN dirs : dirs'[k] = IF k = iDir THEN dirs[k] + 1 ELSE dirs[k]
    BY DEF InitEnd, IInv, TypeInv
<1>6. TypeInv'
    BY <1>1, <1>3, <1>4, <1>5 DEF InitEnd, IInv, TypeInv, Pcs
<1>7. ResetInv' /\ CandidateInv' /\ DistinctInv'
    BY <1>1 DEF ResetInv, CandidateInv, DistinctInv, DPhase, WPhase
<1>8. KindInv'
    <2>1. iCmd' = iCmd /\ wCmd' = wCmd /\ wView' = wView
        BY DEF InitEnd
    <2>2. KindInv
        BY DEF IInv
    <2>3. wCmd \in 0 .. Len(views) /\ wView \in 0 .. Len(views)
        BY DEF IInv, TypeInv
    <2>4. iCmd' # 0 => views'[iCmd'].kind = "commands"
        BY <1>2, <1>3, <2>1, <2>2 DEF KindInv
    <2>5. wCmd' # 0 => views'[wCmd'].kind = "commands"
        BY <1>3, <2>1, <2>2, <2>3 DEF KindInv
    <2>6. wView' # 0 => views'[wView'].kind = "dwarf"
        BY <1>3, <2>1, <2>2, <2>3 DEF KindInv
    <2>7. QED
        BY <2>4, <2>5, <2>6 DEF KindInv
<1>9. DirsInv'
    <2> SUFFICES ASSUME NEW k \in DOMAIN dirs'
                 PROVE  dirs'[k] = IF IsOpen(k)' THEN 0 ELSE 1
        BY DEF DirsInv
    <2>1. ~IsOpen(k)' /\ (IsOpen(k) <=> k = iDir)
        BY <1>1 DEF IsOpen, DPhase, WPhase, IInv, TypeInv
    <2>2. dirs[k] = IF k = iDir THEN 0 ELSE 1
        BY <1>5, <2>1 DEF IInv, DirsInv
    <2>3. QED
        BY <1>5, <2>1, <2>2
<1>10. ViewsInv'
    <2> SUFFICES ASSUME NEW v \in DOMAIN views'
                 PROVE  views'[v].rel = IF IsHeld(v)' THEN 0 ELSE 1
        BY DEF ViewsInv
    <2>1. ~IsHeld(v)' /\ (IsHeld(v) <=> v = iCmd)
        BY <1>1, <1>3 DEF IsHeld, WPhase, IInv, TypeInv
    <2>2. views[v].rel = IF v = iCmd THEN 0 ELSE 1
        BY <1>3, <2>1 DEF IInv, ViewsInv
    <2>3. QED
        BY <1>3, <2>1, <2>2
<1>11. RegisteredInv'
    <2>1. (\A v \in dwarfViews : MatchingView(views[v]))'
        <3> SUFFICES ASSUME NEW v \in dwarfViews PROVE MatchingView(views[v])'
            BY DEF InitEnd
        <3>1. v \in DOMAIN views /\ MatchingView(views[v])
            BY DEF IInv, TypeInv, RegisteredInv
        <3>2. views'[v].kind = views[v].kind /\ views'[v].src = views[v].src
            BY <1>3, <3>1
        <3>3. QED
            BY <3>1, <3>2 DEF InitEnd, MatchingView
    <2>2. QED
        BY <1>1, <2>1 DEF InitEnd, IInv, RegisteredInv
<1>12. QED
    BY <1>6, <1>7, <1>8, <1>9, <1>10, <1>11 DEF IInv

(* macho_try_dsym opens the bundle's DWARF directory, a second open handle *)
(* beside the executable's.                                                *)
LEMMA DsymOpenDirIInv ==
    ASSUME IInv, DsymOpenDir
    PROVE  IInv'
<1>1. pc = "d_opendir" /\ dDir = 0 /\ dwarfViews = {}
    BY DEF DsymOpenDir, IInv, ResetInv, RegisteredInv
<1>2. pc' \in {"d_loop", "d_end"} /\ pc' \in DPhase /\ pc' \notin WPhase
    BY DEF DsymOpenDir, DPhase, WPhase
<1>3. ViewsInv' /\ KindInv'
    <2>1. UNCHANGED <<views, iCmd, wCmd, wView>>
        BY DEF DsymOpenDir
    <2>2. /\ (pc' = "returned") <=> (pc = "returned")
          /\ (pc' \in WPhase) <=> (pc \in WPhase)
        BY <1>1, <1>2 DEF WPhase
    <2>3. QED
        BY <2>1, <2>2, ViewsKept
<1>4. RegisteredInv'
    BY <1>1, NoneRegistered DEF DsymOpenDir
<1>5. ResetInv' /\ CandidateInv'
    BY <1>1, <1>2 DEF DsymOpenDir, IInv, ResetInv, CandidateInv, DPhase, WPhase
<1>6. CASE Bundle.opens
    <2>1. dirs' = Append(dirs, 0) /\ dDir' = Len(dirs) + 1
        BY <1>6 DEF DsymOpenDir
    <2>2. TypeInv'
        BY <1>2, <2>1 DEF DsymOpenDir, IInv, TypeInv, Pcs
    <2>3. DistinctInv'
        BY <1>2, <2>1 DEF DsymOpenDir, IInv, TypeInv, DistinctInv
    <2>4. DirsInv'
        <3> SUFFICES ASSUME NEW k \in DOMAIN dirs'
                     PROVE  dirs'[k] = IF IsOpen(k)' THEN 0 ELSE 1
            BY DEF DirsInv
        <3>1. IsOpen(k)' <=> (k # 0 /\ k = iDir) \/ k = Len(dirs) + 1
            BY <1>1, <1>2, <2>1 DEF DsymOpenDir, IsOpen, IInv, TypeInv
        <3>2. IsOpen(k) <=> k # 0 /\ k = iDir
            BY <1>1 DEF IsOpen
        <3>3. CASE k \in DOMAIN dirs
            <4>1. dirs[k] = IF IsOpen(k) THEN 0 ELSE 1
                BY <3>3 DEF IInv, DirsInv
            <4>2. QED
                BY <2>1, <3>1, <3>2, <3>3, <4>1 DEF IInv, TypeInv
        <3>4. CASE k \notin DOMAIN dirs
            BY <2>1, <3>1, <3>4 DEF IInv, TypeInv
        <3>5. QED
            BY <3>3, <3>4
    <2>5. QED
        BY <1>3, <1>4, <1>5, <2>2, <2>3, <2>4 DEF IInv
<1>7. CASE ~Bundle.opens
    <2>1. UNCHANGED <<dirs, iDir, dDir>>
        BY <1>7 DEF DsymOpenDir
    <2>2. TypeInv' /\ DistinctInv'
        BY <1>2, <2>1 DEF DsymOpenDir, IInv, TypeInv, Pcs, DistinctInv
    <2>3. /\ (pc' = "returned") <=> (pc = "returned")
          /\ (pc' \in DPhase) <=> (pc \in DPhase)
        BY <1>1, <1>2 DEF DPhase, WPhase
    <2>4. DirsInv'
        BY <2>1, <2>3, DirsKept
    <2>5. QED
        BY <1>3, <1>4, <1>5, <2>2, <2>4 DEF IInv
<1>8. QED
    BY <1>6, <1>7

(* The current bundle is one of Bundles, so its entries are a sequence.    *)
LEMMA BundleInRange ==
    ASSUME IInv, pc \in DPhase
    PROVE  /\ Bundle \in Bundles
           /\ Bundle.entries \in Seq(DwarfFiles \cup {NotRegular})
           /\ Len(Bundle.entries) <= MaxFiles
<1>1. Bundle \in Bundles
    BY DEF IInv, TypeInv, CandidateInv, Bundle
<1>2. QED
    BY <1>1, BundleFacts

(* macho_try_dsym's next entry; a regular file starts macho_try_dwarf     *)
(* with its locals reset.                                                  *)
LEMMA DsymLoopIInv ==
    ASSUME IInv, DsymLoop
    PROVE  IInv'
<1>1. pc = "d_loop" /\ pc \in DPhase /\ dwarfViews = {}
    BY DEF DsymLoop, IInv, RegisteredInv, DPhase
<1>2. pc' \in {"d_end", "d_loop", "w_open"} /\ pc' \in DPhase
    BY DEF DsymLoop, DPhase, WPhase
<1>3. RegisteredInv'
    BY <1>1, NoneRegistered DEF DsymLoop
<1>4. DirsInv'
    <2>1. UNCHANGED <<dirs, iDir, dDir>>
        BY DEF DsymLoop
    <2>2. /\ (pc' = "returned") <=> (pc = "returned")
          /\ (pc' \in DPhase) <=> (pc \in DPhase)
        BY <1>1, <1>2 DEF DPhase, WPhase
    <2>3. QED
        BY <2>1, <2>2, DirsKept
<1>5. Len(Bundle.entries) \in Nat /\ dEntry \in Nat \ {0}
    BY <1>1, BundleInRange DEF IInv, TypeInv
<1>6. CASE dEntry > Len(Bundle.entries) \/ ~DFile.reg
    <2>1. pc' \in {"d_end", "d_loop"} /\ UNCHANGED <<wFd, wFdValid, wCmd, wView, wRet>>
          /\ dEntry' \in Nat \ {0}
        BY <1>5, <1>6 DEF DsymLoop
    <2>2. ViewsInv' /\ KindInv'
        <3>1. UNCHANGED <<views, iCmd, wCmd, wView>>
            BY <2>1 DEF DsymLoop
        <3>2. /\ (pc' = "returned") <=> (pc = "returned")
              /\ (pc' \in WPhase) <=> (pc \in WPhase)
            BY <1>1, <2>1 DEF WPhase
        <3>3. QED
            BY <3>1, <3>2, ViewsKept
    <2>3. TypeInv' /\ ResetInv' /\ CandidateInv' /\ DistinctInv'
        BY <1>1, <2>1 DEF DsymLoop, IInv, TypeInv, Pcs, ResetInv, CandidateInv,
                          DistinctInv, DPhase, WPhase
    <2>4. QED
        BY <1>3, <1>4, <2>2, <2>3 DEF IInv
<1>7. CASE dEntry <= Len(Bundle.entries) /\ DFile.reg
    <2>1. /\ pc' = "w_open" /\ UNCHANGED dEntry
          /\ wFd' = 0 /\ wFdValid' = FALSE /\ wCmd' = 0 /\ wView' = 0 /\ wRet' = 0
        BY <1>5, <1>7 DEF DsymLoop
    <2>2. ViewsInv'
        <3> SUFFICES ASSUME NEW v \in DOMAIN views'
                     PROVE  views'[v].rel = IF IsHeld(v)' THEN 0 ELSE 1
            BY DEF ViewsInv
        <3>1. IsHeld(v)' <=> IsHeld(v)
            BY <1>1, <2>1 DEF DsymLoop, IsHeld, WPhase
        <3>2. QED
            BY <3>1 DEF DsymLoop, IInv, ViewsInv
    <2>3. KindInv'
        BY <2>1 DEF DsymLoop, IInv, KindInv
    <2>4. TypeInv'
        BY <1>2, <2>1 DEF DsymLoop, IInv, TypeInv, Pcs
    <2>5. ResetInv' /\ DistinctInv'
        BY <1>1, <2>1 DEF DsymLoop, IInv, ResetInv, DistinctInv, WPhase
    <2>6. CandidateInv'
        BY <1>5, <1>7, <2>1 DEF DsymLoop, IInv, CandidateInv, DPhase, WPhase, Bundle, DFile
    <2>7. QED
        BY <1>3, <1>4, <2>2, <2>3, <2>4, <2>5, <2>6 DEF IInv
<1>8. QED
    BY <1>5, <1>6, <1>7

(* macho_try_dsym closes its directory and returns; a success ends the    *)
(* scan of the executable's directory.                                     *)
LEMMA DsymEndIInv ==
    ASSUME IInv, DsymEnd
    PROVE  IInv'
<1>1. pc = "d_end" /\ pc \in DPhase
    BY DEF DsymEnd, DPhase
<1>2. pc' \in {"i_end", "i_loop"} /\ pc' \notin DPhase /\ pc' \notin WPhase
    BY DEF DsymEnd, DPhase, WPhase
<1>3. ViewsInv' /\ KindInv'
    <2>1. UNCHANGED <<views, iCmd, wCmd, wView>>
        BY DEF DsymEnd
    <2>2. /\ (pc' = "returned") <=> (pc = "returned")
          /\ (pc' \in WPhase) <=> (pc \in WPhase)
        BY <1>1, <1>2 DEF WPhase
    <2>3. QED
        BY <2>1, <2>2, ViewsKept
<1>4. dirs' \in Seq(Nat) /\ DOMAIN dirs' = DOMAIN dirs
      /\ \A k \in DOMAIN dirs :
            dirs'[k] = IF k = dDir /\ dDir # 0 THEN dirs[k] + 1 ELSE dirs[k]
    BY DEF DsymEnd, IInv, TypeInv
<1>5. TypeInv'
    <2>1. iEntry' \in Nat \ {0} /\ ret' \in {0, 1}
        <3>1. iEntry \in Nat \ {0} /\ ret \in {0, 1}
            BY DEF IInv, TypeInv
        <3>2. CASE dRet = 1
            <4>1. ret' = 1 /\ iEntry' = iEntry
                BY <3>2 DEF DsymEnd
            <4>2. QED
                BY <3>1, <4>1
        <3>3. CASE dRet # 1
            <4>1. iEntry' = iEntry + 1 /\ ret' = ret
                BY <3>3 DEF DsymEnd
            <4>2. QED
                BY <3>1, <4>1
        <3>4. QED
            BY <3>2, <3>3
    <2>2. QED
        BY <1>2, <1>4, <2>1 DEF DsymEnd, IInv, TypeInv, Pcs
<1>6. ResetInv' /\ CandidateInv' /\ DistinctInv'
    BY <1>2 DEF ResetInv, CandidateInv, DistinctInv, DPhase, WPhase
<1>7. DirsInv'
    <2> SUFFICES ASSUME NEW k \in DOMAIN dirs'
                 PROVE  dirs'[k] = IF IsOpen(k)' THEN 0 ELSE 1
        BY DEF DirsInv
    <2>1. IsOpen(k)' <=> k # 0 /\ k = iDir
        BY <1>2 DEF DsymEnd, IsOpen
    <2>2. IsOpen(k) <=> k # 0 /\ (k = iDir \/ k = dDir)
        BY <1>1 DEF IsOpen
    <2>3. dDir # 0 => dDir # iDir
        BY <1>1 DEF IInv, DistinctInv
    <2>4. dirs[k] = IF IsOpen(k) THEN 0 ELSE 1
        BY <1>4 DEF IInv, DirsInv
    <2>5. QED
        BY <1>4, <2>1, <2>2, <2>3, <2>4
<1>8. RegisteredInv'
    <2>1. dwarfViews # {} => dRet = 1
        BY <1>1 DEF IInv, RegisteredInv
    <2>2. dwarfViews # {} => pc' = "i_end"
        BY <2>1 DEF DsymEnd
    <2>3. QED
        BY <2>2 DEF DsymEnd, IInv, RegisteredInv, MatchingView
<1>9. QED
    BY <1>3, <1>5, <1>6, <1>7, <1>8 DEF IInv

(* The candidate file is one of Srcs.                                       *)
LEMMA DSrcInSrcs ==
    ASSUME IInv, pc \in WPhase
    PROVE  DSrc \in Srcs
<1>1. pc \in DPhase
    BY DEF DPhase
<1>2. iEntry \in 1 .. Len(bundles) /\ Len(bundles) <= MaxBundles
    BY <1>1 DEF IInv, TypeInv, CandidateInv
<1>3. dEntry \in 1 .. Len(Bundle.entries) /\ Len(Bundle.entries) <= MaxFiles
    BY <1>1, BundleInRange DEF IInv, CandidateInv
<1>4. iEntry \in 1 .. MaxBundles /\ dEntry \in 1 .. MaxFiles
    BY <1>2, <1>3
<1>5. QED
    BY <1>4 DEF DSrc, Srcs

(* A step of macho_try_dwarf that changes neither the views, the locals    *)
(* that hold them nor the directories, and stays in macho_try_dwarf.       *)
LEMMA DwarfStepKept ==
    ASSUME IInv, pc \in WPhase, pc' \in WPhase,
           UNCHANGED <<views, iCmd, wCmd, wView, dirs, iDir, dDir>>
    PROVE  ViewsInv' /\ KindInv' /\ DirsInv'
<1>1. /\ (pc' = "returned") <=> (pc = "returned")
      /\ (pc' \in WPhase) <=> (pc \in WPhase)
      /\ (pc' \in DPhase) <=> (pc \in DPhase)
    BY DEF DPhase, WPhase
<1>2. QED
    BY <1>1, ViewsKept, DirsKept

(* macho_try_dwarf opens the candidate; a failed open leaves wFd = -1.     *)
LEMMA DwarfOpenIInv ==
    ASSUME IInv, DwarfOpen
    PROVE  IInv'
<1>1. pc = "w_open" /\ pc \in WPhase /\ dwarfViews = {}
    BY DEF DwarfOpen, IInv, RegisteredInv, WPhase
<1>2. pc' = "w_commands" /\ pc' \in WPhase
    BY DEF DwarfOpen, WPhase
<1>3. ViewsInv' /\ KindInv' /\ DirsInv'
    BY <1>1, <1>2, DwarfStepKept DEF DwarfOpen
<1>4. RegisteredInv'
    BY <1>1, NoneRegistered DEF DwarfOpen
<1>5. fds' \in Seq(FdRec) /\ wFd' \in {-1} \cup (0 .. Len(fds'))
    <2>1. [src |-> DSrc, closes |-> 0] \in FdRec
        BY <1>1, DSrcInSrcs DEF FdRec
    <2>2. fds \in Seq(FdRec)
        BY DEF IInv, TypeInv
    <2>3. QED
        BY <2>1, <2>2 DEF DwarfOpen
<1>6. TypeInv'
    BY <1>1, <1>2, <1>5 DEF DwarfOpen, IInv, TypeInv, Pcs, DPhase
<1>7. ResetInv' /\ CandidateInv' /\ DistinctInv'
    BY <1>1, <1>2 DEF DwarfOpen, IInv, ResetInv, CandidateInv, DistinctInv,
                      DPhase, WPhase, Bundle, DFile, DSrc
<1>8. QED
    BY <1>3, <1>4, <1>6, <1>7 DEF IInv

(* The UUID test: only a matching file goes on to its sections.            *)
LEMMA DwarfUuidIInv ==
    ASSUME IInv, DwarfUuid
    PROVE  IInv'
<1>1. pc = "w_uuid" /\ pc \in WPhase /\ dwarfViews = {}
    BY DEF DwarfUuid, IInv, RegisteredInv, WPhase
<1>2. pc' \in {"w_sections", "w_end"} /\ pc' \in WPhase
    BY DEF DwarfUuid, WPhase
<1>3. ViewsInv' /\ KindInv' /\ DirsInv'
    BY <1>1, <1>2, DwarfStepKept DEF DwarfUuid
<1>4. RegisteredInv'
    BY <1>1, NoneRegistered DEF DwarfUuid
<1>5. TypeInv'
    BY <1>2 DEF DwarfUuid, IInv, TypeInv, Pcs, DPhase
<1>6. ResetInv' /\ CandidateInv' /\ DistinctInv'
    BY <1>1, <1>2 DEF DwarfUuid, IInv, ResetInv, CandidateInv, DistinctInv,
                      DPhase, WPhase, Bundle, DFile, DSrc
<1>7. QED
    BY <1>3, <1>4, <1>5, <1>6 DEF IInv

(* The __DWARF section scan.                                              *)
LEMMA DwarfSectionsIInv ==
    ASSUME IInv, DwarfSections
    PROVE  IInv'
<1>1. pc = "w_sections" /\ pc \in WPhase /\ dwarfViews = {}
    BY DEF DwarfSections, IInv, RegisteredInv, WPhase
<1>2. pc' \in {"w_view", "w_end"} /\ pc' \in WPhase
    BY DEF DwarfSections, WPhase
<1>3. ViewsInv' /\ KindInv' /\ DirsInv'
    BY <1>1, <1>2, DwarfStepKept DEF DwarfSections
<1>4. RegisteredInv'
    BY <1>1, NoneRegistered DEF DwarfSections
<1>5. TypeInv'
    BY <1>2 DEF DwarfSections, IInv, TypeInv, Pcs, DPhase
<1>6. ResetInv' /\ CandidateInv' /\ DistinctInv'
    BY <1>1, <1>2 DEF DwarfSections, IInv, ResetInv, CandidateInv, DistinctInv,
                      DPhase, WPhase, Bundle, DFile, DSrc
<1>7. QED
    BY <1>3, <1>4, <1>5, <1>6 DEF IInv

(* backtrace_dwarf_add takes the DWARF view: the one registration.        *)
LEMMA DwarfAddIInv ==
    ASSUME IInv, DwarfAdd
    PROVE  IInv'
<1>1. pc = "w_add" /\ pc \in WPhase /\ dwarfViews = {}
    BY DEF DwarfAdd, IInv, RegisteredInv, WPhase
<1>2. pc' = "w_end" /\ pc' \in WPhase
    BY DEF DwarfAdd, WPhase
<1>3. ViewsInv' /\ KindInv' /\ DirsInv'
    BY <1>1, <1>2, DwarfStepKept DEF DwarfAdd
<1>4. ResetInv' /\ CandidateInv' /\ DistinctInv'
    BY <1>1, <1>2 DEF DwarfAdd, IInv, ResetInv, CandidateInv, DistinctInv,
                      DPhase, WPhase, Bundle, DFile, DSrc
<1>5. /\ wView \in 1 .. Len(views)
      /\ MatchingView(views[wView])
    <2>1. wView # 0 /\ views[wView].src = <<iEntry, dEntry>>
        BY <1>1 DEF IInv, CandidateInv, DSrc
    <2>2. views[wView].kind = "dwarf"
        BY <2>1 DEF IInv, KindInv
    <2>3. /\ iEntry \in 1 .. Len(bundles)
          /\ dEntry \in 1 .. Len(bundles[iEntry].entries)
          /\ bundles[iEntry].entries[dEntry].uuid = "match"
        BY <1>1 DEF IInv, CandidateInv, DPhase, WPhase, Bundle, DFile
    <2>4. QED
        BY <2>1, <2>2, <2>3 DEF IInv, TypeInv, MatchingView
<1>6. CASE dwarfViews' = dwarfViews \cup {wView} /\ wRet' = 1
    <2>1. dwarfViews' = {wView}
        BY <1>1, <1>6
    <2>2. TypeInv'
        BY <1>2, <1>5, <2>1, <1>6 DEF DwarfAdd, IInv, TypeInv, Pcs, DPhase
    <2>3. RegisteredInv'
        BY <1>2, <1>5, <1>6, <2>1 DEF DwarfAdd, RegisteredInv, MatchingView
    <2>4. QED
        BY <1>3, <1>4, <2>2, <2>3 DEF IInv
<1>7. CASE UNCHANGED <<dwarfViews, wFdValid, wRet>>
    <2>1. TypeInv'
        BY <1>2, <1>7 DEF DwarfAdd, IInv, TypeInv, Pcs, DPhase
    <2>2. RegisteredInv'
        BY <1>1, <1>7, NoneRegistered
    <2>3. QED
        BY <1>3, <1>4, <2>1, <2>2 DEF IInv
<1>8. QED
    BY <1>6, <1>7 DEF DwarfAdd

(* macho_try_dwarf maps the candidate's commands, or fails at once on      *)
(* descriptor -1.                                                          *)
LEMMA DwarfCommandsIInv ==
    ASSUME IInv, DwarfCommands
    PROVE  IInv'
<1>1. pc = "w_commands" /\ pc \in WPhase /\ dwarfViews = {} /\ wCmd = 0 /\ wView = 0
    BY DEF DwarfCommands, IInv, RegisteredInv, ResetInv, WPhase
<1>2. PICK o \in IF wFd = -1 THEN {<<views, 0>>} ELSE GetCommands(DSrc, DFile.magic) :
          /\ views' = o[1]
          /\ wCmd' = o[2]
          /\ pc' = IF o[2] = 0 THEN "w_end" ELSE "w_uuid"
    BY DEF DwarfCommands
<1>3. /\ o[1] \in Seq(ViewRec)
      /\ Len(o[1]) >= Len(views)
      /\ \A v \in DOMAIN views : o[1][v] = views[v]
      /\ \A v \in DOMAIN o[1] : v \notin DOMAIN views =>
            o[1][v].rel = IF v = o[2] THEN 0 ELSE 1
      /\ o[2] \in 0 .. Len(o[1])
      /\ o[2] # 0 => o[2] \notin DOMAIN views /\ o[1][o[2]].kind = "commands"
    <2>1. views \in Seq(ViewRec)
        BY DEF IInv, TypeInv
    <2>2. CASE wFd = -1
        BY <1>2, <2>1, <2>2
    <2>3. CASE wFd # -1
        <3>1. DSrc \in Srcs
            BY <1>1, DSrcInSrcs
        <3>2. o \in GetCommands(DSrc, DFile.magic)
            BY <1>2, <2>3
        <3>3. QED
            BY <2>1, <3>1, <3>2, GetCommandsFacts
    <2>4. QED
        BY <2>2, <2>3
<1>4. pc' \in {"w_end", "w_uuid"} /\ pc' \in WPhase
    BY <1>2 DEF WPhase
<1>5. RegisteredInv'
    BY <1>1, NoneRegistered DEF DwarfCommands
<1>6. DirsInv'
    <2>1. UNCHANGED <<dirs, iDir, dDir>>
        BY DEF DwarfCommands
    <2>2. /\ (pc' = "returned") <=> (pc = "returned")
          /\ (pc' \in DPhase) <=> (pc \in DPhase)
        BY <1>1, <1>4 DEF DPhase, WPhase
    <2>3. QED
        BY <2>1, <2>2, DirsKept
<1>7. TypeInv'
    <2>1. /\ views' \in Seq(ViewRec)
          /\ iCmd' \in 0 .. Len(views')
          /\ wCmd' \in 0 .. Len(views')
          /\ wView' \in 0 .. Len(views')
          /\ dwarfViews' \subseteq DOMAIN views'
        BY <1>1, <1>2, <1>3 DEF DwarfCommands, IInv, TypeInv
    <2>2. QED
        BY <1>4, <2>1 DEF DwarfCommands, IInv, TypeInv, Pcs, DPhase
<1>8. KindInv'
    <2>1. iCmd # 0 => views'[iCmd] = views[iCmd]
        <3>1. iCmd # 0 => iCmd \in DOMAIN views
            BY DEF IInv, TypeInv
        <3>2. QED
            BY <1>2, <1>3, <3>1 DEF DwarfCommands
    <2>2. iCmd # 0 => views[iCmd].kind = "commands"
        BY DEF IInv, KindInv
    <2>3. wCmd' # 0 => views'[wCmd'].kind = "commands"
        BY <1>2, <1>3
    <2>4. QED
        BY <1>1, <2>1, <2>2, <2>3 DEF DwarfCommands, KindInv
<1>9. ResetInv' /\ CandidateInv'
    BY <1>1, <1>4 DEF DwarfCommands, IInv, ResetInv, CandidateInv,
                      DPhase, WPhase, Bundle, DFile, DSrc
<1>10. DistinctInv'
    <2>1. o[2] # 0 => o[2] # iCmd
        BY <1>3 DEF IInv, TypeInv
    <2>2. QED
        BY <1>1, <1>2, <2>1 DEF DwarfCommands, IInv, DistinctInv, DPhase, WPhase
<1>11. ViewsInv'
    <2> SUFFICES ASSUME NEW v \in DOMAIN views'
                 PROVE  views'[v].rel = IF IsHeld(v)' THEN 0 ELSE 1
        BY DEF ViewsInv
    <2>1. IsHeld(v)' <=> IsHeld(v) \/ (v = o[2] /\ v # 0)
        BY <1>1, <1>2, <1>4 DEF DwarfCommands, IsHeld
    <2>2. CASE v \in DOMAIN views
        <3>1. views[v].rel = IF IsHeld(v) THEN 0 ELSE 1
            BY <2>2 DEF IInv, ViewsInv
        <3>2. v # o[2]
            BY <1>3, <2>2
        <3>3. QED
            BY <1>2, <1>3, <2>1, <2>2, <3>1, <3>2
    <2>3. CASE v \notin DOMAIN views
        <3>1. ~IsHeld(v)
            BY <1>1, <2>3 DEF IsHeld, IInv, TypeInv
        <3>2. QED
            BY <1>2, <1>3, <2>1, <2>3, <3>1
    <2>4. QED
        BY <2>2, <2>3
<1>12. QED
    BY <1>5, <1>6, <1>7, <1>8, <1>9, <1>10, <1>11 DEF IInv

(* The one view over the DWARF sections, held in wView.                    *)
LEMMA DwarfViewIInv ==
    ASSUME IInv, DwarfView
    PROVE  IInv'
<1>1. pc = "w_view" /\ pc \in WPhase /\ dwarfViews = {} /\ wView = 0
    BY DEF DwarfView, IInv, RegisteredInv, ResetInv, WPhase
<1>2. RegisteredInv'
    BY <1>1, NoneRegistered DEF DwarfView
<1>3. DirsInv'
    <2>1. UNCHANGED <<dirs, iDir, dDir>>
        BY DEF DwarfView
    <2>2. pc' \in WPhase
        BY DEF DwarfView, WPhase
    <2>3. /\ (pc' = "returned") <=> (pc = "returned")
          /\ (pc' \in DPhase) <=> (pc \in DPhase)
        BY <1>1, <2>2 DEF DPhase, WPhase
    <2>4. QED
        BY <2>1, <2>3, DirsKept
<1>4. CASE "view" \in Faults /\ pc' = "w_end" /\ UNCHANGED <<views, wView>>
    <2>1. ViewsInv' /\ KindInv' /\ DirsInv'
        BY <1>1, <1>4, DwarfStepKept DEF DwarfView, WPhase
    <2>2. TypeInv'
        BY <1>4 DEF DwarfView, IInv, TypeInv, Pcs, DPhase, WPhase
    <2>3. ResetInv' /\ DistinctInv'
        BY <1>1, <1>4 DEF DwarfView, IInv, ResetInv, DistinctInv, DPhase, WPhase
    <2>4. CandidateInv'
        BY <1>1, <1>4 DEF DwarfView, IInv, CandidateInv, DPhase, WPhase, Bundle, DFile, DSrc
    <2>5. QED
        BY <1>2, <2>1, <2>2, <2>3, <2>4 DEF IInv
<1>5. CASE /\ views' = Append(views, [kind |-> "dwarf", src |-> DSrc, rel |-> 0])
           /\ wView' = Len(views) + 1
           /\ pc' = "w_add"
    <2>1. [kind |-> "dwarf", src |-> DSrc, rel |-> 0] \in ViewRec
        BY <1>1, DSrcInSrcs DEF ViewRec
    <2>2. views \in Seq(ViewRec) /\ iCmd \in 0 .. Len(views) /\ wCmd \in 0 .. Len(views)
        BY DEF IInv, TypeInv
    <2>3. /\ views' \in Seq(ViewRec)
          /\ Len(views') = Len(views) + 1
          /\ \A v \in DOMAIN views : views'[v] = views[v]
          /\ views'[Len(views) + 1] = [kind |-> "dwarf", src |-> DSrc, rel |-> 0]
        BY <1>5, <2>1, <2>2
    <2>4. TypeInv'
        BY <1>5, <2>2, <2>3 DEF DwarfView, IInv, TypeInv, Pcs, DPhase, WPhase
    <2>5. KindInv'
        BY <1>5, <2>2, <2>3 DEF DwarfView, IInv, KindInv
    <2>6. ResetInv' /\ CandidateInv' /\ DistinctInv'
        BY <1>1, <1>5, <2>2, <2>3 DEF DwarfView, IInv, ResetInv, CandidateInv, DistinctInv,
                                      DPhase, WPhase, Bundle, DFile, DSrc
    <2>7. ViewsInv'
        <3> SUFFICES ASSUME NEW v \in DOMAIN views'
                     PROVE  views'[v].rel = IF IsHeld(v)' THEN 0 ELSE 1
            BY DEF ViewsInv
        <3>1. IsHeld(v)' <=> IsHeld(v) \/ v = Len(views) + 1
            BY <1>1, <1>5, <2>2 DEF DwarfView, IsHeld, WPhase
        <3>2. CASE v \in DOMAIN views
            <4>1. views[v].rel = IF IsHeld(v) THEN 0 ELSE 1
                BY <3>2 DEF IInv, ViewsInv
            <4>2. QED
                BY <2>2, <2>3, <3>1, <3>2, <4>1
        <3>3. CASE v \notin DOMAIN views
            BY <2>2, <2>3, <3>1, <3>3
        <3>4. QED
            BY <3>2, <3>3
    <2>8. QED
        BY <1>2, <1>3, <2>4, <2>5, <2>6, <2>7 DEF IInv
<1>6. QED
    BY <1>4, <1>5 DEF DwarfView

(* macho_try_dwarf's end label closes the descriptor and releases the     *)
(* commands and DWARF views it holds; a success ends the directory scan.  *)
LEMMA DwarfEndIInv ==
    ASSUME IInv, DwarfEnd
    PROVE  IInv'
<1>1. pc = "w_end" /\ pc \in WPhase /\ pc \in DPhase
    BY DEF DwarfEnd, WPhase, DPhase
<1>2. pc' \in {"d_end", "d_loop"} /\ pc' \in DPhase /\ pc' \notin WPhase
    BY DEF DwarfEnd, DPhase, WPhase
<1>3. views \in Seq(ViewRec) /\ wCmd \in 0 .. Len(views) /\ wView \in 0 .. Len(views)
      /\ iCmd \in 0 .. Len(views)
    BY DEF IInv, TypeInv
<1>4. /\ Released(views, wCmd) \in Seq(ViewRec)
      /\ DOMAIN Released(views, wCmd) = DOMAIN views
      /\ \A k \in DOMAIN views :
            /\ Released(views, wCmd)[k].kind = views[k].kind
            /\ Released(views, wCmd)[k].src = views[k].src
            /\ Released(views, wCmd)[k].rel = IF k = wCmd THEN views[k].rel + 1 ELSE views[k].rel
    BY <1>3, ReleasedFacts
<1>5. Len(Released(views, wCmd)) = Len(views)
    BY <1>3, <1>4
<1>6. /\ views' \in Seq(ViewRec)
      /\ DOMAIN views' = DOMAIN views
      /\ \A k \in DOMAIN views :
            /\ views'[k].kind = views[k].kind
            /\ views'[k].src = views[k].src
            /\ views'[k].rel = views[k].rel + (IF k = wCmd THEN 1 ELSE 0)
                                             + (IF k = wView THEN 1 ELSE 0)
    <2>1. wView \in 0 .. Len(Released(views, wCmd))
        BY <1>3, <1>5
    <2>2. /\ Released(Released(views, wCmd), wView) \in Seq(ViewRec)
          /\ DOMAIN Released(Released(views, wCmd), wView) = DOMAIN Released(views, wCmd)
          /\ \A k \in DOMAIN Released(views, wCmd) :
                /\ Released(Released(views, wCmd), wView)[k].kind = Released(views, wCmd)[k].kind
                /\ Released(Released(views, wCmd), wView)[k].src = Released(views, wCmd)[k].src
                /\ Released(Released(views, wCmd), wView)[k].rel =
                      IF k = wView THEN Released(views, wCmd)[k].rel + 1
                                   ELSE Released(views, wCmd)[k].rel
        BY <1>4, <2>1, ReleasedFacts
    <2>3. \A k \in DOMAIN views : views[k].rel \in Nat
        <3>1. \A k \in DOMAIN views : views[k] \in ViewRec
            BY <1>3
        <3>2. QED
            BY <3>1 DEF ViewRec
    <2>4. QED
        BY <1>4, <2>2, <2>3 DEF DwarfEnd
<1>7. Len(views') = Len(views)
    BY <1>3, <1>6
<1>8. fds' \in Seq(FdRec) /\ DOMAIN fds' = DOMAIN fds
    <2>1. fds \in Seq(FdRec) /\ wFd \in {-1} \cup (0 .. Len(fds))
        BY DEF IInv, TypeInv
    <2>2. CASE wFdValid /\ wFd > 0
        <3>1. fds[wFd] \in FdRec
            BY <2>1, <2>2
        <3>2. fds[wFd].closes + 1 \in Nat
            BY <3>1 DEF FdRec
        <3>3. [fds[wFd] EXCEPT !.closes = @ + 1] \in FdRec
            BY <3>1, <3>2 DEF FdRec
        <3>4. QED
            BY <2>1, <2>2, <3>3 DEF DwarfEnd
    <2>3. CASE ~(wFdValid /\ wFd > 0)
        BY <2>1, <2>3 DEF DwarfEnd
    <2>4. QED
        BY <2>2, <2>3
<1>9. TypeInv'
    <2>1. badCloses' \in Nat
        <3>1. badCloses \in Nat
            BY DEF IInv, TypeInv
        <3>2. QED
            BY <3>1 DEF DwarfEnd
    <2>7. dRet' \in {0, 1} /\ dEntry' \in Nat \ {0}
        <3>1. dRet \in {0, 1} /\ dEntry \in Nat \ {0}
            BY DEF IInv, TypeInv
        <3>2. CASE wRet = 1
            BY <3>1, <3>2 DEF DwarfEnd
        <3>3. CASE wRet # 1
            BY <3>1, <3>3 DEF DwarfEnd
        <3>4. QED
            BY <3>2, <3>3
    <2>2. wFd' \in {-1} \cup (0 .. Len(fds'))
        BY <1>8 DEF DwarfEnd, IInv, TypeInv
    <2>8. UNCHANGED <<bundles, dirs, dwarfViews, ret, iCmd, iDir, iEntry, dDir,
                      wFd, wCmd, wView, wRet>>
        BY DEF DwarfEnd
    <2>3. QED
        BY <1>2, <1>6, <1>7, <1>8, <2>1, <2>2, <2>7, <2>8 DEF IInv, TypeInv, Pcs
<1>10. KindInv'
    BY <1>3, <1>6 DEF DwarfEnd, IInv, KindInv
<1>11. ResetInv' /\ CandidateInv' /\ DistinctInv'
    BY <1>1, <1>2 DEF DwarfEnd, IInv, ResetInv, CandidateInv, DistinctInv, Bundle
<1>12. DirsInv'
    <2>1. UNCHANGED <<dirs, iDir, dDir>>
        BY DEF DwarfEnd
    <2>2. /\ (pc' = "returned") <=> (pc = "returned")
          /\ (pc' \in DPhase) <=> (pc \in DPhase)
        BY <1>1, <1>2
    <2>3. QED
        BY <2>1, <2>2, DirsKept
<1>13. ViewsInv'
    <2> SUFFICES ASSUME NEW v \in DOMAIN views'
                 PROVE  views'[v].rel = IF IsHeld(v)' THEN 0 ELSE 1
        BY DEF ViewsInv
    <2>1. v \in DOMAIN views /\ v # 0
        BY <1>3, <1>6
    <2>2. IsHeld(v)' <=> v = iCmd
        BY <1>2, <2>1 DEF DwarfEnd, IsHeld
    <2>3. IsHeld(v) <=> v = iCmd \/ v = wCmd \/ v = wView
        BY <1>1, <2>1 DEF IsHeld
    <2>4. /\ wCmd # 0 => wCmd # iCmd
          /\ wView # 0 => wView # iCmd /\ wView # wCmd
        BY <1>1 DEF IInv, DistinctInv
    <2>5. views[v].rel = IF IsHeld(v) THEN 0 ELSE 1
        BY <2>1 DEF IInv, ViewsInv
    <2>6. QED
        BY <1>6, <2>1, <2>2, <2>3, <2>4, <2>5
<1>14. RegisteredInv'
    <2>1. dwarfViews # {} => wRet = 1
        BY <1>1 DEF IInv, RegisteredInv
    <2>2. dwarfViews # {} => pc' = "d_end" /\ dRet' = 1
        BY <2>1 DEF DwarfEnd
    <2>3. (\A v \in dwarfViews : MatchingView(views[v]))'
        <3> SUFFICES ASSUME NEW v \in dwarfViews PROVE MatchingView(views[v])'
            BY DEF DwarfEnd
        <3>1. v \in DOMAIN views /\ MatchingView(views[v])
            BY DEF IInv, TypeInv, RegisteredInv
        <3>2. views'[v].kind = views[v].kind /\ views'[v].src = views[v].src
            BY <1>6, <3>1
        <3>3. QED
            BY <3>1, <3>2 DEF DwarfEnd, MatchingView
    <2>4. QED
        BY <2>2, <2>3 DEF DwarfEnd, IInv, RegisteredInv
<1>15. QED
    BY <1>9, <1>10, <1>11, <1>12, <1>13, <1>14 DEF IInv

LEMMA NextIInv == IInv /\ [Next]_vars => IInv'
<1> SUFFICES ASSUME IInv, [Next]_vars PROVE IInv'
    OBVIOUS
<1>1. CASE InitCommands
    BY <1>1, InitCommandsIInv
<1>2. CASE InitOpenDir
    BY <1>2, InitOpenDirIInv
<1>3. CASE InitLoop
    BY <1>3, InitLoopIInv
<1>4. CASE InitEnd
    BY <1>4, InitEndIInv
<1>5. CASE DsymOpenDir
    BY <1>5, DsymOpenDirIInv
<1>6. CASE DsymLoop
    BY <1>6, DsymLoopIInv
<1>7. CASE DsymEnd
    BY <1>7, DsymEndIInv
<1>8. CASE DwarfOpen
    BY <1>8, DwarfOpenIInv
<1>9. CASE DwarfCommands
    BY <1>9, DwarfCommandsIInv
<1>10. CASE DwarfUuid
    BY <1>10, DwarfUuidIInv
<1>11. CASE DwarfSections
    BY <1>11, DwarfSectionsIInv
<1>12. CASE DwarfView
    BY <1>12, DwarfViewIInv
<1>13. CASE DwarfAdd
    BY <1>13, DwarfAddIInv
<1>14. CASE DwarfEnd
    BY <1>14, DwarfEndIInv
<1>15. CASE UNCHANGED vars
    <2>0. /\ exe' = exe /\ bundles' = bundles /\ views' = views /\ fds' = fds
          /\ badCloses' = badCloses /\ dirs' = dirs /\ dwarfViews' = dwarfViews
          /\ pc' = pc /\ ret' = ret /\ iCmd' = iCmd /\ iDir' = iDir
          /\ iEntry' = iEntry /\ dDir' = dDir /\ dEntry' = dEntry /\ dRet' = dRet
          /\ wFd' = wFd /\ wFdValid' = wFdValid /\ wCmd' = wCmd /\ wView' = wView
          /\ wRet' = wRet
        BY <1>15 DEF vars
    <2>1a. TypeInv' /\ ResetInv' /\ KindInv'
        BY <2>0 DEF IInv, TypeInv, ResetInv, KindInv
    <2>1b. CandidateInv' /\ DistinctInv'
        BY <2>0 DEF IInv, CandidateInv, DistinctInv, Bundle, DFile, DSrc
    <2>1c. RegisteredInv'
        BY <2>0 DEF IInv, RegisteredInv, MatchingView
    <2>1. /\ TypeInv' /\ ResetInv' /\ KindInv' /\ CandidateInv' /\ DistinctInv'
          /\ RegisteredInv'
        BY <2>1a, <2>1b, <2>1c
    <2>2. /\ (pc' = "returned") <=> (pc = "returned")
          /\ (pc' \in WPhase) <=> (pc \in WPhase)
          /\ (pc' \in DPhase) <=> (pc \in DPhase)
        BY <1>15 DEF vars
    <2>3. ViewsInv' /\ DirsInv'
        BY <1>15, <2>2, ViewsKept, DirsKept DEF vars
    <2>4. QED
        BY <2>1, <2>3 DEF IInv
<1>16. QED
    BY <1>1, <1>2, <1>3, <1>4, <1>5, <1>6, <1>7, <1>8, <1>9, <1>10, <1>11,
       <1>12, <1>13, <1>14, <1>15 DEF Next

LEMMA IInvHolds == Spec => []IInv
BY InitIInv, NextIInv, PTL DEF Spec

(* Every state backtrace_initialize and its callees reach is well typed:   *)
(* every view record has its kind, source and count, and each commands or *)
(* DWARF local names a view of its kind.                                   *)
THEOREM TypeCorrect == Spec => []TypeOK
<1>1. IInv => TypeOK
    <2> SUFFICES ASSUME IInv PROVE TypeOK
        OBVIOUS
    <2>1. views \in Seq([kind : {"header", "commands", "dwarf"}, src : Srcs, rel : Nat])
          /\ fds \in Seq([src : Srcs, closes : Nat])
        BY DEF IInv, TypeInv, ViewRec, FdRec
    <2>2. /\ iCmd = 0 \/ (iCmd \in DOMAIN views /\ views[iCmd].kind = "commands")
          /\ wCmd = 0 \/ (wCmd \in DOMAIN views /\ views[wCmd].kind = "commands")
          /\ wView = 0 \/ (wView \in DOMAIN views /\ views[wView].kind = "dwarf")
        BY DEF IInv, TypeInv, KindInv
    <2>3. QED
        BY <2>1, <2>2 DEF IInv, TypeInv, TypeOK
<1>2. QED
    BY <1>1, IInvHolds, PTL

(* When backtrace_initialize returns, every view that it, macho_get_commands *)
(* and macho_try_dwarf mapped has been released exactly once, on every     *)
(* path and for every bundle layout and failure: the views it does not     *)
(* hand to backtrace_dwarf_add are never leaked nor released twice.        *)
THEOREM ViewsReleasedOnReturn == Spec => []TransientViewsReleased
<1>1. IInv => TransientViewsReleased
    <2> SUFFICES ASSUME IInv, pc = "returned", NEW v \in DOMAIN views
                 PROVE  views[v].rel = 1
        BY DEF TransientViewsReleased
    <2>1. ~IsHeld(v)
        BY DEF IsHeld, WPhase
    <2>2. QED
        BY <2>1 DEF IInv, ViewsInv
<1>2. QED
    BY <1>1, IInvHolds, PTL

(* Every directory backtrace_initialize and macho_try_dsym open is closed *)
(* exactly once by the return, also when a DWARF file is found and both   *)
(* scans stop early.                                                       *)
THEOREM DirsClosedOnReturn == Spec => []DirsClosed
<1>1. IInv => DirsClosed
    <2> SUFFICES ASSUME IInv, pc = "returned", NEW k \in DOMAIN dirs
                 PROVE  dirs[k] = 1
        BY DEF DirsClosed
    <2>1. ~IsOpen(k)
        BY DEF IsOpen, DPhase, WPhase
    <2>2. QED
        BY <2>1 DEF IInv, DirsInv
<1>2. QED
    BY <1>1, IInvHolds, PTL

(* At most one DWARF view is ever registered, and it maps a file of a      *)
(* *.dSYM bundle whose LC_UUID matches the executable's: the UUID test and *)
(* the early exits of both directory scans hold for every bundle layout.   *)
THEOREM OneMatchingDwarf == Spec => []DwarfFromMatchingDsym
<1>1. IInv => DwarfFromMatchingDsym
    BY DEF IInv, RegisteredInv, MatchingView, DwarfFromMatchingDsym
<1>2. QED
    BY <1>1, IInvHolds, PTL

=============================================================================
