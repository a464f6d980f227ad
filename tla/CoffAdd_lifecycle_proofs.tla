----------------------- MODULE CoffAdd_lifecycle_proofs -----------------------
(***************************************************************************)
(* Proofs of coff_add's resource properties for every set of files, every *)
(* file system and every set of failures: what each frame of the          *)
(* recursion holds, that a returning call has closed its descriptor and    *)
(* released its section and symbol views, that a view handed to            *)
(* backtrace_dwarf_add is never released, and that a successful return    *)
(* has set fileline_fn.                                                    *)
(***************************************************************************)
EXTENDS CoffAdd_proofs, SequenceTheorems

(* The views a frame may release: its view locals.                         *)
Locals(fr) == {fr.sects, fr.syms, fr.str, fr.dl, fr.alt, fr.dbg}

(* The labels a call reaches once AddSyminfo has released its section and *)
(* symbol views.                                                           *)
PastSyminfo ==
    {"TryDebuglink", "AfterDebuglink", "TryDebugaltlink", "AfterDebugaltlink",
     "GetDebugView", "DwarfAdd"}

(* coff_add returns 1 only after some call of the recursion has set        *)
(* fileline_fn, and nothing resets it.                                     *)
RetFileline ==
    ret = 1 => fileline # "unset"

(* Each frame's descriptor has been opened, and once the frame has cleared *)
(* descriptor_valid it has been closed.                                    *)
FdsHeld ==
    \A i \in DOMAIN stack :
        /\ stack[i].fd \in DOMAIN fds
        /\ ~stack[i].desc => fds[stack[i].fd].closes >= 1

(* Every view local names a view obtained so far; the views of a caller    *)
(* were all obtained before those of its callees; a call past AddSyminfo   *)
(* holds no section or symbol view.                                        *)
LocalsInRange ==
    \A i \in DOMAIN stack : Locals(stack[i]) \subseteq 0 .. Len(views)
LocalsOrdered ==
    \A i, j \in DOMAIN stack :
        i < j => \A a \in Locals(stack[i]) \ {0}, b \in Locals(stack[j]) \ {0} : a < b
TransientCleared ==
    \A i \in DOMAIN stack :
        stack[i].pc \in PastSyminfo => stack[i].sects = 0 /\ stack[i].syms = 0

(* A registered DWARF view is a view no frame can release.                 *)
DwarfUnheld ==
    \A v \in dwarfViews :
        /\ v \in DOMAIN views
        /\ \A i \in DOMAIN stack : v \notin Locals(stack[i])

(* A call at DwarfAdd holds the live view of its debug sections.           *)
DbgLive ==
    \A i \in DOMAIN stack :
        stack[i].pc = "DwarfAdd" =>
            stack[i].dbg \in DOMAIN views /\ views[stack[i].dbg].rel = 0

(* A call holds no section view before GetSections obtains one, and no    *)
(* symbol view before GetSymtab does; a file without a symbol table never *)
(* gets one, so AddSyminfo's "no symbols" branch has none to release.      *)
EarlyFrame(fsys, fr) ==
    /\ fr.pc \in {"GetFileHeader", "GetSections"} => fr.sects = 0
    /\ fr.pc \in {"GetFileHeader", "GetSections", "GetSymtab"} => fr.syms = 0
    /\ fr.pc \in {"GetDebuglink", "GetDebugaltlink", "AddSyminfo"}
       /\ fsys[fr.file].syms = "none" => fr.syms = 0
SymsUnset ==
    \A i \in DOMAIN stack : EarlyFrame(fs, stack[i])

(* The inductive invariant.                                                *)
IInv ==
    /\ TypeOK
    /\ RetFileline
    /\ FdsHeld /\ DescriptorClosedOnReturn
    /\ LocalsInRange /\ LocalsOrdered /\ TransientCleared /\ TransientViewsReleased
    /\ DwarfUnheld /\ RegisteredDwarfViewLive /\ DbgLive
    /\ SymsUnset

-----------------------------------------------------------------------------
(* How a step may change the descriptors and the views: descriptors are   *)
(* only opened and closed, the views only obtained and released, those in *)
(* S being released once more.                                             *)
FdsGrow ==
    /\ fds' \in Seq(FdRec) /\ Len(fds) <= Len(fds')
    /\ \A d \in DOMAIN fds : fds'[d].closes >= fds[d].closes
ViewsGrow(S) ==
    /\ views' \in Seq(ViewRec) /\ Len(views) <= Len(views')
    /\ \A v \in DOMAIN views :
          /\ views'[v].kind = views[v].kind
          /\ views'[v].rel = IF v \in S THEN views[v].rel + 1 ELSE views[v].rel

(* The shapes of the stack after a step of the innermost call.             *)
LEMMA StackTopShape ==
    ASSUME stack \in Seq(Frame), stack # << >>, NEW fr \in Frame,
           stack' = [stack EXCEPT ![Len(stack)] = fr]
    PROVE  /\ stack' \in Seq(Frame) /\ Len(stack') = Len(stack)
           /\ DOMAIN stack' = DOMAIN stack
           /\ stack'[Len(stack)] = fr
           /\ \A i \in 1 .. Len(stack) - 1 : stack'[i] = stack[i]
BY SetTopType

(* Dropping the last element of a non-empty sequence of frames.          *)
LEMMA FrontFacts ==
    ASSUME NEW st \in Seq(Frame), st # << >>
    PROVE  /\ SubSeq(st, 1, Len(st) - 1) \in Seq(Frame)
           /\ Len(SubSeq(st, 1, Len(st) - 1)) = Len(st) - 1
           /\ \A i \in 1 .. Len(st) - 1 : SubSeq(st, 1, Len(st) - 1)[i] = st[i]
<1>1. \A i \in 1 .. Len(st) - 1 : st[i] \in Frame
    OBVIOUS
<1>2. Len(st) - 1 \in Int
    OBVIOUS
<1>3. /\ SubSeq(st, 1, Len(st) - 1) \in Seq(Frame)
      /\ Len(SubSeq(st, 1, Len(st) - 1)) = IF 1 <= Len(st) - 1 THEN Len(st) - 1 ELSE 0
      /\ \A i \in 1 .. Len(st) - 1 : SubSeq(st, 1, Len(st) - 1)[i] = st[i]
    BY <1>1, <1>2, SubSeqProperties
<1>4. \A x : x = (IF 1 <= Len(st) - 1 THEN Len(st) - 1 ELSE 0) => x = Len(st) - 1
    <2>1. Len(st) \in Nat \ {0}
        OBVIOUS
    <2>2. QED
        BY <2>1
<1>5. QED
    BY <1>3, <1>4, Zenon

LEMMA StackPopShape ==
    ASSUME stack \in Seq(Frame), stack # << >>,
           stack' = SubSeq(stack, 1, Len(stack) - 1)
    PROVE  /\ stack' \in Seq(Frame) /\ Len(stack') = Len(stack) - 1
           /\ DOMAIN stack' = 1 .. Len(stack) - 1
           /\ \A i \in 1 .. Len(stack) - 1 : stack'[i] = stack[i]
BY FrontFacts

LEMMA StackPushShape ==
    ASSUME stack \in Seq(Frame), stack # << >>, NEW top \in Frame, NEW new \in Frame,
           stack' = Append([stack EXCEPT ![Len(stack)] = top], new)
    PROVE  /\ stack' \in Seq(Frame) /\ Len(stack') = Len(stack) + 1
           /\ DOMAIN stack' = 1 .. Len(stack) + 1
           /\ stack'[Len(stack)] = top /\ stack'[Len(stack) + 1] = new
           /\ \A i \in 1 .. Len(stack) - 1 : stack'[i] = stack[i]
<1>1. [stack EXCEPT ![Len(stack)] = top] \in Seq(Frame)
    BY SetTopType
<1>2. QED
    BY <1>1

(* Releasing the views in S: the kinds stay, the counts of S grow by one.  *)
LEMMA ReleasedGrow ==
    ASSUME views \in Seq(ViewRec), NEW S, views' = Released(views, S)
    PROVE  ViewsGrow(S) /\ Len(views') = Len(views)
<1>1. views' \in Seq(ViewRec)
    BY ReleasedType
<1>2. QED
    BY <1>1 DEF ViewsGrow, Released

(* Closing the descriptors in S.                                           *)
LEMMA ClosedGrow ==
    ASSUME fds \in Seq(FdRec), NEW S, fds' = Closed(fds, S)
    PROVE  /\ FdsGrow /\ Len(fds') = Len(fds)
           /\ \A d \in S \cap DOMAIN fds : fds'[d].closes >= 1
<1>1. fds' \in Seq(FdRec)
    BY ClosedType
<1>2. \A d \in DOMAIN fds : fds[d].closes \in Nat
    <2>1. \A d \in DOMAIN fds : fds[d] \in FdRec
        OBVIOUS
    <2>2. QED
        BY <2>1 DEF FdRec
<1>3. QED
    BY <1>1, <1>2 DEF FdsGrow, Closed

-----------------------------------------------------------------------------
(* A step that replaces the innermost frame by fr: it keeps the frame's    *)
(* descriptor, closing it when it clears descriptor_valid; it opens only   *)
(* descriptors it closes again at once; it releases only views of its own, *)
(* the views S, and only keeps, in a view local, a view it held or one it   *)
(* obtains now; a section or symbol view it drops from its locals is       *)
(* released; past AddSyminfo it holds none; at DwarfAdd it holds its live   *)
(* debug view; and it registers no DWARF view.                             *)
TopStepHyp(fr, S) ==
    /\ stack # << >> /\ fr \in Frame
    /\ stack' = [stack EXCEPT ![Len(stack)] = fr]
    /\ fr.fd = Top.fd
    /\ fr.desc = Top.desc \/ fds'[Top.fd].closes >= 1
    /\ FdsGrow /\ \A d \in DOMAIN fds' \ DOMAIN fds : fds'[d].closes >= 1
    /\ S \subseteq Locals(Top) \ {0} /\ ViewsGrow(S)
    /\ Locals(fr) \subseteq Locals(Top) \cup {0} \cup (Len(views) + 1 .. Len(views'))
    /\ fr.pc \in PastSyminfo => fr.sects = 0 /\ fr.syms = 0
    /\ {Top.sects, Top.syms} \ {fr.sects, fr.syms, 0} \subseteq S
    /\ \A v \in DOMAIN views' \ DOMAIN views :
          views'[v].kind \in {"sects", "syms"} => v \in {fr.sects, fr.syms}
    /\ fr.pc = "DwarfAdd" => fr.dbg \in DOMAIN views' /\ views'[fr.dbg].rel = 0
    /\ dwarfViews' = dwarfViews

LEMMA TopFds ==
    ASSUME IInv, NEW fr, NEW S, TopStepHyp(fr, S)
    PROVE  FdsHeld' /\ DescriptorClosedOnReturn'
<1>1. /\ stack \in Seq(Frame) /\ fds \in Seq(FdRec) /\ stack # << >> /\ fr \in Frame
      /\ stack' = [stack EXCEPT ![Len(stack)] = fr]
    BY DEF IInv, TypeOK, TopStepHyp
<1>2. /\ stack' \in Seq(Frame) /\ DOMAIN stack' = DOMAIN stack
      /\ stack'[Len(stack)] = fr
      /\ \A i \in 1 .. Len(stack) - 1 : stack'[i] = stack[i]
    BY <1>1, StackTopShape
<1>3. /\ fds' \in Seq(FdRec) /\ DOMAIN fds \subseteq DOMAIN fds'
      /\ \A d \in DOMAIN fds : fds'[d].closes >= fds[d].closes
      /\ \A d \in DOMAIN fds' \ DOMAIN fds : fds'[d].closes >= 1
    BY <1>1 DEF TopStepHyp, FdsGrow
<1>4. /\ \A d \in DOMAIN fds : fds[d].closes \in Nat
      /\ \A d \in DOMAIN fds' : fds'[d].closes \in Nat
    <2>1. \A d \in DOMAIN fds : fds[d] \in FdRec
        BY <1>1
    <2>2. \A d \in DOMAIN fds' : fds'[d] \in FdRec
        BY <1>3
    <2>3. QED
        BY <2>1, <2>2 DEF FdRec
<1>5. \A i \in DOMAIN stack : stack'[i].fd = stack[i].fd
    BY <1>1, <1>2 DEF TopStepHyp, Top
<1>6. FdsHeld'
    <2> SUFFICES ASSUME NEW i \in DOMAIN stack'
                 PROVE  /\ stack'[i].fd \in DOMAIN fds'
                        /\ ~stack'[i].desc => fds'[stack'[i].fd].closes >= 1
        BY DEF FdsHeld
    <2>1. stack[i].fd \in DOMAIN fds /\ (~stack[i].desc => fds[stack[i].fd].closes >= 1)
        BY <1>2 DEF IInv, FdsHeld
    <2>2. CASE i = Len(stack)
        <3>1. stack'[i] = fr /\ stack[i] = Top /\ fr.fd = Top.fd
            BY <1>2, <2>2 DEF TopStepHyp, Top
        <3>2. fr.desc = Top.desc \/ fds'[Top.fd].closes >= 1
            BY DEF TopStepHyp
        <3>3. stack'[i].fd \in DOMAIN fds'
            BY <1>3, <2>1, <3>1
        <3>4. ~stack'[i].desc => fds'[stack'[i].fd].closes >= 1
            BY <1>3, <1>4, <2>1, <3>1, <3>2
        <3>5. QED
            BY <3>3, <3>4
    <2>3. CASE i # Len(stack)
        <3>1. stack'[i] = stack[i]
            BY <1>1, <1>2, <2>3
        <3>2. stack'[i].fd \in DOMAIN fds'
            BY <1>3, <2>1, <3>1
        <3>3. QED
            BY <1>3, <1>4, <2>1, <3>1, <3>2
    <2>4. QED
        BY <2>2, <2>3
<1>7. DescriptorClosedOnReturn'
    <2> SUFFICES ASSUME NEW d \in DOMAIN fds',
                        \A i \in DOMAIN stack' : stack'[i].fd # d
                 PROVE  fds'[d].closes >= 1
        BY DEF DescriptorClosedOnReturn
    <2>1. CASE d \in DOMAIN fds
        <3>1. \A i \in DOMAIN stack : stack[i].fd # d
            BY <1>2, <1>5
        <3>2. fds[d].closes >= 1
            BY <2>1, <3>1 DEF IInv, DescriptorClosedOnReturn
        <3>3. QED
            BY <1>3, <1>4, <2>1, <3>2
    <2>2. CASE d \notin DOMAIN fds
        BY <1>3, <2>2
    <2>3. QED
        BY <2>1, <2>2
<1>8. QED
    BY <1>6, <1>7

LEMMA TopLocals ==
    ASSUME IInv, NEW fr, NEW S, TopStepHyp(fr, S)
    PROVE  LocalsInRange' /\ LocalsOrdered' /\ TransientCleared'
<1>1. /\ stack \in Seq(Frame) /\ views \in Seq(ViewRec) /\ stack # << >> /\ fr \in Frame
      /\ stack' = [stack EXCEPT ![Len(stack)] = fr]
    BY DEF IInv, TypeOK, TopStepHyp
<1>2. /\ stack' \in Seq(Frame) /\ DOMAIN stack' = DOMAIN stack
      /\ stack'[Len(stack)] = fr
      /\ \A i \in 1 .. Len(stack) - 1 : stack'[i] = stack[i]
    BY <1>1, StackTopShape
<1>3. /\ Len(views) <= Len(views') /\ Len(views') \in Nat
      /\ Locals(fr) \subseteq Locals(Top) \cup {0} \cup (Len(views) + 1 .. Len(views'))
    BY DEF TopStepHyp, ViewsGrow
<1>4. \A i \in DOMAIN stack : Locals(stack[i]) \subseteq 0 .. Len(views)
    BY DEF IInv, LocalsInRange
<1>5. Top = stack[Len(stack)] /\ Len(stack) \in DOMAIN stack
    BY <1>1 DEF Top
<1>6. LocalsInRange'
    <2> SUFFICES ASSUME NEW i \in DOMAIN stack'
                 PROVE  Locals(stack'[i]) \subseteq 0 .. Len(views')
        BY DEF LocalsInRange
    <2>1. CASE i = Len(stack)
        BY <1>2, <1>3, <1>4, <1>5, <2>1
    <2>2. CASE i # Len(stack)
        BY <1>1, <1>2, <1>3, <1>4, <2>2
    <2>3. QED
        BY <2>1, <2>2
<1>7. LocalsOrdered'
    <2> SUFFICES ASSUME NEW i \in DOMAIN stack', NEW j \in DOMAIN stack', i < j,
                        NEW a \in Locals(stack'[i]) \ {0}, NEW b \in Locals(stack'[j]) \ {0}
                 PROVE  a < b
        BY DEF LocalsOrdered
    <2>1. i \in 1 .. Len(stack) - 1 /\ stack'[i] = stack[i]
        BY <1>1, <1>2
    <2>2. a \in 0 .. Len(views)
        BY <1>2, <1>4, <2>1
    <2>3. CASE j = Len(stack)
        <3>1. b \in Locals(Top) \/ b \in Len(views) + 1 .. Len(views')
            BY <1>2, <1>3, <2>3
        <3>2. CASE b \in Locals(Top)
            BY <1>2, <1>5, <2>1, <2>3, <3>2 DEF IInv, LocalsOrdered
        <3>3. CASE b \in Len(views) + 1 .. Len(views')
            BY <2>2, <3>3
        <3>4. QED
            BY <3>1, <3>2, <3>3
    <2>4. CASE j # Len(stack)
        <3>1. stack'[j] = stack[j]
            BY <1>1, <1>2, <2>4
        <3>2. QED
            BY <1>2, <2>1, <3>1 DEF IInv, LocalsOrdered
    <2>5. QED
        BY <2>3, <2>4
<1>8. TransientCleared'
    <2> SUFFICES ASSUME NEW i \in DOMAIN stack', stack'[i].pc \in PastSyminfo
                 PROVE  stack'[i].sects = 0 /\ stack'[i].syms = 0
        BY DEF TransientCleared
    <2>1. CASE i = Len(stack)
        BY <1>2, <2>1 DEF TopStepHyp
    <2>2. CASE i # Len(stack)
        BY <1>1, <1>2, <2>2 DEF IInv, TransientCleared
    <2>3. QED
        BY <2>1, <2>2
<1>9. QED
    BY <1>6, <1>7, <1>8

LEMMA TopViews ==
    ASSUME IInv, NEW fr, NEW S, TopStepHyp(fr, S)
    PROVE  TransientViewsReleased' /\ DwarfUnheld' /\ RegisteredDwarfViewLive' /\ DbgLive'
<1>1. /\ stack \in Seq(Frame) /\ views \in Seq(ViewRec) /\ stack # << >> /\ fr \in Frame
      /\ stack' = [stack EXCEPT ![Len(stack)] = fr]
    BY DEF IInv, TypeOK, TopStepHyp
<1>2. /\ stack' \in Seq(Frame) /\ DOMAIN stack' = DOMAIN stack
      /\ stack'[Len(stack)] = fr
      /\ \A i \in 1 .. Len(stack) - 1 : stack'[i] = stack[i]
    BY <1>1, StackTopShape
<1>3. /\ views' \in Seq(ViewRec) /\ Len(views) <= Len(views')
      /\ \A v \in DOMAIN views :
            /\ views'[v].kind = views[v].kind
            /\ views'[v].rel = IF v \in S THEN views[v].rel + 1 ELSE views[v].rel
      /\ S \subseteq Locals(Top) \ {0}
      /\ Locals(fr) \subseteq Locals(Top) \cup {0} \cup (Len(views) + 1 .. Len(views'))
      /\ dwarfViews' = dwarfViews
    BY DEF TopStepHyp, ViewsGrow
<1>4. \A v \in DOMAIN views : views[v].rel \in Nat
    <2>1. \A v \in DOMAIN views : views[v] \in ViewRec
        BY <1>1
    <2>2. QED
        BY <2>1 DEF ViewRec
<1>5. Top = stack[Len(stack)] /\ Len(stack) \in DOMAIN stack
    BY <1>1 DEF Top
<1>6. TransientViewsReleased'
    <2> SUFFICES ASSUME NEW v \in DOMAIN views', views'[v].kind \in {"sects", "syms"},
                        views'[v].rel = 0
                 PROVE  \E i \in DOMAIN stack' : v \in {stack'[i].sects, stack'[i].syms}
        BY DEF TransientViewsReleased, Live
    <2>1. CASE v \notin DOMAIN views
        <3>1. v \in {fr.sects, fr.syms}
            BY <2>1 DEF TopStepHyp
        <3>2. QED
            BY <1>2, <1>5, <3>1
    <2>2. CASE v \in DOMAIN views
        <3>1. v \notin S /\ views[v].rel = 0 /\ views[v].kind \in {"sects", "syms"}
            BY <1>3, <1>4, <2>2
        <3>2. PICK i \in DOMAIN stack : v \in {stack[i].sects, stack[i].syms}
            BY <2>2, <3>1 DEF IInv, TransientViewsReleased, Live
        <3>3. CASE i = Len(stack)
            <4>1. v \in {Top.sects, Top.syms} /\ v # 0
                BY <1>1, <1>5, <2>2, <3>2, <3>3
            <4>2. {Top.sects, Top.syms} \ {fr.sects, fr.syms, 0} \subseteq S
                BY DEF TopStepHyp
            <4>3. v \in {fr.sects, fr.syms}
                BY <3>1, <4>1, <4>2
            <4>4. QED
                BY <1>2, <1>5, <4>3
        <3>4. CASE i # Len(stack)
            BY <1>1, <1>2, <3>2, <3>4
        <3>5. QED
            BY <3>3, <3>4
    <2>3. QED
        BY <2>1, <2>2
<1>7. ASSUME NEW v \in dwarfViews
      PROVE  /\ v \in DOMAIN views /\ views[v].rel = 0 /\ v \notin Locals(Top)
             /\ \A i \in DOMAIN stack : v \notin Locals(stack[i])
    BY <1>5 DEF IInv, DwarfUnheld, RegisteredDwarfViewLive, Live
<1>8. DwarfUnheld'
    <2> SUFFICES ASSUME NEW v \in dwarfViews'
                 PROVE  /\ v \in DOMAIN views'
                        /\ \A i \in DOMAIN stack' : v \notin Locals(stack'[i])
        BY DEF DwarfUnheld
    <2>1. v \in dwarfViews /\ v \in 1 .. Len(views)
        BY <1>1, <1>3, <1>7
    <2>2. v \in DOMAIN views'
        BY <1>3, <2>1
    <2>3. ASSUME NEW i \in DOMAIN stack' PROVE v \notin Locals(stack'[i])
        <3>1. CASE i = Len(stack)
            BY <1>2, <1>3, <1>7, <2>1, <3>1
        <3>2. CASE i # Len(stack)
            BY <1>1, <1>2, <1>7, <2>1, <3>2
        <3>3. QED
            BY <3>1, <3>2
    <2>4. QED
        BY <2>2, <2>3
<1>9. RegisteredDwarfViewLive'
    <2> SUFFICES ASSUME NEW v \in dwarfViews'
                 PROVE  v \in DOMAIN views' /\ views'[v].rel = 0
        BY DEF RegisteredDwarfViewLive, Live
    <2>1. v \in dwarfViews /\ v \notin S
        BY <1>3, <1>7
    <2>2. QED
        BY <1>1, <1>3, <1>7, <2>1
<1>10. DbgLive'
    <2> SUFFICES ASSUME NEW i \in DOMAIN stack', stack'[i].pc = "DwarfAdd"
                 PROVE  stack'[i].dbg \in DOMAIN views' /\ views'[stack'[i].dbg].rel = 0
        BY DEF DbgLive
    <2>1. CASE i = Len(stack)
        BY <1>2, <2>1 DEF TopStepHyp
    <2>2. CASE i # Len(stack)
        <3>1. i \in 1 .. Len(stack) - 1 /\ stack'[i] = stack[i]
            BY <1>1, <1>2, <2>2
        <3>2. stack[i].dbg \in DOMAIN views /\ views[stack[i].dbg].rel = 0
            BY <1>2, <3>1 DEF IInv, DbgLive
        <3>3. stack[i].dbg \in Locals(stack[i]) \ {0}
            BY <1>1, <3>2 DEF Locals
        <3>4. \A b \in Locals(Top) \ {0} : stack[i].dbg < b
            BY <1>5, <3>1, <3>3 DEF IInv, LocalsOrdered
        <3>5. stack[i].dbg \notin S
            BY <1>3, <1>4, <3>2, <3>4
        <3>6. QED
            BY <1>1, <1>3, <3>1, <3>2, <3>5
    <2>3. QED
        BY <2>1, <2>2
<1>11. QED
    BY <1>6, <1>8, <1>9, <1>10

-----------------------------------------------------------------------------
(* A step that returns from the innermost call: its descriptor has been    *)
(* closed, it releases only views of its own, the views S, among them its  *)
(* section and symbol views, and it may register its own debug view, at    *)
(* DwarfAdd and without releasing it.                                      *)
PopStepHyp(S) ==
    /\ stack # << >>
    /\ stack' = SubSeq(stack, 1, Len(stack) - 1)
    /\ FdsGrow /\ Len(fds') = Len(fds) /\ fds'[Top.fd].closes >= 1
    /\ S \subseteq Locals(Top) \ {0} /\ ViewsGrow(S) /\ Len(views') = Len(views)
    /\ {Top.sects, Top.syms} \ {0} \subseteq S
    /\ dwarfViews' \subseteq dwarfViews \cup {Top.dbg}
    /\ Top.dbg \in dwarfViews' \ dwarfViews => Top.pc = "DwarfAdd" /\ Top.dbg \notin S

LEMMA PopFds ==
    ASSUME IInv, NEW S, PopStepHyp(S)
    PROVE  FdsHeld' /\ DescriptorClosedOnReturn'
<1>1. /\ stack \in Seq(Frame) /\ fds \in Seq(FdRec) /\ stack # << >>
      /\ stack' = SubSeq(stack, 1, Len(stack) - 1)
    BY DEF IInv, TypeOK, PopStepHyp
<1>2. /\ DOMAIN stack' = 1 .. Len(stack) - 1
      /\ \A i \in 1 .. Len(stack) - 1 : stack'[i] = stack[i]
    BY <1>1, StackPopShape
<1>3. /\ fds' \in Seq(FdRec) /\ DOMAIN fds' = DOMAIN fds
      /\ \A d \in DOMAIN fds : fds'[d].closes >= fds[d].closes
      /\ fds'[Top.fd].closes >= 1
    BY <1>1 DEF PopStepHyp, FdsGrow
<1>4. /\ \A d \in DOMAIN fds : fds[d].closes \in Nat
      /\ \A d \in DOMAIN fds' : fds'[d].closes \in Nat
    <2>1. \A d \in DOMAIN fds : fds[d] \in FdRec
        BY <1>1
    <2>2. \A d \in DOMAIN fds' : fds'[d] \in FdRec
        BY <1>3
    <2>3. QED
        BY <2>1, <2>2 DEF FdRec
<1>5. FdsHeld'
    <2> SUFFICES ASSUME NEW i \in DOMAIN stack'
                 PROVE  /\ stack'[i].fd \in DOMAIN fds'
                        /\ ~stack'[i].desc => fds'[stack'[i].fd].closes >= 1
        BY DEF FdsHeld
    <2>1. i \in DOMAIN stack /\ stack'[i] = stack[i]
        BY <1>1, <1>2
    <2>2. stack[i].fd \in DOMAIN fds /\ (~stack[i].desc => fds[stack[i].fd].closes >= 1)
        BY <2>1 DEF IInv, FdsHeld
    <2>3. QED
        BY <1>3, <1>4, <2>1, <2>2
<1>6. DescriptorClosedOnReturn'
    <2> SUFFICES ASSUME NEW d \in DOMAIN fds',
                        \A i \in DOMAIN stack' : stack'[i].fd # d
                 PROVE  fds'[d].closes >= 1
        BY DEF DescriptorClosedOnReturn
    <2>1. CASE d = Top.fd
        BY <1>3, <2>1
    <2>2. CASE d # Top.fd
        <3>1. \A i \in DOMAIN stack : stack[i].fd # d
            <4> SUFFICES ASSUME NEW i \in DOMAIN stack PROVE stack[i].fd # d
                OBVIOUS
            <4>1. CASE i = Len(stack)
                BY <2>2, <4>1 DEF Top
            <4>2. CASE i # Len(stack)
                <5>1. i \in DOMAIN stack' /\ stack'[i] = stack[i]
                    BY <1>1, <1>2, <4>2
                <5>2. QED
                    BY <5>1
            <4>3. QED
                BY <4>1, <4>2
        <3>2. fds[d].closes >= 1
            BY <1>3, <3>1 DEF IInv, DescriptorClosedOnReturn
        <3>3. QED
            BY <1>3, <1>4, <3>2
    <2>3. QED
        BY <2>1, <2>2
<1>7. QED
    BY <1>5, <1>6

LEMMA PopLocals ==
    ASSUME IInv, NEW S, PopStepHyp(S)
    PROVE  LocalsInRange' /\ LocalsOrdered' /\ TransientCleared'
<1>1. /\ stack \in Seq(Frame) /\ stack # << >>
      /\ stack' = SubSeq(stack, 1, Len(stack) - 1)
      /\ Len(views') = Len(views)
    BY DEF IInv, TypeOK, PopStepHyp
<1>2. /\ DOMAIN stack' = 1 .. Len(stack) - 1
      /\ \A i \in 1 .. Len(stack) - 1 : stack'[i] = stack[i]
    BY <1>1, StackPopShape
<1>3. DOMAIN stack' \subseteq DOMAIN stack
    BY <1>1, <1>2
<1>4. LocalsInRange'
    BY <1>1, <1>2, <1>3 DEF IInv, LocalsInRange
<1>5. LocalsOrdered'
    BY <1>2, <1>3 DEF IInv, LocalsOrdered
<1>6. TransientCleared'
    BY <1>2, <1>3 DEF IInv, TransientCleared
<1>7. QED
    BY <1>4, <1>5, <1>6

LEMMA PopViews ==
    ASSUME IInv, NEW S, PopStepHyp(S)
    PROVE  TransientViewsReleased' /\ DwarfUnheld' /\ RegisteredDwarfViewLive' /\ DbgLive'
<1>1. /\ stack \in Seq(Frame) /\ views \in Seq(ViewRec) /\ stack # << >>
      /\ stack' = SubSeq(stack, 1, Len(stack) - 1)
    BY DEF IInv, TypeOK, PopStepHyp
<1>2. /\ DOMAIN stack' = 1 .. Len(stack) - 1
      /\ \A i \in 1 .. Len(stack) - 1 : stack'[i] = stack[i]
    BY <1>1, StackPopShape
<1>3. /\ views' \in Seq(ViewRec) /\ DOMAIN views' = DOMAIN views
      /\ \A v \in DOMAIN views :
            /\ views'[v].kind = views[v].kind
            /\ views'[v].rel = IF v \in S THEN views[v].rel + 1 ELSE views[v].rel
      /\ S \subseteq Locals(Top) \ {0}
      /\ {Top.sects, Top.syms} \ {0} \subseteq S
      /\ dwarfViews' \subseteq dwarfViews \cup {Top.dbg}
      /\ Top.dbg \in dwarfViews' \ dwarfViews => Top.pc = "DwarfAdd" /\ Top.dbg \notin S
    BY <1>1 DEF PopStepHyp, ViewsGrow
<1>4. \A v \in DOMAIN views : views[v].rel \in Nat
    <2>1. \A v \in DOMAIN views : views[v] \in ViewRec
        BY <1>1
    <2>2. QED
        BY <2>1 DEF ViewRec
<1>5. Top = stack[Len(stack)] /\ Len(stack) \in DOMAIN stack
    BY <1>1 DEF Top
<1>6. \A i \in 1 .. Len(stack) - 1 : \A a \in Locals(stack[i]) \ {0} :
          \A b \in Locals(Top) \ {0} : a < b
    BY <1>1, <1>5 DEF IInv, LocalsOrdered
<1>7. TransientViewsReleased'
    <2> SUFFICES ASSUME NEW v \in DOMAIN views', views'[v].kind \in {"sects", "syms"},
                        views'[v].rel = 0
                 PROVE  \E i \in DOMAIN stack' : v \in {stack'[i].sects, stack'[i].syms}
        BY DEF TransientViewsReleased, Live
    <2>1. v \in DOMAIN views /\ v \notin S /\ views[v].rel = 0
          /\ views[v].kind \in {"sects", "syms"}
        BY <1>3, <1>4
    <2>2. PICK i \in DOMAIN stack : v \in {stack[i].sects, stack[i].syms}
        BY <2>1 DEF IInv, TransientViewsReleased, Live
    <2>3. i # Len(stack)
        BY <1>1, <1>3, <1>5, <2>1, <2>2
    <2>4. i \in DOMAIN stack' /\ stack'[i] = stack[i]
        BY <1>1, <1>2, <2>3
    <2>5. QED
        BY <2>2, <2>4
<1>8. ASSUME NEW v \in dwarfViews
      PROVE  /\ v \in DOMAIN views /\ views[v].rel = 0 /\ v \notin Locals(Top)
             /\ \A i \in DOMAIN stack : v \notin Locals(stack[i])
    BY <1>5 DEF IInv, DwarfUnheld, RegisteredDwarfViewLive, Live
<1>9. ASSUME NEW v \in dwarfViews' \ dwarfViews
      PROVE  /\ v = Top.dbg /\ v \notin S
             /\ v \in DOMAIN views /\ views[v].rel = 0
             /\ \A i \in 1 .. Len(stack) - 1 : v \notin Locals(stack[i])
    <2>1. v = Top.dbg /\ Top.pc = "DwarfAdd" /\ v \notin S
        BY <1>3
    <2>2. v \in DOMAIN views /\ views[v].rel = 0
        BY <1>5, <2>1 DEF IInv, DbgLive
    <2>3. v \in Locals(Top) \ {0} /\ v \in Nat
        BY <1>1, <2>1, <2>2 DEF Locals
    <2>4. ASSUME NEW i \in 1 .. Len(stack) - 1 PROVE v \notin Locals(stack[i])
        <3>1. \A a \in Locals(stack[i]) \ {0} : a < v
            BY <1>6, <2>3
        <3>2. QED
            BY <2>3, <3>1
    <2>5. QED
        BY <2>1, <2>2, <2>4
<1>10. DwarfUnheld'
    <2> SUFFICES ASSUME NEW v \in dwarfViews'
                 PROVE  /\ v \in DOMAIN views'
                        /\ \A i \in DOMAIN stack' : v \notin Locals(stack'[i])
        BY DEF DwarfUnheld
    <2>1. \A i \in DOMAIN stack' : i \in 1 .. Len(stack) - 1 /\ stack'[i] = stack[i]
        BY <1>1, <1>2
    <2>2. CASE v \in dwarfViews
        <3>1. v \in DOMAIN views'
            BY <1>3, <1>8, <2>2
        <3>2. ASSUME NEW i \in DOMAIN stack' PROVE v \notin Locals(stack'[i])
            <4>1. i \in DOMAIN stack /\ stack'[i] = stack[i]
                BY <1>1, <2>1
            <4>2. QED
                BY <1>8, <2>2, <4>1
        <3>3. QED
            BY <3>1, <3>2
    <2>3. CASE v \notin dwarfViews
        <3>1. v \in DOMAIN views'
            BY <1>3, <1>9, <2>3
        <3>2. ASSUME NEW i \in DOMAIN stack' PROVE v \notin Locals(stack'[i])
            <4>1. i \in 1 .. Len(stack) - 1 /\ stack'[i] = stack[i]
                BY <2>1
            <4>2. QED
                BY <1>9, <2>3, <4>1
        <3>3. QED
            BY <3>1, <3>2
    <2>4. QED
        BY <2>2, <2>3
<1>11. RegisteredDwarfViewLive'
    <2> SUFFICES ASSUME NEW v \in dwarfViews'
                 PROVE  v \in DOMAIN views' /\ views'[v].rel = 0
        BY DEF RegisteredDwarfViewLive, Live
    <2>1. CASE v \in dwarfViews
        <3>1. v \notin S
            BY <1>3, <1>8, <2>1
        <3>2. QED
            BY <1>3, <1>8, <2>1, <3>1
    <2>2. CASE v \notin dwarfViews
        BY <1>3, <1>9, <2>2
    <2>3. QED
        BY <2>1, <2>2
<1>12. DbgLive'
    <2> SUFFICES ASSUME NEW i \in DOMAIN stack', stack'[i].pc = "DwarfAdd"
                 PROVE  stack'[i].dbg \in DOMAIN views' /\ views'[stack'[i].dbg].rel = 0
        BY DEF DbgLive
    <2>1. i \in 1 .. Len(stack) - 1 /\ stack'[i] = stack[i]
        BY <1>1, <1>2
    <2>2. stack[i].dbg \in DOMAIN views /\ views[stack[i].dbg].rel = 0
        BY <1>1, <2>1 DEF IInv, DbgLive
    <2>3. stack[i].dbg \in Locals(stack[i]) \ {0} /\ stack[i].dbg \in Nat
        BY <1>1, <2>2 DEF Locals
    <2>4. stack[i].dbg \notin S
        <3>1. \A b \in Locals(Top) \ {0} : stack[i].dbg < b
            BY <1>6, <2>1, <2>3
        <3>2. QED
            BY <1>3, <2>3, <3>1
    <2>5. QED
        BY <1>3, <2>1, <2>2, <2>4
<1>13. QED
    BY <1>7, <1>10, <1>11, <1>12

-----------------------------------------------------------------------------
(* A recursive call: the caller, past AddSyminfo, becomes tp with its      *)
(* descriptor and view locals, not at DwarfAdd; the callee nf holds the    *)
(* descriptor just opened and no view; the caller releases views S of its  *)
(* own.                                                                    *)
PushStepHyp(S, tp, nf) ==
    /\ stack # << >> /\ Top.pc \in PastSyminfo
    /\ tp \in Frame /\ nf \in Frame
    /\ stack' = Append([stack EXCEPT ![Len(stack)] = tp], nf)
    /\ tp.fd = Top.fd /\ tp.desc = Top.desc /\ tp.pc # "DwarfAdd"
    /\ tp.sects = Top.sects /\ tp.syms = Top.syms /\ Locals(tp) = Locals(Top)
    /\ nf.fd = Len(fds) + 1 /\ nf.desc /\ nf.pc = "GetFileHeader" /\ Locals(nf) = {0}
    /\ fds' \in Seq(FdRec) /\ Len(fds') = Len(fds) + 1
    /\ \A d \in DOMAIN fds : fds'[d] = fds[d]
    /\ S \subseteq Locals(Top) \ {0} /\ ViewsGrow(S) /\ Len(views') = Len(views)
    /\ dwarfViews' = dwarfViews

LEMMA PushFds ==
    ASSUME IInv, NEW S, NEW tp, NEW nf, PushStepHyp(S, tp, nf)
    PROVE  FdsHeld' /\ DescriptorClosedOnReturn'
<1>1. /\ stack \in Seq(Frame) /\ fds \in Seq(FdRec) /\ stack # << >>
      /\ tp \in Frame /\ nf \in Frame
      /\ stack' = Append([stack EXCEPT ![Len(stack)] = tp], nf)
    BY DEF IInv, TypeOK, PushStepHyp
<1>2. /\ DOMAIN stack' = 1 .. Len(stack) + 1
      /\ stack'[Len(stack)] = tp /\ stack'[Len(stack) + 1] = nf
      /\ \A i \in 1 .. Len(stack) - 1 : stack'[i] = stack[i]
    BY <1>1, StackPushShape
<1>3. /\ fds' \in Seq(FdRec) /\ DOMAIN fds' = 1 .. Len(fds) + 1
      /\ \A d \in DOMAIN fds : fds'[d] = fds[d]
      /\ tp.fd = Top.fd /\ tp.desc = Top.desc /\ nf.fd = Len(fds) + 1 /\ nf.desc
    BY DEF PushStepHyp
<1>4. Top = stack[Len(stack)] /\ Len(stack) \in DOMAIN stack
    BY <1>1 DEF Top
<1>5. \A i \in DOMAIN stack : stack'[i].fd = stack[i].fd /\ stack'[i].desc = stack[i].desc
    BY <1>1, <1>2, <1>3, <1>4
<1>6. FdsHeld'
    <2> SUFFICES ASSUME NEW i \in DOMAIN stack'
                 PROVE  /\ stack'[i].fd \in DOMAIN fds'
                        /\ ~stack'[i].desc => fds'[stack'[i].fd].closes >= 1
        BY DEF FdsHeld
    <2>1. CASE i = Len(stack) + 1
        BY <1>2, <1>3, <2>1
    <2>2. CASE i # Len(stack) + 1
        <3>1. i \in DOMAIN stack
            BY <1>1, <1>2, <2>2
        <3>2. stack[i].fd \in DOMAIN fds /\ (~stack[i].desc => fds[stack[i].fd].closes >= 1)
            BY <3>1 DEF IInv, FdsHeld
        <3>3. QED
            BY <1>1, <1>3, <1>5, <3>1, <3>2
    <2>3. QED
        BY <2>1, <2>2
<1>7. DescriptorClosedOnReturn'
    <2> SUFFICES ASSUME NEW d \in DOMAIN fds',
                        \A i \in DOMAIN stack' : stack'[i].fd # d
                 PROVE  fds'[d].closes >= 1
        BY DEF DescriptorClosedOnReturn
    <2>1. d # Len(fds) + 1
        BY <1>2, <1>3
    <2>2. d \in DOMAIN fds
        BY <1>1, <1>3, <2>1
    <2>3. \A i \in DOMAIN stack : stack[i].fd # d
        BY <1>1, <1>2, <1>5
    <2>4. QED
        BY <1>3, <2>2, <2>3 DEF IInv, DescriptorClosedOnReturn
<1>8. QED
    BY <1>6, <1>7

LEMMA PushLocals ==
    ASSUME IInv, NEW S, NEW tp, NEW nf, PushStepHyp(S, tp, nf)
    PROVE  LocalsInRange' /\ LocalsOrdered' /\ TransientCleared'
<1>1. /\ stack \in Seq(Frame) /\ stack # << >>
      /\ tp \in Frame /\ nf \in Frame
      /\ stack' = Append([stack EXCEPT ![Len(stack)] = tp], nf)
    BY DEF IInv, TypeOK, PushStepHyp
<1>2. /\ DOMAIN stack' = 1 .. Len(stack) + 1
      /\ stack'[Len(stack)] = tp /\ stack'[Len(stack) + 1] = nf
      /\ \A i \in 1 .. Len(stack) - 1 : stack'[i] = stack[i]
    BY <1>1, StackPushShape
<1>3. Top = stack[Len(stack)] /\ Len(stack) \in DOMAIN stack
    BY <1>1 DEF Top
<1>4. /\ Locals(tp) = Locals(Top) /\ Locals(nf) = {0} /\ Len(views') = Len(views)
      /\ tp.sects = Top.sects /\ tp.syms = Top.syms /\ nf.pc = "GetFileHeader"
      /\ Top.pc \in PastSyminfo
    BY DEF PushStepHyp
<1>5. \A i \in DOMAIN stack' : Locals(stack'[i]) = IF i = Len(stack) + 1 THEN {0}
                                                  ELSE Locals(stack[i])
    <2> SUFFICES ASSUME NEW i \in DOMAIN stack'
                 PROVE  Locals(stack'[i]) = IF i = Len(stack) + 1 THEN {0}
                                             ELSE Locals(stack[i])
        OBVIOUS
    <2>1. CASE i = Len(stack) + 1
        BY <1>2, <1>4, <2>1
    <2>2. CASE i = Len(stack)
        <3>1. i # Len(stack) + 1
            BY <1>1, <2>2
        <3>2. QED
            BY <1>2, <1>3, <1>4, <2>2, <3>1
    <2>3. CASE i \in 1 .. Len(stack) - 1
        <3>1. i # Len(stack) + 1 /\ stack'[i] = stack[i]
            BY <1>1, <1>2, <2>3
        <3>2. QED
            BY <3>1
    <2>4. QED
        BY <1>1, <1>2, <2>1, <2>2, <2>3
<1>6. LocalsInRange'
    BY <1>1, <1>4, <1>5 DEF IInv, LocalsInRange
<1>7. LocalsOrdered'
    <2> SUFFICES ASSUME NEW i \in DOMAIN stack', NEW j \in DOMAIN stack', i < j,
                        NEW a \in Locals(stack'[i]) \ {0}, NEW b \in Locals(stack'[j]) \ {0}
                 PROVE  a < b
        BY DEF LocalsOrdered
    <2>1. j # Len(stack) + 1 /\ i \in DOMAIN stack /\ j \in DOMAIN stack
        BY <1>1, <1>2, <1>5
    <2>2. a \in Locals(stack[i]) \ {0} /\ b \in Locals(stack[j]) \ {0}
        BY <1>5, <2>1
    <2>3. QED
        BY <2>1, <2>2 DEF IInv, LocalsOrdered
<1>8. TransientCleared'
    <2> SUFFICES ASSUME NEW i \in DOMAIN stack', stack'[i].pc \in PastSyminfo
                 PROVE  stack'[i].sects = 0 /\ stack'[i].syms = 0
        BY DEF TransientCleared
    <2>1. Top.sects = 0 /\ Top.syms = 0
        BY <1>3, <1>4 DEF IInv, TransientCleared
    <2>2. CASE i = Len(stack) + 1
        BY <1>2, <1>4, <2>2 DEF PastSyminfo
    <2>3. CASE i = Len(stack)
        BY <1>2, <1>4, <2>1, <2>3
    <2>4. CASE i \in 1 .. Len(stack) - 1
        BY <1>2, <2>4 DEF IInv, TransientCleared
    <2>5. QED
        BY <1>1, <1>2, <2>2, <2>3, <2>4
<1>9. QED
    BY <1>6, <1>7, <1>8

LEMMA PushViews ==
    ASSUME IInv, NEW S, NEW tp, NEW nf, PushStepHyp(S, tp, nf)
    PROVE  TransientViewsReleased' /\ DwarfUnheld' /\ RegisteredDwarfViewLive' /\ DbgLive'
<1>1. /\ stack \in Seq(Frame) /\ views \in Seq(ViewRec) /\ stack # << >>
      /\ tp \in Frame /\ nf \in Frame
      /\ stack' = Append([stack EXCEPT ![Len(stack)] = tp], nf)
    BY DEF IInv, TypeOK, PushStepHyp
<1>2. /\ DOMAIN stack' = 1 .. Len(stack) + 1
      /\ stack'[Len(stack)] = tp /\ stack'[Len(stack) + 1] = nf
      /\ \A i \in 1 .. Len(stack) - 1 : stack'[i] = stack[i]
    BY <1>1, StackPushShape
<1>3. /\ views' \in Seq(ViewRec) /\ DOMAIN views' = DOMAIN views
      /\ \A v \in DOMAIN views :
            /\ views'[v].kind = views[v].kind
            /\ views'[v].rel = IF v \in S THEN views[v].rel + 1 ELSE views[v].rel
      /\ S \subseteq Locals(Top) \ {0}
      /\ dwarfViews' = dwarfViews
      /\ tp.sects = Top.sects /\ tp.syms = Top.syms /\ tp.pc # "DwarfAdd"
      /\ Locals(tp) = Locals(Top) /\ Locals(nf) = {0} /\ nf.pc = "GetFileHeader"
    BY <1>1 DEF PushStepHyp, ViewsGrow
<1>4. \A v \in DOMAIN views : views[v].rel \in Nat
    <2>1. \A v \in DOMAIN views : views[v] \in ViewRec
        BY <1>1
    <2>2. QED
        BY <2>1 DEF ViewRec
<1>5. Top = stack[Len(stack)] /\ Len(stack) \in DOMAIN stack
    BY <1>1 DEF Top
<1>6. \A i \in 1 .. Len(stack) - 1 : \A a \in Locals(stack[i]) \ {0} :
          \A b \in Locals(Top) \ {0} : a < b
    BY <1>1, <1>5 DEF IInv, LocalsOrdered
<1>7. \A i \in DOMAIN stack' : i = Len(stack) + 1 \/ i = Len(stack) \/ i \in 1 .. Len(stack) - 1
    BY <1>1, <1>2
<1>8. TransientViewsReleased'
    <2> SUFFICES ASSUME NEW v \in DOMAIN views', views'[v].kind \in {"sects", "syms"},
                        views'[v].rel = 0
                 PROVE  \E i \in DOMAIN stack' : v \in {stack'[i].sects, stack'[i].syms}
        BY DEF TransientViewsReleased, Live
    <2>1. v \in DOMAIN views /\ views[v].rel = 0 /\ views[v].kind \in {"sects", "syms"}
        BY <1>3, <1>4
    <2>2. PICK i \in DOMAIN stack : v \in {stack[i].sects, stack[i].syms}
        BY <2>1 DEF IInv, TransientViewsReleased, Live
    <2>3. CASE i = Len(stack)
        <3>1. Len(stack) \in DOMAIN stack' /\ v \in {stack'[Len(stack)].sects, stack'[Len(stack)].syms}
            BY <1>1, <1>2, <1>3, <1>5, <2>2, <2>3
        <3>2. QED
            BY <3>1
    <2>4. CASE i # Len(stack)
        <3>1. i \in DOMAIN stack' /\ stack'[i] = stack[i]
            BY <1>1, <1>2, <2>4
        <3>2. QED
            BY <2>2, <3>1
    <2>5. QED
        BY <2>3, <2>4
<1>9. ASSUME NEW v \in dwarfViews
      PROVE  /\ v \in DOMAIN views /\ views[v].rel = 0 /\ v \notin Locals(Top) /\ v \notin S
             /\ v # 0
             /\ \A i \in DOMAIN stack : v \notin Locals(stack[i])
    <2>1. v \in DOMAIN views /\ views[v].rel = 0 /\ v \notin Locals(Top)
          /\ \A i \in DOMAIN stack : v \notin Locals(stack[i])
        BY <1>5 DEF IInv, DwarfUnheld, RegisteredDwarfViewLive, Live
    <2>2. QED
        BY <1>1, <1>3, <2>1
<1>10. DwarfUnheld'
    <2> SUFFICES ASSUME NEW v \in dwarfViews'
                 PROVE  /\ v \in DOMAIN views'
                        /\ \A i \in DOMAIN stack' : v \notin Locals(stack'[i])
        BY DEF DwarfUnheld
    <2>1. v \in dwarfViews
        BY <1>3
    <2>2. v \in DOMAIN views'
        BY <1>3, <1>9, <2>1
    <2>3. ASSUME NEW i \in DOMAIN stack' PROVE v \notin Locals(stack'[i])
        <3>1. CASE i = Len(stack) + 1
            BY <1>2, <1>3, <1>9, <2>1, <3>1
        <3>2. CASE i = Len(stack)
            BY <1>2, <1>3, <1>9, <2>1, <3>2
        <3>3. CASE i \in 1 .. Len(stack) - 1
            BY <1>1, <1>2, <1>3, <1>9, <2>1, <3>3
        <3>4. QED
            BY <1>7, <3>1, <3>2, <3>3
    <2>4. QED
        BY <2>2, <2>3
<1>11. RegisteredDwarfViewLive'
    <2> SUFFICES ASSUME NEW v \in dwarfViews'
                 PROVE  v \in DOMAIN views' /\ views'[v].rel = 0
        BY DEF RegisteredDwarfViewLive, Live
    <2>1. v \in dwarfViews
        BY <1>3
    <2>2. QED
        BY <1>3, <1>9, <2>1
<1>12. DbgLive'
    <2> SUFFICES ASSUME NEW i \in DOMAIN stack', stack'[i].pc = "DwarfAdd"
                 PROVE  stack'[i].dbg \in DOMAIN views' /\ views'[stack'[i].dbg].rel = 0
        BY DEF DbgLive
    <2>1. i \in 1 .. Len(stack) - 1 /\ stack'[i] = stack[i]
        BY <1>2, <1>3, <1>7
    <2>2. stack[i].dbg \in DOMAIN views /\ views[stack[i].dbg].rel = 0
        BY <1>1, <2>1 DEF IInv, DbgLive
    <2>3. stack[i].dbg \in Locals(stack[i]) \ {0} /\ stack[i].dbg \in Nat
        BY <1>1, <2>2 DEF Locals
    <2>4. stack[i].dbg \notin S
        <3>1. \A b \in Locals(Top) \ {0} : stack[i].dbg < b
            BY <1>6, <2>1, <2>3
        <3>2. QED
            BY <1>3, <2>3, <3>1
    <2>5. QED
        BY <1>3, <2>1, <2>2, <2>4
<1>13. QED
    BY <1>8, <1>10, <1>11, <1>12

-----------------------------------------------------------------------------
(* The three shapes of a step keep the inductive invariant, given the     *)
(* types, RetFileline and, for the frames the step writes, EarlyFrame.     *)

LEMMA TopIInv ==
    ASSUME IInv, TypeOK', RetFileline', fs' = fs, NEW fr, NEW S, TopStepHyp(fr, S),
           EarlyFrame(fs, fr)
    PROVE  IInv'
<1>1. FdsHeld' /\ DescriptorClosedOnReturn'
    BY TopFds
<1>2. LocalsInRange' /\ LocalsOrdered' /\ TransientCleared'
    BY TopLocals
<1>3. TransientViewsReleased' /\ DwarfUnheld' /\ RegisteredDwarfViewLive' /\ DbgLive'
    BY TopViews
<1>4. SymsUnset'
    <2>1. /\ stack \in Seq(Frame) /\ stack # << >> /\ fr \in Frame
          /\ stack' = [stack EXCEPT ![Len(stack)] = fr]
        BY DEF IInv, TypeOK, TopStepHyp
    <2>2. /\ DOMAIN stack' = DOMAIN stack /\ stack'[Len(stack)] = fr
          /\ \A i \in 1 .. Len(stack) - 1 : stack'[i] = stack[i]
        BY <2>1, StackTopShape
    <2> SUFFICES ASSUME NEW i \in DOMAIN stack' PROVE EarlyFrame(fs, stack'[i])
        BY DEF SymsUnset, EarlyFrame
    <2>3. stack'[i] = fr \/ (i \in DOMAIN stack /\ stack'[i] = stack[i])
        BY <2>1, <2>2
    <2>4. QED
        BY <2>3 DEF IInv, SymsUnset, EarlyFrame
<1>5. QED
    BY <1>1, <1>2, <1>3, <1>4 DEF IInv

LEMMA PopIInv ==
    ASSUME IInv, TypeOK', RetFileline', fs' = fs, NEW S, PopStepHyp(S)
    PROVE  IInv'
<1>1. FdsHeld' /\ DescriptorClosedOnReturn'
    BY PopFds
<1>2. LocalsInRange' /\ LocalsOrdered' /\ TransientCleared'
    BY PopLocals
<1>3. TransientViewsReleased' /\ DwarfUnheld' /\ RegisteredDwarfViewLive' /\ DbgLive'
    BY PopViews
<1>4. SymsUnset'
    <2>1. /\ stack \in Seq(Frame) /\ stack # << >>
          /\ stack' = SubSeq(stack, 1, Len(stack) - 1)
        BY DEF IInv, TypeOK, PopStepHyp
    <2>2. /\ DOMAIN stack' = 1 .. Len(stack) - 1
          /\ \A i \in 1 .. Len(stack) - 1 : stack'[i] = stack[i]
        BY <2>1, StackPopShape
    <2> SUFFICES ASSUME NEW i \in DOMAIN stack' PROVE EarlyFrame(fs, stack'[i])
        BY DEF SymsUnset, EarlyFrame
    <2>3. i \in DOMAIN stack /\ stack'[i] = stack[i]
        BY <2>1, <2>2
    <2>4. QED
        BY <2>3 DEF IInv, SymsUnset, EarlyFrame
<1>5. QED
    BY <1>1, <1>2, <1>3, <1>4 DEF IInv

LEMMA PushIInv ==
    ASSUME IInv, TypeOK', RetFileline', fs' = fs, NEW S, NEW tp, NEW nf,
           PushStepHyp(S, tp, nf), EarlyFrame(fs, tp), EarlyFrame(fs, nf)
    PROVE  IInv'
<1>1. FdsHeld' /\ DescriptorClosedOnReturn'
    BY PushFds
<1>2. LocalsInRange' /\ LocalsOrdered' /\ TransientCleared'
    BY PushLocals
<1>3. TransientViewsReleased' /\ DwarfUnheld' /\ RegisteredDwarfViewLive' /\ DbgLive'
    BY PushViews
<1>4. SymsUnset'
    <2>1. /\ stack \in Seq(Frame) /\ stack # << >> /\ tp \in Frame /\ nf \in Frame
          /\ stack' = Append([stack EXCEPT ![Len(stack)] = tp], nf)
        BY DEF IInv, TypeOK, PushStepHyp
    <2>2. /\ DOMAIN stack' = 1 .. Len(stack) + 1
          /\ stack'[Len(stack)] = tp /\ stack'[Len(stack) + 1] = nf
          /\ \A i \in 1 .. Len(stack) - 1 : stack'[i] = stack[i]
        BY <2>1, StackPushShape
    <2> SUFFICES ASSUME NEW i \in DOMAIN stack' PROVE EarlyFrame(fs, stack'[i])
        BY DEF SymsUnset, EarlyFrame
    <2>3. stack'[i] = tp \/ stack'[i] = nf \/ (i \in DOMAIN stack /\ stack'[i] = stack[i])
        BY <2>1, <2>2
    <2>4. QED
        BY <2>3 DEF IInv, SymsUnset, EarlyFrame
<1>5. QED
    BY <1>1, <1>2, <1>3, <1>4 DEF IInv

-----------------------------------------------------------------------------
(* How the descriptors and views change in the steps.                      *)

LEMMA FdsSame ==
    ASSUME fds \in Seq(FdRec), fds' = fds
    PROVE  FdsGrow /\ \A d \in DOMAIN fds' \ DOMAIN fds : fds'[d].closes >= 1
<1>1. \A d \in DOMAIN fds : fds[d].closes \in Nat
    <2>1. \A d \in DOMAIN fds : fds[d] \in FdRec
        OBVIOUS
    <2>2. QED
        BY <2>1 DEF FdRec
<1>2. QED
    BY <1>1 DEF FdsGrow

LEMMA FdsAppend ==
    ASSUME fds \in Seq(FdRec), NEW t \in Files, NEW c \in Nat,
           fds' = Append(fds, [file |-> t, closes |-> c])
    PROVE  /\ FdsGrow /\ Len(fds') = Len(fds) + 1
           /\ DOMAIN fds' = 1 .. Len(fds) + 1
           /\ fds'[Len(fds) + 1].closes = c
           /\ \A d \in DOMAIN fds : fds'[d] = fds[d]
<1>1. fds' \in Seq(FdRec)
    BY OpenType
<1>2. \A d \in DOMAIN fds : fds[d].closes \in Nat
    <2>1. \A d \in DOMAIN fds : fds[d] \in FdRec
        OBVIOUS
    <2>2. QED
        BY <2>1 DEF FdRec
<1>3. QED
    BY <1>1, <1>2 DEF FdsGrow

LEMMA ViewsSame ==
    ASSUME views \in Seq(ViewRec), views' = views
    PROVE  ViewsGrow({}) /\ Len(views') = Len(views)
BY DEF ViewsGrow

LEMMA ViewsObtain ==
    ASSUME views \in Seq(ViewRec), NEW k \in ViewKinds, Obtain(k)
    PROVE  /\ ViewsGrow({}) /\ Len(views') = Len(views) + 1
           /\ DOMAIN views' = 1 .. Len(views) + 1
           /\ views'[Len(views) + 1] = [kind |-> k, rel |-> 0]
<1>1. views' \in Seq(ViewRec)
    BY ObtainType
<1>2. QED
    BY <1>1 DEF ViewsGrow, Obtain

(* Releasing "view 0", a NULL view, releases nothing.                      *)
LEMMA ViewsGrowNoZero ==
    ASSUME views \in Seq(ViewRec), NEW S, ViewsGrow(S)
    PROVE  ViewsGrow(S \ {0})
<1>1. 0 \notin DOMAIN views
    OBVIOUS
<1>2. \A v \in DOMAIN views : (v \in S) = (v \in S \ {0})
    BY <1>1
<1>3. QED
    BY <1>2 DEF ViewsGrow

(* GetSymtab's success obtains the symbol and the string views together.  *)
LEMMA ViewsSymStr ==
    ASSUME views \in Seq(ViewRec),
           views' = views \o << [kind |-> "syms", rel |-> 0], [kind |-> "str", rel |-> 0] >>
    PROVE  /\ ViewsGrow({}) /\ Len(views') = Len(views) + 2
           /\ DOMAIN views' = 1 .. Len(views) + 2
           /\ views'[Len(views) + 1] = [kind |-> "syms", rel |-> 0]
           /\ views'[Len(views) + 2] = [kind |-> "str", rel |-> 0]
<1>1. << [kind |-> "syms", rel |-> 0], [kind |-> "str", rel |-> 0] >> \in Seq(ViewRec)
    BY DEF ViewRec, ViewKinds
<1>2. views' \in Seq(ViewRec) /\ Len(views') = Len(views) + 2
    BY <1>1
<1>3. \A v \in DOMAIN views : views'[v] = views[v]
    BY <1>1
<1>4. QED
    BY <1>2, <1>3 DEF ViewsGrow

(* The innermost frame in a state of the invariant.                        *)
LEMMA TopInv ==
    ASSUME IInv, stack # << >>
    PROVE  /\ Top \in Frame /\ Desc \in FileDesc /\ Desc = fs[Top.file]
           /\ EarlyFrame(fs, Top)
           /\ Top.pc \in PastSyminfo => Top.sects = 0 /\ Top.syms = 0
           /\ Top.fd \in DOMAIN fds
           /\ ~Top.desc => fds[Top.fd].closes >= 1
           /\ Top.pc = "DwarfAdd" => Top.dbg \in DOMAIN views /\ views[Top.dbg].rel = 0
<1>1. Top \in Frame /\ Desc \in FileDesc
    BY TopFacts DEF IInv
<1>2. Len(stack) \in DOMAIN stack /\ Top = stack[Len(stack)]
    BY DEF IInv, TypeOK, Top
<1>3. QED
    BY <1>1, <1>2 DEF IInv, SymsUnset, TransientCleared, FdsHeld, DbgLive, Desc

(* Moving the innermost call to label p, opening only descriptors that are *)
(* closed at once, with the views and the DWARF views unchanged.           *)
LEMMA GotoIInv ==
    ASSUME IInv, stack # << >>, TypeOK', RetFileline', fs' = fs,
           NEW p \in Pcs \ {"DwarfAdd"}, Goto(p),
           p \in PastSyminfo => Top.pc \in PastSyminfo,
           EarlyFrame(fs, [Top EXCEPT !.pc = p]),
           FdsGrow, \A d \in DOMAIN fds' \ DOMAIN fds : fds'[d].closes >= 1,
           views' = views, dwarfViews' = dwarfViews
    PROVE  IInv'
<1> DEFINE fr == [Top EXCEPT !.pc = p]
<1>1. Top \in Frame /\ (Top.pc \in PastSyminfo => Top.sects = 0 /\ Top.syms = 0)
    BY TopInv
<1>2. /\ fr \in Frame /\ fr.fd = Top.fd /\ fr.desc = Top.desc /\ fr.pc = p
      /\ fr.sects = Top.sects /\ fr.syms = Top.syms /\ Locals(fr) = Locals(Top)
    BY <1>1 DEF Frame, Locals
<1>3. ViewsGrow({}) /\ Len(views') = Len(views)
    BY ViewsSame DEF IInv, TypeOK
<1>4. TopStepHyp(fr, {})
    BY <1>1, <1>2, <1>3 DEF TopStepHyp, Goto, SetTop
<1>5. QED
    BY <1>4, TopIInv

-----------------------------------------------------------------------------
(* Each step of the innermost call keeps the inductive invariant.          *)

LEMMA GetFileHeaderIInv ==
    ASSUME IInv, stack # << >>, GetFileHeader
    PROVE  IInv'
<1>1. TypeOK'
    BY NextType DEF Next, Step, IInv
<1>2. RetFileline' /\ fs' = fs /\ views' = views /\ dwarfViews' = dwarfViews
    BY DEF GetFileHeader, IInv, RetFileline
<1>3. FdsGrow /\ \A d \in DOMAIN fds' \ DOMAIN fds : fds'[d].closes >= 1
    BY FdsSame DEF GetFileHeader, IInv, TypeOK
<1>4. Top.pc = "GetFileHeader" /\ EarlyFrame(fs, Top)
    BY TopInv DEF GetFileHeader
<1>5. CASE Goto("Fail")
    <2>1. EarlyFrame(fs, [Top EXCEPT !.pc = "Fail"])
        BY DEF EarlyFrame
    <2>2. QED
        BY <1>1, <1>2, <1>3, <1>5, <2>1, GotoIInv DEF Pcs, PastSyminfo
<1>6. CASE Goto("GetSections")
    <2>1. EarlyFrame(fs, [Top EXCEPT !.pc = "GetSections"])
        BY <1>4 DEF EarlyFrame
    <2>2. QED
        BY <1>1, <1>2, <1>3, <1>6, <2>1, GotoIInv DEF Pcs, PastSyminfo
<1>7. QED
    BY <1>5, <1>6 DEF GetFileHeader

LEMMA GetSectionsIInv ==
    ASSUME IInv, stack # << >>, GetSections
    PROVE  IInv'
<1>1. TypeOK'
    BY NextType DEF Next, Step, IInv
<1>2. RetFileline' /\ fs' = fs /\ dwarfViews' = dwarfViews
    BY DEF GetSections, IInv, RetFileline
<1>3. FdsGrow /\ \A d \in DOMAIN fds' \ DOMAIN fds : fds'[d].closes >= 1
    BY FdsSame DEF GetSections, IInv, TypeOK
<1>4. /\ Top.pc = "GetSections" /\ Top \in Frame /\ Desc = fs[Top.file]
      /\ Top.sects = 0 /\ Top.syms = 0
    BY TopInv DEF GetSections, EarlyFrame
<1>5. CASE Goto("Fail") /\ views' = views
    <2>1. EarlyFrame(fs, [Top EXCEPT !.pc = "Fail"])
        BY DEF EarlyFrame
    <2>2. QED
        BY <1>1, <1>2, <1>3, <1>5, <2>1, GotoIInv DEF Pcs, PastSyminfo
<1>6. CASE /\ Obtain("sects")
           /\ SetTop([Top EXCEPT !.sects = NextView,
                        !.pc = IF Desc.coff = "badopt" THEN "Fail" ELSE "GetSymtab"])
    <2> DEFINE fr == [Top EXCEPT !.sects = NextView,
                        !.pc = IF Desc.coff = "badopt" THEN "Fail" ELSE "GetSymtab"]
    <2>1. /\ ViewsGrow({}) /\ Len(views') = Len(views) + 1
          /\ DOMAIN views' = 1 .. Len(views) + 1
          /\ views'[Len(views) + 1] = [kind |-> "sects", rel |-> 0]
        BY <1>6, ViewsObtain DEF IInv, TypeOK, ViewKinds
    <2>2. NextView \in Nat /\ NextView = Len(views) + 1
        BY DEF IInv, TypeOK, NextView
    <2>3. fr \in Frame
        BY <1>4, <2>2 DEF Frame, Pcs
    <2>4. /\ fr.fd = Top.fd /\ fr.desc = Top.desc
          /\ fr.pc \in {"Fail", "GetSymtab"} /\ fr.sects = Len(views) + 1
          /\ fr.syms = Top.syms /\ fr.str = Top.str /\ fr.dl = Top.dl
          /\ fr.alt = Top.alt /\ fr.dbg = Top.dbg
        BY <1>4, <2>2
    <2>5. Locals(fr) \subseteq Locals(Top) \cup {0} \cup (Len(views) + 1 .. Len(views'))
        BY <2>1, <2>4 DEF Locals
    <2>6. \A v \in DOMAIN views' \ DOMAIN views :
              views'[v].kind \in {"sects", "syms"} => v \in {fr.sects, fr.syms}
        BY <2>1, <2>4 DEF IInv, TypeOK
    <2>7. {Top.sects, Top.syms} \ {fr.sects, fr.syms, 0} \subseteq {}
        BY <1>4, <2>4
    <2>8. stack' = [stack EXCEPT ![Len(stack)] = fr]
        BY <1>6 DEF SetTop
    <2>9. ~(fr.pc \in PastSyminfo) /\ fr.pc # "DwarfAdd"
        BY <2>4 DEF PastSyminfo
    <2>10. TopStepHyp(fr, {})
        BY <1>2, <1>3, <2>1, <2>3, <2>4, <2>5, <2>6, <2>7, <2>8, <2>9 DEF TopStepHyp
    <2>11. EarlyFrame(fs, fr)
        BY <1>4, <2>4 DEF EarlyFrame
    <2>12. QED
        BY <1>1, <1>2, <2>10, <2>11, TopIInv
<1>7. QED
    BY <1>5, <1>6 DEF GetSections

LEMMA GetSymtabIInv ==
    ASSUME IInv, stack # << >>, GetSymtab
    PROVE  IInv'
<1>1. TypeOK'
    BY NextType DEF Next, Step, IInv
<1>2. RetFileline' /\ fs' = fs /\ dwarfViews' = dwarfViews
    BY DEF GetSymtab, IInv, RetFileline
<1>3. FdsGrow /\ \A d \in DOMAIN fds' \ DOMAIN fds : fds'[d].closes >= 1
    BY FdsSame DEF GetSymtab, IInv, TypeOK
<1>4. /\ Top.pc = "GetSymtab" /\ Top \in Frame /\ Desc = fs[Top.file]
      /\ Top.syms = 0
    BY TopInv DEF GetSymtab, EarlyFrame
<1>0. NextView \in Nat /\ NextView = Len(views) + 1
    BY DEF IInv, TypeOK, NextView
<1>5. CASE Desc.syms = "none" /\ Goto("GetDebuglink") /\ views' = views
    <2>1. EarlyFrame(fs, [Top EXCEPT !.pc = "GetDebuglink"])
        BY <1>4 DEF EarlyFrame
    <2>2. QED
        BY <1>1, <1>2, <1>3, <1>5, <2>1, GotoIInv DEF Pcs, PastSyminfo
<1>6. CASE Goto("Fail") /\ views' = views
    <2>1. EarlyFrame(fs, [Top EXCEPT !.pc = "Fail"])
        BY DEF EarlyFrame
    <2>2. QED
        BY <1>1, <1>2, <1>3, <1>6, <2>1, GotoIInv DEF Pcs, PastSyminfo
<1>7. CASE Obtain("syms") /\ SetTop([Top EXCEPT !.syms = NextView, !.pc = "Fail"])
    <2> DEFINE fr == [Top EXCEPT !.syms = NextView, !.pc = "Fail"]
    <2>1. /\ ViewsGrow({}) /\ Len(views') = Len(views) + 1
          /\ DOMAIN views' = 1 .. Len(views) + 1
          /\ views'[Len(views) + 1] = [kind |-> "syms", rel |-> 0]
        BY <1>7, ViewsObtain DEF IInv, TypeOK, ViewKinds
    <2>3. fr \in Frame
        BY <1>4, <1>0 DEF Frame, Pcs
    <2>4. /\ fr.fd = Top.fd /\ fr.desc = Top.desc
          /\ fr.pc = "Fail" /\ fr.syms = Len(views) + 1
          /\ fr.sects = Top.sects /\ fr.str = Top.str /\ fr.dl = Top.dl
          /\ fr.alt = Top.alt /\ fr.dbg = Top.dbg
        BY <1>4, <1>0
    <2>5. Locals(fr) \subseteq Locals(Top) \cup {0} \cup (Len(views) + 1 .. Len(views'))
        BY <2>1, <2>4 DEF Locals
    <2>6. \A v \in DOMAIN views' \ DOMAIN views :
              views'[v].kind \in {"sects", "syms"} => v \in {fr.sects, fr.syms}
        BY <2>1, <2>4 DEF IInv, TypeOK
    <2>7. {Top.sects, Top.syms} \ {fr.sects, fr.syms, 0} \subseteq {}
        BY <1>4, <2>4
    <2>8. stack' = [stack EXCEPT ![Len(stack)] = fr]
        BY <1>7 DEF SetTop
    <2>9. ~(fr.pc \in PastSyminfo) /\ fr.pc # "DwarfAdd"
        BY <2>4 DEF PastSyminfo
    <2>10. TopStepHyp(fr, {})
        BY <1>2, <1>3, <2>1, <2>3, <2>4, <2>5, <2>6, <2>7, <2>8, <2>9 DEF TopStepHyp
    <2>11. EarlyFrame(fs, fr)
        BY <2>4 DEF EarlyFrame
    <2>12. QED
        BY <1>1, <1>2, <2>10, <2>11, TopIInv
<1>8. CASE /\ Desc.syms # "none"
           /\ views' = views \o << [kind |-> "syms", rel |-> 0],
                                  [kind |-> "str", rel |-> 0] >>
           /\ SetTop([Top EXCEPT !.syms = NextView, !.str = NextView + 1,
                                 !.pc = "GetDebuglink"])
    <2> DEFINE fr == [Top EXCEPT !.syms = NextView, !.str = NextView + 1,
                                 !.pc = "GetDebuglink"]
    <2>1. /\ ViewsGrow({}) /\ Len(views') = Len(views) + 2
          /\ DOMAIN views' = 1 .. Len(views) + 2
          /\ views'[Len(views) + 1] = [kind |-> "syms", rel |-> 0]
          /\ views'[Len(views) + 2] = [kind |-> "str", rel |-> 0]
        BY <1>8, ViewsSymStr DEF IInv, TypeOK
    <2>2. NextView + 1 \in Nat
        BY <1>0
    <2>3. fr \in Frame
        BY <1>4, <1>0, <2>2 DEF Frame, Pcs
    <2>4. /\ fr.fd = Top.fd /\ fr.desc = Top.desc
          /\ fr.pc = "GetDebuglink" /\ fr.syms = Len(views) + 1
          /\ fr.str = Len(views) + 2
          /\ fr.sects = Top.sects /\ fr.dl = Top.dl
          /\ fr.alt = Top.alt /\ fr.dbg = Top.dbg
        BY <1>4, <1>0
    <2>5. Locals(fr) \subseteq Locals(Top) \cup {0} \cup (Len(views) + 1 .. Len(views'))
        BY <2>1, <2>4 DEF Locals
    <2>6. \A v \in DOMAIN views' \ DOMAIN views :
              views'[v].kind \in {"sects", "syms"} => v \in {fr.sects, fr.syms}
        BY <2>1, <2>4 DEF IInv, TypeOK
    <2>7. {Top.sects, Top.syms} \ {fr.sects, fr.syms, 0} \subseteq {}
        BY <1>4, <2>4
    <2>8. stack' = [stack EXCEPT ![Len(stack)] = fr]
        BY <1>8 DEF SetTop
    <2>9. ~(fr.pc \in PastSyminfo) /\ fr.pc # "DwarfAdd"
        BY <2>4 DEF PastSyminfo
    <2>10. TopStepHyp(fr, {})
        BY <1>2, <1>3, <2>1, <2>3, <2>4, <2>5, <2>6, <2>7, <2>8, <2>9 DEF TopStepHyp
    <2>11. EarlyFrame(fs, fr)
        BY <1>4, <1>8, <2>4 DEF EarlyFrame
    <2>12. QED
        BY <1>1, <1>2, <2>10, <2>11, TopIInv
<1>9. QED
    BY <1>5, <1>6, <1>7, <1>8 DEF GetSymtab

LEMMA GetDebuglinkIInv ==
    ASSUME IInv, stack # << >>, GetDebuglink
    PROVE  IInv'
<1>1. TypeOK'
    BY NextType DEF Next, Step, IInv
<1>2. RetFileline' /\ fs' = fs /\ dwarfViews' = dwarfViews
    BY DEF GetDebuglink, IInv, RetFileline
<1>3. FdsGrow /\ \A d \in DOMAIN fds' \ DOMAIN fds : fds'[d].closes >= 1
    BY FdsSame DEF GetDebuglink, IInv, TypeOK
<1>4. /\ Top.pc = "GetDebuglink" /\ Top \in Frame /\ Desc = fs[Top.file]
      /\ EarlyFrame(fs, Top)
    BY TopInv DEF GetDebuglink
<1>0. NextView \in Nat /\ NextView = Len(views) + 1
    BY DEF IInv, TypeOK, NextView
<1>5. CASE Goto("GetDebugaltlink") /\ views' = views
    <2>1. EarlyFrame(fs, [Top EXCEPT !.pc = "GetDebugaltlink"])
        BY <1>4 DEF EarlyFrame
    <2>2. QED
        BY <1>1, <1>2, <1>3, <1>5, <2>1, GotoIInv DEF Pcs, PastSyminfo
<1>6. CASE Goto("Fail") /\ views' = views
    <2>1. EarlyFrame(fs, [Top EXCEPT !.pc = "Fail"])
        BY DEF EarlyFrame
    <2>2. QED
        BY <1>1, <1>2, <1>3, <1>6, <2>1, GotoIInv DEF Pcs, PastSyminfo
<1>7. CASE Obtain("debuglink") /\ SetTop([Top EXCEPT !.dl = NextView, !.dlName = TRUE,
                                              !.pc = "GetDebugaltlink"])
    <2> DEFINE fr == [Top EXCEPT !.dl = NextView, !.dlName = TRUE, !.pc = "GetDebugaltlink"]
    <2>1. /\ ViewsGrow({}) /\ Len(views') = Len(views) + 1
          /\ DOMAIN views' = 1 .. Len(views) + 1
          /\ views'[Len(views) + 1] = [kind |-> "debuglink", rel |-> 0]
        BY <1>7, ViewsObtain DEF IInv, TypeOK, ViewKinds
    <2>3. fr \in Frame
        BY <1>4, <1>0 DEF Frame, Pcs
    <2>4. /\ fr.fd = Top.fd /\ fr.desc = Top.desc /\ fr.file = Top.file
          /\ fr.pc = "GetDebugaltlink" /\ fr.dl = Len(views) + 1
          /\ fr.sects = Top.sects /\ fr.syms = Top.syms /\ fr.str = Top.str
          /\ fr.alt = Top.alt /\ fr.dbg = Top.dbg
        BY <1>4, <1>0
    <2>5. Locals(fr) \subseteq Locals(Top) \cup {0} \cup (Len(views) + 1 .. Len(views'))
        BY <2>1, <2>4 DEF Locals
    <2>6. \A v \in DOMAIN views' \ DOMAIN views :
              views'[v].kind \in {"sects", "syms"} => v \in {fr.sects, fr.syms}
        BY <2>1 DEF IInv, TypeOK
    <2>7. {Top.sects, Top.syms} \ {fr.sects, fr.syms, 0} \subseteq {}
        BY <2>4
    <2>8. stack' = [stack EXCEPT ![Len(stack)] = fr]
        BY <1>7 DEF SetTop
    <2>9. ~(fr.pc \in PastSyminfo) /\ fr.pc # "DwarfAdd"
        BY <2>4 DEF PastSyminfo
    <2>10. TopStepHyp(fr, {})
        BY <1>2, <1>3, <2>1, <2>3, <2>4, <2>5, <2>6, <2>7, <2>8, <2>9 DEF TopStepHyp
    <2>11. EarlyFrame(fs, fr)
        BY <1>4, <2>4 DEF EarlyFrame
    <2>12. QED
        BY <1>1, <1>2, <2>10, <2>11, TopIInv
<1>8. QED
    BY <1>5, <1>6, <1>7 DEF GetDebuglink

LEMMA GetDebugaltlinkIInv ==
    ASSUME IInv, stack # << >>, GetDebugaltlink
    PROVE  IInv'
<1>1. TypeOK'
    BY NextType DEF Next, Step, IInv
<1>2. RetFileline' /\ fs' = fs /\ dwarfViews' = dwarfViews
    BY DEF GetDebugaltlink, IInv, RetFileline
<1>3. FdsGrow /\ \A d \in DOMAIN fds' \ DOMAIN fds : fds'[d].closes >= 1
    BY FdsSame DEF GetDebugaltlink, IInv, TypeOK
<1>4. /\ Top.pc = "GetDebugaltlink" /\ Top \in Frame /\ Desc = fs[Top.file]
      /\ EarlyFrame(fs, Top)
    BY TopInv DEF GetDebugaltlink
<1>0. NextView \in Nat /\ NextView = Len(views) + 1
    BY DEF IInv, TypeOK, NextView
<1>5. CASE Goto("AddSyminfo") /\ views' = views
    <2>1. EarlyFrame(fs, [Top EXCEPT !.pc = "AddSyminfo"])
        BY <1>4 DEF EarlyFrame
    <2>2. QED
        BY <1>1, <1>2, <1>3, <1>5, <2>1, GotoIInv DEF Pcs, PastSyminfo
<1>6. CASE Goto("Fail") /\ views' = views
    <2>1. EarlyFrame(fs, [Top EXCEPT !.pc = "Fail"])
        BY DEF EarlyFrame
    <2>2. QED
        BY <1>1, <1>2, <1>3, <1>6, <2>1, GotoIInv DEF Pcs, PastSyminfo
<1>7. CASE Obtain("debugaltlink") /\ SetTop([Top EXCEPT !.alt = NextView, !.altName = TRUE,
                                              !.pc = "AddSyminfo"])
    <2> DEFINE fr == [Top EXCEPT !.alt = NextView, !.altName = TRUE, !.pc = "AddSyminfo"]
    <2>1. /\ ViewsGrow({}) /\ Len(views') = Len(views) + 1
          /\ DOMAIN views' = 1 .. Len(views) + 1
          /\ views'[Len(views) + 1] = [kind |-> "debugaltlink", rel |-> 0]
        BY <1>7, ViewsObtain DEF IInv, TypeOK, ViewKinds
    <2>3. fr \in Frame
        BY <1>4, <1>0 DEF Frame, Pcs
    <2>4. /\ fr.fd = Top.fd /\ fr.desc = Top.desc /\ fr.file = Top.file
          /\ fr.pc = "AddSyminfo" /\ fr.alt = Len(views) + 1
          /\ fr.sects = Top.sects /\ fr.syms = Top.syms /\ fr.str = Top.str
          /\ fr.dl = Top.dl /\ fr.dbg = Top.dbg
        BY <1>4, <1>0
    <2>5. Locals(fr) \subseteq Locals(Top) \cup {0} \cup (Len(views) + 1 .. Len(views'))
        BY <2>1, <2>4 DEF Locals
    <2>6. \A v \in DOMAIN views' \ DOMAIN views :
              views'[v].kind \in {"sects", "syms"} => v \in {fr.sects, fr.syms}
        BY <2>1 DEF IInv, TypeOK
    <2>7. {Top.sects, Top.syms} \ {fr.sects, fr.syms, 0} \subseteq {}
        BY <2>4
    <2>8. stack' = [stack EXCEPT ![Len(stack)] = fr]
        BY <1>7 DEF SetTop
    <2>9. ~(fr.pc \in PastSyminfo) /\ fr.pc # "DwarfAdd"
        BY <2>4 DEF PastSyminfo
    <2>10. TopStepHyp(fr, {})
        BY <1>2, <1>3, <2>1, <2>3, <2>4, <2>5, <2>6, <2>7, <2>8, <2>9 DEF TopStepHyp
    <2>11. EarlyFrame(fs, fr)
        BY <1>4, <2>4 DEF EarlyFrame
    <2>12. QED
        BY <1>1, <1>2, <2>10, <2>11, TopIInv
<1>8. QED
    BY <1>5, <1>6, <1>7 DEF GetDebugaltlink

LEMMA AddSyminfoIInv ==
    ASSUME IInv, stack # << >>, AddSyminfo
    PROVE  IInv'
<1>1. TypeOK'
    BY NextType DEF Next, Step, IInv
<1>2. RetFileline' /\ fs' = fs /\ dwarfViews' = dwarfViews
    BY DEF AddSyminfo, IInv, RetFileline
<1>3. FdsGrow /\ \A d \in DOMAIN fds' \ DOMAIN fds : fds'[d].closes >= 1
    BY FdsSame DEF AddSyminfo, IInv, TypeOK
<1>4. /\ Top.pc = "AddSyminfo" /\ Top \in Frame /\ Desc = fs[Top.file]
      /\ EarlyFrame(fs, Top)
    BY TopInv DEF AddSyminfo
<1>5. views \in Seq(ViewRec)
    BY DEF IInv, TypeOK
<1>6. CASE Goto("Fail") /\ views' = views
    <2>1. EarlyFrame(fs, [Top EXCEPT !.pc = "Fail"])
        BY DEF EarlyFrame
    <2>2. QED
        BY <1>1, <1>2, <1>3, <1>6, <2>1, GotoIInv DEF Pcs, PastSyminfo
<1>7. ASSUME NEW S, NEW fr,
             views' = Released(views, S), SetTop(fr),
             S = {Top.sects, Top.syms} \/ (S = {Top.sects} /\ Top.syms = 0),
             fr = [Top EXCEPT !.sects = 0, !.syms = 0, !.pc = "TryDebuglink"]
      PROVE  IInv'
    <2>1. ViewsGrow(S \ {0}) /\ Len(views') = Len(views)
        <3>1. ViewsGrow(S) /\ Len(views') = Len(views)
            BY <1>5, <1>7, ReleasedGrow
        <3>2. QED
            BY <1>5, <3>1, ViewsGrowNoZero
    <2>2. fr \in Frame
        BY <1>4, <1>7 DEF Frame, Pcs
    <2>3. /\ fr.fd = Top.fd /\ fr.desc = Top.desc
          /\ fr.pc = "TryDebuglink" /\ fr.sects = 0 /\ fr.syms = 0
          /\ fr.str = Top.str /\ fr.dl = Top.dl /\ fr.alt = Top.alt /\ fr.dbg = Top.dbg
        BY <1>4, <1>7
    <2>4. Locals(fr) \subseteq Locals(Top) \cup {0} \cup (Len(views) + 1 .. Len(views'))
        BY <2>3 DEF Locals
    <2>5. S \ {0} \subseteq Locals(Top) \ {0}
        BY <1>7 DEF Locals
    <2>6. {Top.sects, Top.syms} \ {fr.sects, fr.syms, 0} \subseteq S \ {0}
        BY <1>7, <2>3
    <2>7. DOMAIN views' \ DOMAIN views = {}
        BY <1>5, <2>1 DEF ViewsGrow
    <2>8. stack' = [stack EXCEPT ![Len(stack)] = fr]
        BY <1>7 DEF SetTop
    <2>9. TopStepHyp(fr, S \ {0})
        BY <1>2, <1>3, <2>1, <2>2, <2>3, <2>4, <2>5, <2>6, <2>7, <2>8
        DEF TopStepHyp, PastSyminfo
    <2>10. EarlyFrame(fs, fr)
        BY <2>3 DEF EarlyFrame
    <2>11. QED
        BY <1>1, <1>2, <2>9, <2>10, TopIInv
<1>8. CASE /\ Desc.syms = "none"
           /\ views' = Released(views, {Top.sects})
           /\ SetTop([Top EXCEPT !.sects = 0, !.pc = "TryDebuglink"])
    <2>1. Top.syms = 0
        BY <1>4, <1>8 DEF EarlyFrame
    <2>2. [Top EXCEPT !.sects = 0, !.pc = "TryDebuglink"]
          = [Top EXCEPT !.sects = 0, !.syms = 0, !.pc = "TryDebuglink"]
        BY <1>4, <2>1 DEF Frame
    <2>3. QED
        BY <1>7, <1>8, <2>1, <2>2
<1>9. CASE /\ views' = Released(views, {Top.sects, Top.syms})
           /\ SetTop([Top EXCEPT !.sects = 0, !.syms = 0, !.pc = "TryDebuglink"])
    BY <1>7, <1>9
<1>10. QED
    BY <1>6, <1>8, <1>9 DEF AddSyminfo

(* A recursive call on a debug file just opened, the caller releasing its *)
(* debuglink views first.                                                  *)
LEMMA CallIInv ==
    ASSUME IInv, stack # << >>, TypeOK', RetFileline', fs' = fs,
           Top.pc \in PastSyminfo,
           NEW p \in {"AfterDebuglink", "AfterDebugaltlink"}, NEW f \in Files,
           NEW nv \in Nat, Call(p, f, nv),
           fds' = Append(fds, [file |-> f, closes |-> 0]),
           views' = Released(views, {Top.dl, Top.alt} \ {0}),
           dwarfViews' = dwarfViews
    PROVE  IInv'
<1> DEFINE tp == [Top EXCEPT !.pc = p, !.child = NextFd]
           nf == NewFrame(f, NextFd, nv)
           S == {Top.dl, Top.alt} \ {0}
<1>1. Top \in Frame /\ fds \in Seq(FdRec) /\ views \in Seq(ViewRec)
    BY TopInv DEF IInv, TypeOK
<1>2. NextFd \in Nat \ {0} /\ NextFd = Len(fds) + 1
    BY <1>1 DEF NextFd
<1>3. tp \in Frame /\ nf \in Frame
    <2>1. tp \in Frame
        BY <1>1, <1>2 DEF Frame, Pcs
    <2>2. nf \in Frame
        BY <1>2, NewFrameType
    <2>3. QED
        BY <2>1, <2>2
<1>4. /\ tp.fd = Top.fd /\ tp.desc = Top.desc /\ tp.pc = p
      /\ tp.sects = Top.sects /\ tp.syms = Top.syms /\ Locals(tp) = Locals(Top)
    BY <1>1 DEF Locals
<1>5. /\ nf.fd = Len(fds) + 1 /\ nf.desc /\ nf.pc = "GetFileHeader"
      /\ Locals(nf) = {0} /\ nf.sects = 0 /\ nf.syms = 0
    BY <1>2 DEF NewFrame, Locals
<1>6. /\ fds' \in Seq(FdRec) /\ Len(fds') = Len(fds) + 1
      /\ \A d \in DOMAIN fds : fds'[d] = fds[d]
    <2>1. fds' \in Seq(FdRec)
        BY <1>1, OpenType
    <2>2. QED
        BY <1>1, <2>1, FdsAppend
<1>7. ViewsGrow(S) /\ Len(views') = Len(views)
    BY <1>1, ReleasedGrow
<1>8. S \subseteq Locals(Top) \ {0}
    BY DEF Locals
<1>9. stack' = Append([stack EXCEPT ![Len(stack)] = tp], nf)
    BY DEF Call
<1>10. PushStepHyp(S, tp, nf)
    BY <1>3, <1>4, <1>5, <1>6, <1>7, <1>8, <1>9 DEF PushStepHyp
<1>11. EarlyFrame(fs, tp) /\ EarlyFrame(fs, nf)
    BY <1>4, <1>5 DEF EarlyFrame
<1>12. QED
    BY <1>10, <1>11, PushIInv

LEMMA TryDebuglinkIInv ==
    ASSUME IInv, stack # << >>, TryDebuglink
    PROVE  IInv'
<1>1. TypeOK'
    BY NextType DEF Next, Step, IInv
<1>2. RetFileline' /\ fs' = fs /\ dwarfViews' = dwarfViews
    BY DEF TryDebuglink, IInv, RetFileline
<1>3. /\ Top.pc = "TryDebuglink" /\ Top \in Frame /\ Desc \in FileDesc
      /\ fds \in Seq(FdRec)
    BY TopInv DEF TryDebuglink, IInv, TypeOK
<1>4. EarlyFrame(fs, [Top EXCEPT !.pc = "TryDebugaltlink"])
    BY DEF EarlyFrame
<1>5. CASE UNCHANGED <<fds, views>> /\ Goto("TryDebugaltlink")
    <2>1. FdsGrow /\ \A d \in DOMAIN fds' \ DOMAIN fds : fds'[d].closes >= 1
        BY <1>3, <1>5, FdsSame
    <2>2. QED
        BY <1>1, <1>2, <1>3, <1>4, <1>5, <2>1, GotoIInv DEF Pcs, PastSyminfo
<1>6. CASE /\ DebugfileCrcRejected(Desc.link, Desc.crc)
           /\ Goto("TryDebugaltlink") /\ views' = views
    <2>1. Desc.link \in Files
        BY <1>3, <1>6 DEF DebugfileCrcRejected, FileDesc
    <2>2. /\ FdsGrow /\ DOMAIN fds' = 1 .. Len(fds) + 1
          /\ fds'[Len(fds) + 1].closes = 1
        BY <1>3, <1>6, <2>1, FdsAppend DEF DebugfileCrcRejected
    <2>3. \A d \in DOMAIN fds' \ DOMAIN fds : fds'[d].closes >= 1
        BY <1>3, <2>2
    <2>4. QED
        BY <1>1, <1>2, <1>3, <1>4, <1>6, <2>2, <2>3, GotoIInv DEF Pcs, PastSyminfo
<1>7. CASE /\ DebugfileOpened(Desc.link, Desc.crc)
           /\ views' = Released(views, {Top.dl, Top.alt} \ {0})
           /\ Call("AfterDebuglink", Desc.link, Top.dl)
    <2>1. Desc.link \in Files /\ Top.dl \in Nat
        BY <1>3, <1>7 DEF DebugfileOpened, FileDesc, Frame
    <2>2. fds' = Append(fds, [file |-> Desc.link, closes |-> 0])
        BY <1>7 DEF DebugfileOpened
    <2>3. QED
        BY <1>1, <1>2, <1>3, <1>7, <2>1, <2>2, CallIInv DEF PastSyminfo
<1>8. QED
    BY <1>5, <1>6, <1>7 DEF TryDebuglink, DebugfileNotFound

LEMMA TryDebugaltlinkIInv ==
    ASSUME IInv, stack # << >>, TryDebugaltlink
    PROVE  IInv'
<1>1. TypeOK'
    BY NextType DEF Next, Step, IInv
<1>2. RetFileline' /\ fs' = fs /\ dwarfViews' = dwarfViews
    BY DEF TryDebugaltlink, IInv, RetFileline
<1>3. /\ Top.pc = "TryDebugaltlink" /\ Top \in Frame /\ Desc \in FileDesc
      /\ fds \in Seq(FdRec)
    BY TopInv DEF TryDebugaltlink, IInv, TypeOK
<1>4. EarlyFrame(fs, [Top EXCEPT !.pc = "GetDebugView"])
    BY DEF EarlyFrame
<1>5. CASE UNCHANGED <<fds, views>> /\ Goto("GetDebugView")
    <2>1. FdsGrow /\ \A d \in DOMAIN fds' \ DOMAIN fds : fds'[d].closes >= 1
        BY <1>3, <1>5, FdsSame
    <2>2. QED
        BY <1>1, <1>2, <1>3, <1>4, <1>5, <2>1, GotoIInv DEF Pcs, PastSyminfo
<1>6. CASE /\ DebugfileCrcRejected(Desc.alt, Desc.crc)
           /\ Goto("GetDebugView") /\ views' = views
    <2>1. Desc.alt \in Files
        BY <1>3, <1>6 DEF DebugfileCrcRejected, FileDesc
    <2>2. /\ FdsGrow /\ DOMAIN fds' = 1 .. Len(fds) + 1
          /\ fds'[Len(fds) + 1].closes = 1
        BY <1>3, <1>6, <2>1, FdsAppend DEF DebugfileCrcRejected
    <2>3. \A d \in DOMAIN fds' \ DOMAIN fds : fds'[d].closes >= 1
        BY <1>3, <2>2
    <2>4. QED
        BY <1>1, <1>2, <1>3, <1>4, <1>6, <2>2, <2>3, GotoIInv DEF Pcs, PastSyminfo
<1>7. CASE /\ DebugfileOpened(Desc.alt, "zero")
           /\ views' = Released(views, {Top.dl, Top.alt} \ {0})
           /\ Call("AfterDebugaltlink", Desc.alt, Top.nameView)
    <2>1. Desc.alt \in Files /\ Top.nameView \in Nat
        BY <1>3, <1>7 DEF DebugfileOpened, FileDesc, Frame
    <2>2. fds' = Append(fds, [file |-> Desc.alt, closes |-> 0])
        BY <1>7 DEF DebugfileOpened
    <2>3. QED
        BY <1>1, <1>2, <1>3, <1>7, <2>1, <2>2, CallIInv DEF PastSyminfo
<1>8. QED
    BY <1>5, <1>6, <1>7 DEF TryDebugaltlink, DebugfileNotFound

LEMMA AfterDebuglinkIInv ==
    ASSUME IInv, stack # << >>, AfterDebuglink
    PROVE  IInv'
<1>1. TypeOK'
    BY NextType DEF Next, Step, IInv
<1>2. fs' = fs /\ dwarfViews' = dwarfViews /\ views' = views /\ fileline' = fileline
    BY DEF AfterDebuglink
<1>3. /\ Top.pc = "AfterDebuglink" /\ Top \in Frame /\ Top.sects = 0 /\ Top.syms = 0
      /\ Top.fd \in DOMAIN fds
      /\ fds \in Seq(FdRec) /\ views \in Seq(ViewRec)
    BY TopInv DEF AfterDebuglink, IInv, TypeOK, PastSyminfo
<1>4. CASE ret = 0 /\ fds' = Closed(fds, {Top.child}) /\ Goto("TryDebugaltlink") /\ ret' = ret
    <2>1. FdsGrow /\ Len(fds') = Len(fds)
        BY <1>3, <1>4, ClosedGrow
    <2>2. \A d \in DOMAIN fds' \ DOMAIN fds : fds'[d].closes >= 1
        BY <1>3, <2>1 DEF FdsGrow
    <2>3. RetFileline'
        BY <1>2, <1>4 DEF IInv, RetFileline
    <2>4. EarlyFrame(fs, [Top EXCEPT !.pc = "TryDebugaltlink"])
        BY DEF EarlyFrame
    <2>5. QED
        BY <1>1, <1>2, <1>3, <1>4, <2>1, <2>2, <2>3, <2>4, GotoIInv DEF Pcs, PastSyminfo
<1>5. CASE ret = 1 /\ fds' = Closed(fds, {Top.fd}) /\ Return(1)
    <2>1. FdsGrow /\ Len(fds') = Len(fds) /\ fds'[Top.fd].closes >= 1
        BY <1>3, <1>5, ClosedGrow
    <2>2. ViewsGrow({}) /\ Len(views') = Len(views)
        BY <1>2, <1>3, ViewsSame
    <2>3. PopStepHyp({})
        BY <1>2, <1>3, <1>5, <2>1, <2>2 DEF PopStepHyp, Return
    <2>4. RetFileline'
        BY <1>2, <1>5 DEF IInv, RetFileline, Return
    <2>5. QED
        BY <1>1, <1>2, <2>3, <2>4, PopIInv
<1>6. QED
    BY <1>4, <1>5 DEF AfterDebuglink

LEMMA AfterDebugaltlinkIInv ==
    ASSUME IInv, stack # << >>, AfterDebugaltlink
    PROVE  IInv'
<1>1. TypeOK'
    BY NextType DEF Next, Step, IInv
<1>2. fs' = fs /\ dwarfViews' = dwarfViews /\ views' = views /\ fileline' = fileline
    BY DEF AfterDebugaltlink
<1>3. /\ Top.pc = "AfterDebugaltlink" /\ Top \in Frame /\ Top.sects = 0 /\ Top.syms = 0
      /\ Top.fd \in DOMAIN fds
      /\ fds \in Seq(FdRec) /\ views \in Seq(ViewRec)
    BY TopInv DEF AfterDebugaltlink, IInv, TypeOK, PastSyminfo
<1>4. CASE ret = 0 /\ fds' = Closed(fds, {Top.child}) /\ Goto("GetDebugView") /\ ret' = ret
    <2>1. FdsGrow /\ Len(fds') = Len(fds)
        BY <1>3, <1>4, ClosedGrow
    <2>2. \A d \in DOMAIN fds' \ DOMAIN fds : fds'[d].closes >= 1
        BY <1>3, <2>1 DEF FdsGrow
    <2>3. RetFileline'
        BY <1>2, <1>4 DEF IInv, RetFileline
    <2>4. EarlyFrame(fs, [Top EXCEPT !.pc = "GetDebugView"])
        BY DEF EarlyFrame
    <2>5. QED
        BY <1>1, <1>2, <1>3, <1>4, <2>1, <2>2, <2>3, <2>4, GotoIInv DEF Pcs, PastSyminfo
<1>5. CASE ret = 1 /\ fds' = Closed(fds, {Top.fd}) /\ Return(1)
    <2>1. FdsGrow /\ Len(fds') = Len(fds) /\ fds'[Top.fd].closes >= 1
        BY <1>3, <1>5, ClosedGrow
    <2>2. ViewsGrow({}) /\ Len(views') = Len(views)
        BY <1>2, <1>3, ViewsSame
    <2>3. PopStepHyp({})
        BY <1>2, <1>3, <1>5, <2>1, <2>2 DEF PopStepHyp, Return
    <2>4. RetFileline'
        BY <1>2, <1>5 DEF IInv, RetFileline, Return
    <2>5. QED
        BY <1>1, <1>2, <2>3, <2>4, PopIInv
<1>6. QED
    BY <1>4, <1>5 DEF AfterDebugaltlink

LEMMA GetDebugViewIInv ==
    ASSUME IInv, stack # << >>, GetDebugView
    PROVE  IInv'
<1>1. TypeOK'
    BY NextType DEF Next, Step, IInv
<1>2. fs' = fs /\ dwarfViews' = dwarfViews
    BY DEF GetDebugView
<1>3. /\ Top.pc = "GetDebugView" /\ Top \in Frame /\ Top.sects = 0 /\ Top.syms = 0
      /\ Top.fd \in DOMAIN fds
      /\ fds \in Seq(FdRec) /\ views \in Seq(ViewRec)
    BY TopInv DEF GetDebugView, IInv, TypeOK, PastSyminfo
<1>4. EarlyFrame(fs, [Top EXCEPT !.pc = "Fail"])
    BY DEF EarlyFrame
<1>5. CASE fds' = Closed(fds, {Top.fd}) /\ fileline' = "nodebug" /\ Return(1)
           /\ views' = views
    <2>1. FdsGrow /\ Len(fds') = Len(fds) /\ fds'[Top.fd].closes >= 1
        BY <1>3, <1>5, ClosedGrow
    <2>2. ViewsGrow({}) /\ Len(views') = Len(views)
        BY <1>3, <1>5, ViewsSame
    <2>3. PopStepHyp({})
        BY <1>2, <1>3, <1>5, <2>1, <2>2 DEF PopStepHyp, Return
    <2>4. RetFileline'
        BY <1>5 DEF RetFileline
    <2>5. QED
        BY <1>1, <1>2, <2>3, <2>4, PopIInv
<1>6. CASE fds' = Closed(fds, {Top.fd}) /\ Goto("Fail") /\ UNCHANGED <<fileline, ret, views>>
    <2>1. FdsGrow /\ Len(fds') = Len(fds)
        BY <1>3, <1>6, ClosedGrow
    <2>2. \A d \in DOMAIN fds' \ DOMAIN fds : fds'[d].closes >= 1
        BY <1>3, <2>1 DEF FdsGrow
    <2>3. RetFileline'
        BY <1>6 DEF IInv, RetFileline
    <2>4. QED
        BY <1>1, <1>2, <1>4, <1>6, <2>1, <2>2, <2>3, GotoIInv DEF Pcs, PastSyminfo
<1>7. CASE Goto("Fail") /\ UNCHANGED <<views, fds, fileline, ret>>
    <2>1. FdsGrow /\ \A d \in DOMAIN fds' \ DOMAIN fds : fds'[d].closes >= 1
        BY <1>3, <1>7, FdsSame
    <2>2. RetFileline'
        BY <1>7 DEF IInv, RetFileline
    <2>3. QED
        BY <1>1, <1>2, <1>4, <1>7, <2>1, <2>2, GotoIInv DEF Pcs, PastSyminfo
<1>8. CASE /\ Obtain("debug")
           /\ SetTop([Top EXCEPT !.dbg = NextView, !.pc = "DwarfAdd"])
           /\ UNCHANGED <<fds, fileline, ret>>
    <2> DEFINE fr == [Top EXCEPT !.dbg = NextView, !.pc = "DwarfAdd"]
    <2>0. NextView \in Nat /\ NextView = Len(views) + 1
        BY <1>3 DEF NextView
    <2>1. /\ ViewsGrow({}) /\ Len(views') = Len(views) + 1
          /\ DOMAIN views' = 1 .. Len(views) + 1
          /\ views'[Len(views) + 1] = [kind |-> "debug", rel |-> 0]
        BY <1>3, <1>8, ViewsObtain DEF ViewKinds
    <2>2. FdsGrow /\ \A d \in DOMAIN fds' \ DOMAIN fds : fds'[d].closes >= 1
        BY <1>3, <1>8, FdsSame
    <2>3. fr \in Frame
        BY <1>3, <2>0 DEF Frame, Pcs
    <2>4. /\ fr.fd = Top.fd /\ fr.desc = Top.desc
          /\ fr.pc = "DwarfAdd" /\ fr.dbg = Len(views) + 1
          /\ fr.sects = 0 /\ fr.syms = 0 /\ fr.str = Top.str /\ fr.dl = Top.dl
          /\ fr.alt = Top.alt
        BY <1>3, <2>0
    <2>5. Locals(fr) \subseteq Locals(Top) \cup {0} \cup (Len(views) + 1 .. Len(views'))
        BY <2>1, <2>4 DEF Locals
    <2>6. \A v \in DOMAIN views' \ DOMAIN views :
              views'[v].kind \in {"sects", "syms"} => v \in {fr.sects, fr.syms}
        BY <1>3, <2>1
    <2>7. {Top.sects, Top.syms} \ {fr.sects, fr.syms, 0} \subseteq {}
        BY <1>3, <2>4
    <2>8. stack' = [stack EXCEPT ![Len(stack)] = fr]
        BY <1>8 DEF SetTop
    <2>9. fr.dbg \in DOMAIN views' /\ views'[fr.dbg].rel = 0
        BY <2>1, <2>4
    <2>10. TopStepHyp(fr, {})
        BY <1>2, <2>1, <2>2, <2>3, <2>4, <2>5, <2>6, <2>7, <2>8, <2>9 DEF TopStepHyp
    <2>11. EarlyFrame(fs, fr)
        BY <2>4 DEF EarlyFrame
    <2>12. RetFileline'
        BY <1>8 DEF IInv, RetFileline
    <2>13. QED
        BY <1>1, <1>2, <2>10, <2>11, <2>12, TopIInv
<1>9. QED
    BY <1>5, <1>6, <1>7, <1>8 DEF GetDebugView

LEMMA DwarfAddIInv ==
    ASSUME IInv, stack # << >>, DwarfAdd
    PROVE  IInv'
<1>1. TypeOK'
    BY NextType DEF Next, Step, IInv
<1>2. fs' = fs /\ views' = views
    BY DEF DwarfAdd
<1>3. /\ Top.pc = "DwarfAdd" /\ Top \in Frame /\ Top.sects = 0 /\ Top.syms = 0
      /\ Top.fd \in DOMAIN fds
      /\ fds \in Seq(FdRec) /\ views \in Seq(ViewRec)
    BY TopInv DEF DwarfAdd, IInv, TypeOK, PastSyminfo
<1>4. FdsGrow /\ Len(fds') = Len(fds) /\ fds'[Top.fd].closes >= 1
    BY <1>3, ClosedGrow DEF DwarfAdd
<1>5. \A d \in DOMAIN fds' \ DOMAIN fds : fds'[d].closes >= 1
    BY <1>3, <1>4 DEF FdsGrow
<1>6. ViewsGrow({}) /\ Len(views') = Len(views)
    BY <1>2, <1>3, ViewsSame
<1>7. CASE Goto("Fail") /\ UNCHANGED <<fileline, dwarfViews, ret>>
    <2>1. EarlyFrame(fs, [Top EXCEPT !.pc = "Fail"])
        BY DEF EarlyFrame
    <2>2. RetFileline'
        BY <1>7 DEF IInv, RetFileline
    <2>3. QED
        BY <1>1, <1>2, <1>4, <1>5, <1>7, <2>1, <2>2, GotoIInv DEF Pcs, PastSyminfo
<1>8. CASE /\ SetTop([Top EXCEPT !.desc = FALSE, !.pc = "Fail"])
           /\ UNCHANGED <<fileline, dwarfViews, ret>>
    <2> DEFINE fr == [Top EXCEPT !.desc = FALSE, !.pc = "Fail"]
    <2>1. fr \in Frame
        BY <1>3 DEF Frame, Pcs
    <2>2. /\ fr.fd = Top.fd /\ fr.pc = "Fail" /\ Locals(fr) = Locals(Top)
          /\ fr.sects = Top.sects /\ fr.syms = Top.syms
        BY <1>3 DEF Locals
    <2>3. DOMAIN views' \ DOMAIN views = {}
        BY <1>2
    <2>4. stack' = [stack EXCEPT ![Len(stack)] = fr]
        BY <1>8 DEF SetTop
    <2>5. TopStepHyp(fr, {})
        BY <1>4, <1>5, <1>6, <1>8, <2>1, <2>2, <2>3, <2>4 DEF TopStepHyp, PastSyminfo
    <2>6. EarlyFrame(fs, fr)
        BY <2>2 DEF EarlyFrame
    <2>7. RetFileline'
        BY <1>8 DEF IInv, RetFileline
    <2>8. QED
        BY <1>1, <1>2, <2>5, <2>6, <2>7, TopIInv
<1>9. CASE /\ dwarfViews' = dwarfViews \cup {Top.dbg}
           /\ fileline' = "dwarf"
           /\ Return(1)
    <2>1. PopStepHyp({})
        BY <1>3, <1>4, <1>6, <1>9 DEF PopStepHyp, Return
    <2>2. RetFileline'
        BY <1>9 DEF RetFileline
    <2>3. QED
        BY <1>1, <1>2, <2>1, <2>2, PopIInv
<1>10. QED
    BY <1>7, <1>8, <1>9 DEF DwarfAdd

LEMMA FailIInv ==
    ASSUME IInv, stack # << >>, Fail
    PROVE  IInv'
<1> DEFINE S == {Top.sects, Top.str, Top.syms, Top.dbg} \ {0}
<1>1. TypeOK'
    BY NextType DEF Next, Step, IInv
<1>2. fs' = fs /\ dwarfViews' = dwarfViews
    BY DEF Fail
<1>3. /\ Top \in Frame /\ Top.fd \in DOMAIN fds
      /\ ~Top.desc => fds[Top.fd].closes >= 1
      /\ fds \in Seq(FdRec) /\ views \in Seq(ViewRec)
    BY TopInv DEF IInv, TypeOK
<1>4. ViewsGrow(S) /\ Len(views') = Len(views)
    BY <1>3, ReleasedGrow DEF Fail
<1>5. FdsGrow /\ Len(fds') = Len(fds)
    BY <1>3, ClosedGrow DEF Fail
<1>6. fds'[Top.fd].closes >= 1
    <2>1. CASE Top.desc
        BY <1>3, <2>1, ClosedGrow DEF Fail
    <2>2. CASE ~Top.desc
        <3>1. fds[Top.fd].closes \in Nat /\ fds'[Top.fd].closes \in Nat
            <4>1. fds[Top.fd] \in FdRec /\ fds'[Top.fd] \in FdRec
                BY <1>3, <1>5 DEF FdsGrow
            <4>2. QED
                BY <4>1 DEF FdRec
        <3>2. fds'[Top.fd].closes >= fds[Top.fd].closes
            BY <1>3, <1>5 DEF FdsGrow
        <3>3. QED
            BY <1>3, <2>2, <3>1, <3>2
    <2>3. QED
        BY <2>1, <2>2
<1>7. S \subseteq Locals(Top) \ {0} /\ {Top.sects, Top.syms} \ {0} \subseteq S
    BY DEF Locals
<1>8. PopStepHyp(S)
    BY <1>2, <1>4, <1>5, <1>6, <1>7 DEF PopStepHyp, Fail, Return
<1>9. RetFileline'
    BY DEF Fail, Return, RetFileline
<1>10. QED
    BY <1>1, <1>2, <1>8, <1>9, PopIInv

-----------------------------------------------------------------------------
(* The invariant holds initially and after every step.                     *)

LEMMA InitIInv == Init => IInv
<1> SUFFICES ASSUME Init PROVE IInv
    OBVIOUS
<1>1. TypeOK
    BY InitType
<1>2. /\ stack = << NewFrame(Primary, 1, 0) >> /\ views = << >>
      /\ fds = << [file |-> Primary, closes |-> 0] >>
      /\ ret = 0 /\ dwarfViews = {}
    BY DEF Init
<1>3. /\ DOMAIN stack = {1} /\ DOMAIN fds = {1} /\ DOMAIN views = {}
      /\ stack[1] = NewFrame(Primary, 1, 0)
    BY <1>2
<1>4. /\ stack[1].fd = 1 /\ stack[1].desc /\ stack[1].pc = "GetFileHeader"
      /\ Locals(stack[1]) = {0} /\ stack[1].sects = 0 /\ stack[1].syms = 0
    BY <1>3 DEF NewFrame, Locals
<1>5. /\ RetFileline /\ FdsHeld /\ DescriptorClosedOnReturn
      /\ LocalsInRange /\ LocalsOrdered
    BY <1>2, <1>3, <1>4 DEF RetFileline, FdsHeld, DescriptorClosedOnReturn,
                           LocalsInRange, LocalsOrdered
<1>6. /\ TransientCleared /\ TransientViewsReleased /\ DwarfUnheld
      /\ RegisteredDwarfViewLive /\ DbgLive /\ SymsUnset
    BY <1>2, <1>3, <1>4 DEF TransientCleared, TransientViewsReleased, DwarfUnheld,
                           RegisteredDwarfViewLive, DbgLive, SymsUnset, EarlyFrame,
                           PastSyminfo, Live
<1>7. QED
    BY <1>1, <1>5, <1>6 DEF IInv

LEMMA NextIInv == IInv /\ [Next]_vars => IInv'
<1> SUFFICES ASSUME IInv, [Next]_vars PROVE IInv'
    OBVIOUS
<1>1. CASE stack # << >> /\ Step
    BY <1>1, GetFileHeaderIInv, GetSectionsIInv, GetSymtabIInv, GetDebuglinkIInv,
       GetDebugaltlinkIInv, AddSyminfoIInv, TryDebuglinkIInv, AfterDebuglinkIInv,
       TryDebugaltlinkIInv, AfterDebugaltlinkIInv, GetDebugViewIInv, DwarfAddIInv,
       FailIInv
    DEF Step
<1>2. CASE FinishInitialize \/ UNCHANGED vars
    <2>1. TypeOK'
        BY NextType DEF IInv
    <2>2. UNCHANGED <<fs, stack, views, fds, ret, fileline, dwarfViews>>
        BY <1>2 DEF FinishInitialize, vars
    <2>3. QED
        BY <2>1, <2>2 DEF IInv, RetFileline, FdsHeld, DescriptorClosedOnReturn,
                          LocalsInRange, LocalsOrdered, TransientCleared,
                          TransientViewsReleased, DwarfUnheld, RegisteredDwarfViewLive,
                          DbgLive, SymsUnset, EarlyFrame, Live
<1>3. QED
    BY <1>1, <1>2 DEF Next

LEMMA IInvHolds == Spec => []IInv
BY InitIInv, NextIInv, PTL DEF Spec

-----------------------------------------------------------------------------
(* The resource properties the runs of MC_CoffAdd check, for every set of  *)
(* files, every file system and every set of environment failures.         *)

(* Every descriptor coff_add or one of its recursive calls opened is       *)
(* closed by the time the call that owns it has returned: on success       *)
(* (backtrace_close at 1266, 1287, 1299), on every goto fail (1313), and   *)
(* for the debug files it opened and rejected.                             *)
THEOREM DescriptorsClosed == Spec => []DescriptorClosedOnReturn
<1>1. IInv => DescriptorClosedOnReturn
    BY DEF IInv
<1>2. QED
    BY <1>1, IInvHolds, PTL

(* Every live section-header or symbol view belongs to an active call of   *)
(* coff_add: AddSyminfo releases them on success and the fail label on     *)
(* every error path, so none leaks past its call.                          *)
THEOREM TransientViewsFreed == Spec => []TransientViewsReleased
<1>1. IInv => TransientViewsReleased
    BY DEF IInv
<1>2. QED
    BY <1>1, IInvHolds, PTL

(* A view handed to backtrace_dwarf_add stays live for ever: no caller's   *)
(* fail path releases it, since the call that registered it returned 1     *)
(* and no frame still names it.                                            *)
THEOREM DwarfViewsKept == Spec => []RegisteredDwarfViewLive
<1>1. IInv => RegisteredDwarfViewLive
    BY DEF IInv
<1>2. QED
    BY <1>1, IInvHolds, PTL

(* When backtrace_initialize sees coff_add return 1, some call has set     *)
(* fileline_fn, to coff_nodebug or to the DWARF reader.                    *)
THEOREM FilelineSet == Spec => []SuccessSetsFileline
<1>1. IInv => SuccessSetsFileline
    BY DEF IInv, RetFileline, SuccessSetsFileline
<1>2. QED
    BY <1>1, IInvHolds, PTL

=============================================================================
