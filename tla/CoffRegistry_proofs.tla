------------------------- MODULE CoffRegistry_proofs -------------------------
(***************************************************************************)
(* Proofs about the threaded PE/COFF symbol registry for any sets of       *)
(* threads and addresses: the invariants, that the initializations agree   *)
(* on syminfo_fn, and that the CAS loop and the lock-free walk implement   *)
(* the atomic registry of SymbolRegistry.                                  *)
(***************************************************************************)
EXTENDS CoffRegistry, TLAPS

USE RegistryAssumption

(* The inductive invariant.  Beyond the types it says which steps each     *)
(* kind of thread can be at, that no walk has gone past the tail (the list *)
(* only grows), and that a reader still walking has missed in every table  *)
(* before its pointer: that is what makes the table it stops at the first *)
(* one that covers its address in the whole list.                         *)
IInv ==
    /\ TypeOK
    /\ \A t \in Inits : pc[t] \in {"add_load", "add_cas", "register", "set_fn", "done"}
    /\ \A t \in Dlls : pc[t] \in {"wait", "add_load", "add_cas", "done"}
    /\ \A t \in Readers : pc[t] \in {"r_load", "done"}
    /\ \A t \in Threads : pp[t] <= Len(list)
    /\ \A r \in Readers : pc[r] = "r_load" =>
           \A k \in 1 .. pp[r] : addr[r] \notin cover[list[k]]
    /\ ShardsPublished

LEMMA InitIInv == Init => IInv
<1> SUFFICES ASSUME Init PROVE IInv
    OBVIOUS
<1>1. TypeOK
    <2>1. list \in Seq(Appenders)
        BY DEF Init
    <2>2. result \in [Readers -> Appenders \cup {"none"}]
        BY DEF Init
    <2>3. pc \in [Threads -> {"add_load", "add_cas", "register", "set_fn",
                              "wait", "r_load", "done"}]
        <3>1. \A t \in Threads : pc[t] \in {"add_load", "register", "wait", "r_load"}
            BY DEF Init
        <3>2. QED
            BY <3>1 DEF Init
    <2>4. pp \in [Threads -> Nat]
        BY DEF Init
    <2>5. QED
        BY <2>1, <2>2, <2>3, <2>4 DEF Init, TypeOK
<1>2. QED
    BY <1>1 DEF Init, IInv, ShardsPublished, Threads, Appenders

(* Facts every step uses: the pc of each kind of thread.                   *)
LEMMA ThreadKinds ==
    ASSUME IInv, NEW t \in Threads
    PROVE  /\ pc[t] = "r_load" => t \in Readers
           /\ pc[t] \in {"register", "set_fn"} => t \in Inits
           /\ pc[t] = "wait" => t \in Dlls
           /\ pc[t] \in {"add_load", "add_cas"} => t \in Appenders
BY DEF IInv, Threads, Appenders

(* A step inside an append's walk: the pointer moves to a position no    *)
(* further than the tail, the pc stays in the walk, and nothing shared     *)
(* changes.  AddLoad and a failed AddCas are such steps.                   *)
LEMMA WalkStep ==
    ASSUME IInv, NEW t \in Appenders, NEW n \in 0 .. Len(list),
           NEW v \in {"add_load", "add_cas"},
           pc[t] \in {"add_load", "add_cas"},
           pp' = [pp EXCEPT ![t] = n], pc' = [pc EXCEPT ![t] = v],
           UNCHANGED <<list, syminfoFn, registered, result, found, cover, addr>>
    PROVE  IInv'
<1>1. t \notin Readers
    BY DEF Appenders
<1>2. TypeOK'
    BY DEF IInv, TypeOK, Threads
<1>3. /\ \A s \in Inits : pc'[s] \in {"add_load", "add_cas", "register", "set_fn", "done"}
      /\ \A s \in Dlls : pc'[s] \in {"wait", "add_load", "add_cas", "done"}
      /\ \A s \in Readers : pc'[s] \in {"r_load", "done"}
    BY <1>1 DEF IInv, TypeOK, Threads
<1>4. \A s \in Threads : pp'[s] <= Len(list')
    BY DEF IInv, TypeOK, Threads
<1>5. \A r \in Readers : pc'[r] = "r_load" =>
          \A k \in 1 .. pp'[r] : addr'[r] \notin cover'[list'[k]]
    BY <1>1 DEF IInv, TypeOK, Threads
<1>6. ShardsPublished'
    <2>1. t \in Inits => pc'[t] \notin {"register", "set_fn", "done"}
        BY DEF IInv, TypeOK, Threads
    <2>2. QED
        BY <2>1 DEF IInv, ShardsPublished, TypeOK, Threads
<1>7. QED
    BY <1>2, <1>3, <1>4, <1>5, <1>6 DEF IInv

LEMMA AddLoadIInv ==
    ASSUME IInv, NEW t \in Threads, AddLoad(t)
    PROVE  IInv'
<1>1. t \in Appenders /\ pp[t] \in 0 .. Len(list)
    BY ThreadKinds DEF AddLoad, IInv, TypeOK
<1>2. CASE Load(pp[t]) = "NULL"
    <2>1. pp' = [pp EXCEPT ![t] = pp[t]] /\ pc' = [pc EXCEPT ![t] = "add_cas"]
        BY <1>1, <1>2 DEF AddLoad, IInv, TypeOK, Threads
    <2>2. QED
        BY <1>1, <1>2, <2>1, WalkStep DEF AddLoad
<1>3. CASE Load(pp[t]) # "NULL"
    <2>1. pp[t] + 1 \in 0 .. Len(list)
        BY <1>1, <1>3 DEF Load
    <2>2. pc' = [pc EXCEPT ![t] = "add_load"]
        BY <1>3 DEF AddLoad, IInv, TypeOK
    <2>3. QED
        BY <1>1, <1>3, <2>1, <2>2, WalkStep DEF AddLoad
<1>4. QED
    BY <1>2, <1>3

LEMMA AddCasIInv ==
    ASSUME IInv, NEW t \in Threads, AddCas(t)
    PROVE  IInv'
<1>1. t \in Appenders
    BY ThreadKinds DEF AddCas
<1>2. CASE Load(pp[t]) = "NULL"
    <2>1. list' = Append(list, t) /\ list \in Seq(Appenders)
        BY <1>2 DEF AddCas, IInv, TypeOK
    <2>2. list' \in Seq(Appenders) /\ Len(list') = Len(list) + 1
          /\ \A k \in 1 .. Len(list) : list'[k] = list[k]
          /\ list'[Len(list')] = t
        BY <1>1, <2>1
    <2>3. pc' = [pc EXCEPT ![t] = AfterAppend(t)] /\ AfterAppend(t) \in {"register", "done"}
        BY <1>2 DEF AddCas, AfterAppend
    <2>4. TypeOK'
        BY <1>2, <2>2, <2>3 DEF AddCas, IInv, TypeOK
    <2>5. ShardsPublished'
        BY <1>2, <2>2, <2>3 DEF AddCas, IInv, ShardsPublished, AfterAppend, Threads, Appenders
    <2>6. \A r \in Readers : pc'[r] = "r_load" =>
              \A k \in 1 .. pp'[r] : addr'[r] \notin cover'[list'[k]]
        <3>1. pp' = pp /\ addr' = addr /\ cover' = cover
            BY <1>2 DEF AddCas
        <3>2. \A r \in Readers : pc'[r] = pc[r] /\ pp[r] \in 0 .. Len(list)
            BY <1>1, <2>3 DEF IInv, TypeOK, Threads, Appenders
        <3>3. QED
            BY <2>2, <3>1, <3>2 DEF IInv
    <2>7. /\ \A s \in Inits : pc'[s] \in {"add_load", "add_cas", "register", "set_fn", "done"}
          /\ \A s \in Dlls : pc'[s] \in {"wait", "add_load", "add_cas", "done"}
          /\ \A s \in Readers : pc'[s] \in {"r_load", "done"}
        BY <1>1, <2>3 DEF IInv, AfterAppend, TypeOK, Threads, Appenders
    <2>8. \A s \in Threads : pp'[s] <= Len(list')
        BY <1>2, <2>2 DEF AddCas, IInv, TypeOK
    <2>9. QED
        BY <2>4, <2>5, <2>6, <2>7, <2>8 DEF IInv
<1>3. CASE Load(pp[t]) # "NULL"
    <2>1. 0 \in 0 .. Len(list)
        OBVIOUS
    <2>2. QED
        BY <1>1, <1>3, <2>1, WalkStep DEF AddCas
<1>4. QED
    BY <1>2, <1>3

LEMMA RegisterSetFnDllIInv ==
    ASSUME IInv, NEW t \in Threads, Register(t) \/ SetFn(t) \/ DllStart(t)
    PROVE  IInv'
<1>1. CASE Register(t)
    <2>1. t \in Inits
        BY <1>1, ThreadKinds DEF Register
    <2>2. QED
        BY <1>1, <2>1 DEF Register, IInv, TypeOK, ShardsPublished, Threads, Appenders
<1>2. CASE SetFn(t)
    <2>1. t \in Inits
        BY <1>2, ThreadKinds DEF SetFn
    <2>2. QED
        BY <1>2, <2>1 DEF SetFn, IInv, TypeOK, ShardsPublished, Threads, Appenders
<1>3. CASE DllStart(t)
    <2>1. t \in Dlls
        BY <1>3, ThreadKinds DEF DllStart
    <2>2. QED
        BY <1>3, <2>1 DEF DllStart, IInv, TypeOK, ShardsPublished, Threads, Appenders
<1>4. QED
    BY <1>1, <1>2, <1>3

LEMMA ReadLoadIInv ==
    ASSUME IInv, NEW t \in Threads, ReadLoad(t)
    PROVE  IInv'
<1>1. t \in Readers /\ t \notin Appenders /\ pc[t] = "r_load"
    BY ThreadKinds DEF ReadLoad, Appenders
<1>2. list \in Seq(Appenders) /\ pp[t] \in Nat /\ pp[t] <= Len(list)
    BY DEF IInv, TypeOK
<1>3. Load(pp[t]) # "NULL" => pp[t] < Len(list) /\ Load(pp[t]) = list[pp[t] + 1]
                              /\ Load(pp[t]) \in Appenders
    BY <1>2 DEF Load
<1>4. UNCHANGED <<list, syminfoFn, registered, found, cover, addr>>
    BY DEF ReadLoad
<1>5. CASE Load(pp[t]) = "NULL" \/ addr[t] \in cover[Load(pp[t])]
    <2>1. /\ pc' = [pc EXCEPT ![t] = "done"] /\ pp' = pp
          /\ result' = [result EXCEPT ![t] = IF Load(pp[t]) = "NULL" THEN "none" ELSE Load(pp[t])]
        BY <1>5 DEF ReadLoad
    <2>2. TypeOK'
        BY <1>1, <1>3, <1>4, <2>1 DEF IInv, TypeOK
    <2>3. ShardsPublished'
        BY <1>1, <1>4, <2>1 DEF IInv, TypeOK, ShardsPublished, Threads
    <2>4. QED
        BY <1>1, <1>4, <2>1, <2>2, <2>3 DEF IInv, TypeOK, Threads
<1>6. CASE Load(pp[t]) # "NULL" /\ addr[t] \notin cover[Load(pp[t])]
    <2>1. /\ pp' = [pp EXCEPT ![t] = pp[t] + 1] /\ pc' = pc /\ result' = result
        BY <1>6 DEF ReadLoad
    <2>2. pp[t] + 1 <= Len(list) /\ addr[t] \notin cover[list[pp[t] + 1]]
        BY <1>2, <1>3, <1>6
    <2>3. \A k \in 1 .. pp'[t] : addr[t] \notin cover[list[k]]
        BY <1>1, <2>1, <2>2 DEF IInv, TypeOK
    <2>4. TypeOK'
        BY <1>4, <2>1 DEF IInv, TypeOK
    <2>5. QED
        BY <1>1, <1>4, <2>1, <2>2, <2>3, <2>4 DEF IInv, TypeOK, ShardsPublished, Threads
<1>7. QED
    BY <1>5, <1>6

LEMMA NextIInv == IInv /\ [Next]_vars => IInv'
<1> SUFFICES ASSUME IInv, [Next]_vars PROVE IInv'
    OBVIOUS
<1>1. CASE UNCHANGED vars
    BY <1>1 DEF vars, IInv, TypeOK, ShardsPublished
<1>2. CASE Next
    <2> PICK t \in Threads : Step(t)
        BY <1>2 DEF Next
    <2>1. QED
        BY AddLoadIInv, AddCasIInv, RegisterSetFnDllIInv, ReadLoadIInv DEF Step
<1>3. QED
    BY <1>1, <1>2

(* The invariant holds in every reachable state.                           *)
LEMMA IInvHolds == Spec => []IInv
BY InitIInv, NextIInv, PTL DEF Spec

(* Every state of the registry is well typed for any sets of threads and   *)
(* addresses: the list holds appending threads, each reader's result is a  *)
(* table or "none", and every thread's list pointer is a position.         *)
THEOREM TypeCorrect == Spec => []TypeOK
BY IInvHolds, PTL DEF IInv

(* Whatever the threads and however their appends interleave, once an      *)
(* initialization's coff_add_syminfo_data returns its table is in the list *)
(* linked from state->syminfo_data: the CAS loop loses no table.           *)
THEOREM NoTableLost == Spec => []ShardsPublished
BY IInvHolds, PTL DEF IInv

(* The inductive invariant behind SyminfoMatchesInits.  An initializer  *)
(* that found symbols and returned has left coff_syminfo; one that        *)
(* returned at all has left syminfo_fn non-NULL; and coff_syminfo is only *)
(* there because such an initializer stored it.  SyminfoMatchesInits       *)
(* alone is not inductive: it says nothing until the last initializer      *)
(* returns, and by then the earlier ones' stores must already be known.   *)
FnInv ==
    /\ (\E t \in Inits : found[t] /\ pc[t] = "done") => syminfoFn = "coff_syminfo"
    /\ (\E t \in Inits : pc[t] = "done") => syminfoFn # "NULL"
    /\ syminfoFn = "coff_syminfo" => \E t \in Inits : found[t] /\ pc[t] = "done"

LEMMA InitFnInv == Init => FnInv
BY DEF Init, FnInv, Threads, Appenders

(* A step of a thread that has not returned, setting its pc to x, neither *)
(* returns an initializer nor revives one, unless it is one and x = done. *)
LEMMA ExceptKeepsInitsDone ==
    ASSUME IInv, NEW t \in Threads, NEW x, pc[t] # "done",
           t \in Inits => x # "done", pc' = [pc EXCEPT ![t] = x]
    PROVE  \A u \in Inits : pc'[u] = "done" <=> pc[u] = "done"
BY DEF IInv, TypeOK, Threads, Appenders

(* Only SetFn writes syminfo_fn or returns an initializer; every other     *)
(* step leaves syminfo_fn, found and the returned initializers alone.     *)
LEMMA OtherStepFn ==
    ASSUME IInv, NEW t \in Threads,
           AddLoad(t) \/ AddCas(t) \/ Register(t) \/ DllStart(t) \/ ReadLoad(t)
    PROVE  /\ UNCHANGED <<syminfoFn, found>>
           /\ \A u \in Inits : pc'[u] = "done" <=> pc[u] = "done"
<1>1. UNCHANGED <<syminfoFn, found>>
    BY DEF AddLoad, AddCas, Register, DllStart, ReadLoad
<1> SUFFICES \A u \in Inits : pc'[u] = "done" <=> pc[u] = "done"
    BY <1>1
<1>2. CASE AddLoad(t)
    <2>1. CASE pc' = pc
        BY <2>1
    <2>2. CASE pc' # pc
        <3>1. pc' = [pc EXCEPT ![t] = "add_cas"] /\ pc[t] = "add_load"
            BY <1>2, <2>2 DEF AddLoad
        <3>2. QED
            BY <3>1, ExceptKeepsInitsDone
    <2>3. QED
        BY <2>1, <2>2
<1>3. CASE AddCas(t)
    <2>1. pc[t] = "add_cas" /\ t \in Appenders
        BY <1>3, ThreadKinds DEF AddCas
    <2>2. t \in Inits => AfterAppend(t) = "register"
        BY DEF AfterAppend
    <2>3. pc' = [pc EXCEPT ![t] = AfterAppend(t)] \/ pc' = [pc EXCEPT ![t] = "add_load"]
        BY <1>3 DEF AddCas
    <2>4. QED
        BY <2>1, <2>2, <2>3, ExceptKeepsInitsDone
<1>4. CASE Register(t)
    BY <1>4, ExceptKeepsInitsDone DEF Register
<1>5. CASE DllStart(t)
    <2>1. t \in Dlls /\ pc[t] = "wait"
        BY <1>5, ThreadKinds DEF DllStart
    <2>2. t \notin Inits
        BY <2>1, RegistryAssumption
    <2>3. pc' = [pc EXCEPT ![t] = "add_load"] \/ pc' = [pc EXCEPT ![t] = "done"]
        BY <1>5 DEF DllStart
    <2>4. QED
        BY <2>1, <2>2, <2>3, ExceptKeepsInitsDone
<1>6. CASE ReadLoad(t)
    <2>1. t \in Readers /\ pc[t] = "r_load"
        BY <1>6, ThreadKinds DEF ReadLoad
    <2>2. t \notin Inits
        BY <2>1, RegistryAssumption
    <2>3. pc' = [pc EXCEPT ![t] = "done"] \/ pc' = pc
        BY <1>6 DEF ReadLoad
    <2>4. QED
        BY <2>1, <2>2, <2>3, ExceptKeepsInitsDone
<1>7. QED
    BY <1>2, <1>3, <1>4, <1>5, <1>6

(* A SetFn step keeps FnInv: coff_syminfo is stored when found_sym is set,  *)
(* and coff_nosyms only replaces NULL.                                      *)
LEMMA SetFnFnInv ==
    ASSUME IInv, FnInv, NEW t \in Threads, SetFn(t)
    PROVE  FnInv'
<1>1. t \in Inits /\ pc' = [pc EXCEPT ![t] = "done"] /\ UNCHANGED found
    BY ThreadKinds DEF SetFn
<1>2. \A u \in Inits : pc'[u] = "done" <=> (u = t \/ pc[u] = "done")
    BY <1>1 DEF IInv, TypeOK, Threads, Appenders
<1>3. found[t] \in BOOLEAN
    BY <1>1 DEF IInv, TypeOK
<1>4. CASE found[t]
    <2>1. syminfoFn' = "coff_syminfo"
        BY <1>4 DEF SetFn
    <2>2. QED
        BY <1>1, <1>2, <1>4, <2>1 DEF FnInv
<1>5. CASE ~found[t]
    <2>1. syminfoFn' = IF syminfoFn = "NULL" THEN "coff_nosyms" ELSE syminfoFn
        BY <1>5 DEF SetFn
    <2>2. QED
        BY <1>1, <1>2, <1>5, <2>1 DEF FnInv
<1>6. QED
    BY <1>3, <1>4, <1>5

LEMMA NextFnInv == IInv /\ FnInv /\ [Next]_vars => FnInv'
<1> SUFFICES ASSUME IInv, FnInv, [Next]_vars PROVE FnInv'
    OBVIOUS
<1>1. CASE UNCHANGED vars
    BY <1>1 DEF vars, FnInv
<1>2. CASE Next
    <2> PICK t \in Threads : Step(t)
        BY <1>2 DEF Next
    <2>1. CASE SetFn(t)
        BY <2>1, SetFnFnInv
    <2>2. CASE ~SetFn(t)
        <3>1. /\ UNCHANGED <<syminfoFn, found>>
              /\ \A u \in Inits : pc'[u] = "done" <=> pc[u] = "done"
            BY <2>2, OtherStepFn DEF Step
        <3>2. QED
            BY <3>1, Zenon DEF FnInv
    <2>3. QED
        BY <2>1, <2>2
<1>3. QED
    BY <1>1, <1>2

(* FnInv gives SyminfoMatchesInits once every initializer has returned.   *)
LEMMA FnInvMatches == IInv /\ FnInv => SyminfoMatchesInits
<1> SUFFICES ASSUME IInv, FnInv, Inits # {}, \A t \in Inits : pc[t] = "done"
             PROVE  syminfoFn = IF \E t \in Inits : found[t] THEN "coff_syminfo" ELSE "coff_nosyms"
    BY DEF SyminfoMatchesInits
<1>1. CASE \E t \in Inits : found[t]
    BY <1>1 DEF FnInv
<1>2. CASE ~\E t \in Inits : found[t]
    <2>1. syminfoFn # "NULL" /\ syminfoFn # "coff_syminfo"
        BY <1>2 DEF FnInv
    <2>2. syminfoFn = "coff_nosyms"
        BY <2>1 DEF IInv, TypeOK
    <2>3. QED
        BY <1>2, <2>2
<1>3. QED
    BY <1>1, <1>2

(* For any sets of threads, once all the initializations have returned,   *)
(* syminfo_fn is coff_syminfo if any of them found symbols and            *)
(* coff_nosyms otherwise, whatever the order of their stores and CASes    *)
(* at lines 1529-1536.                                                     *)
THEOREM InitsAgree == Spec => []SyminfoMatchesInits
<1>1. Init => IInv /\ FnInv
    BY InitIInv, InitFnInv
<1>2. IInv /\ FnInv /\ [Next]_vars => IInv' /\ FnInv'
    BY NextIInv, NextFnInv
<1>3. IInv /\ FnInv => SyminfoMatchesInits
    BY FnInvMatches
<1>4. QED
    BY <1>1, <1>2, <1>3, PTL DEF Spec

-----------------------------------------------------------------------------
(* The refinement: CoffRegistry implements SymbolRegistry under the        *)
(* mapping AbsPc, which merges the walking steps of an append into its     *)
(* "append" step and a reader's walk into its "lookup".                    *)

(* The atomic registry has the same threads.                               *)
LEMMA AbsThreads == Abs!Threads = Threads /\ Abs!Appenders = Appenders
BY DEF Abs!Threads, Abs!Appenders, Threads, Appenders

PcValues == {"add_load", "add_cas", "register", "set_fn", "wait", "r_load", "done"}

(* Moving one thread's pc moves its abstract pc to the image of the new    *)
(* value, and leaves the others alone.                                     *)
LEMMA AbsPcUpdate ==
    ASSUME TypeOK, NEW t \in Threads, NEW v \in PcValues, pc' = [pc EXCEPT ![t] = v]
    PROVE  AbsPc' = [AbsPc EXCEPT ![t] = IF v \in {"add_load", "add_cas"} THEN "append"
                                         ELSE IF v = "r_load" THEN "lookup" ELSE v]
BY DEF AbsPc, TypeOK, PcValues

(* A walk that has missed in the first n tables decides the lookup when it *)
(* loads the next pointer: NULL means no table covers the address, and a   *)
(* covering table at n + 1 is the first one that does.                     *)
LEMMA FirstCoverAt ==
    ASSUME NEW l \in Seq(Appenders), NEW a, NEW n \in Nat, n <= Len(l),
           \A k \in 1 .. n : a \notin cover[l[k]]
    PROVE  /\ n = Len(l) => Abs!FirstCover(l, a) = "none"
           /\ n < Len(l) /\ a \in cover[l[n + 1]] => Abs!FirstCover(l, a) = l[n + 1]
<1> DEFINE ks == {k \in 1 .. Len(l) : a \in cover[l[k]]}
<1>1. Abs!FirstCover(l, a) = IF ks = {} THEN "none"
                             ELSE l[CHOOSE k \in ks : \A j \in ks : k <= j]
    BY DEF Abs!FirstCover
<1>2. n = Len(l) => ks = {}
    OBVIOUS
<1>3. ASSUME n < Len(l), a \in cover[l[n + 1]]
      PROVE  (CHOOSE k \in ks : \A j \in ks : k <= j) = n + 1
    <2>1. n + 1 \in ks /\ \A j \in ks : n + 1 <= j
        BY <1>3
    <2>2. \A k \in ks : (\A j \in ks : k <= j) => k = n + 1
        BY <2>1
    <2>3. QED
        BY <2>1, <2>2
<1>4. n = Len(l) => Abs!FirstCover(l, a) = "none"
    BY <1>1, <1>2
<1>5. n < Len(l) /\ a \in cover[l[n + 1]] => Abs!FirstCover(l, a) = l[n + 1]
    <2>1. n < Len(l) /\ a \in cover[l[n + 1]] => ks # {}
        OBVIOUS
    <2>2. QED
        BY <1>1, <1>3, <2>1
<1>6. QED
    BY <1>4, <1>5

(* Every concrete step is an abstract step or leaves the abstract state    *)
(* unchanged.                                                              *)
LEMMA StepRefines ==
    ASSUME IInv, NEW t \in Threads, Step(t)
    PROVE  [Abs!Next]_Abs!vars
<1>1. TypeOK /\ pc \in [Threads -> PcValues]
    BY DEF IInv, TypeOK, PcValues
<1>2. CASE AddLoad(t)
    <2>1. pc[t] = "add_load" /\ pc' \in {pc, [pc EXCEPT ![t] = "add_cas"]}
        BY <1>2 DEF AddLoad
    <2>2. AbsPc' = AbsPc
        BY <1>1, <2>1, AbsPcUpdate DEF AbsPc
    <2>3. QED
        BY <1>2, <2>2 DEF AddLoad, Abs!vars
<1>3. CASE AddCas(t) /\ Load(pp[t]) = "NULL"
    <2>1. t \in Appenders /\ pc[t] = "add_cas"
        BY <1>3, ThreadKinds DEF AddCas
    <2>2. pc' = [pc EXCEPT ![t] = AfterAppend(t)] /\ AfterAppend(t) \in {"register", "done"}
        BY <1>3 DEF AddCas, AfterAppend
    <2>3. AbsPc' = [AbsPc EXCEPT ![t] = Abs!AfterAppend(t)] /\ AbsPc[t] = "append"
        BY <1>1, <2>1, <2>2, AbsPcUpdate DEF AbsPc, AfterAppend, Abs!AfterAppend, PcValues
    <2>4. Abs!AddTable(t)
        BY <1>3, <2>3 DEF AddCas, Abs!AddTable
    <2>5. QED
        BY <2>4, AbsThreads DEF Abs!Next, Abs!Step
<1>4. CASE AddCas(t) /\ Load(pp[t]) # "NULL"
    <2>1. pc[t] = "add_cas" /\ pc' = [pc EXCEPT ![t] = "add_load"]
        BY <1>4 DEF AddCas
    <2>2. AbsPc' = AbsPc
        BY <1>1, <2>1, AbsPcUpdate DEF AbsPc
    <2>3. QED
        BY <1>4, <2>2 DEF AddCas, Abs!vars
<1>5. CASE Register(t)
    <2>1. pc[t] = "register" /\ pc' = [pc EXCEPT ![t] = "set_fn"]
        BY <1>5 DEF Register
    <2>2. AbsPc' = [AbsPc EXCEPT ![t] = "set_fn"] /\ AbsPc[t] = "register"
        BY <1>1, <2>1, AbsPcUpdate DEF AbsPc, PcValues
    <2>3. Abs!Register(t)
        BY <1>5, <2>2 DEF Register, Abs!Register
    <2>4. QED
        BY <2>3, AbsThreads DEF Abs!Next, Abs!Step
<1>6. CASE SetFn(t)
    <2>1. pc[t] = "set_fn" /\ pc' = [pc EXCEPT ![t] = "done"]
        BY <1>6 DEF SetFn
    <2>2. AbsPc' = [AbsPc EXCEPT ![t] = "done"] /\ AbsPc[t] = "set_fn"
        BY <1>1, <2>1, AbsPcUpdate DEF AbsPc, PcValues
    <2>3. Abs!SetFn(t)
        BY <1>6, <2>2 DEF SetFn, Abs!SetFn
    <2>4. QED
        BY <2>3, AbsThreads DEF Abs!Next, Abs!Step
<1>7. CASE DllStart(t)
    <2>1. pc[t] = "wait"
        BY <1>7 DEF DllStart
    <2>2. AbsPc[t] = "wait"
        BY <1>1, <2>1 DEF AbsPc
    <2>3. CASE pc' = [pc EXCEPT ![t] = "add_load"]
        <3>1. AbsPc' = [AbsPc EXCEPT ![t] = "append"]
            BY <1>1, <2>3, AbsPcUpdate DEF PcValues
        <3>2. Abs!DllStart(t)
            BY <1>7, <2>2, <3>1 DEF DllStart, Abs!DllStart
        <3>3. QED
            BY <3>2, AbsThreads DEF Abs!Next, Abs!Step
    <2>4. CASE pc' = [pc EXCEPT ![t] = "done"]
        <3>1. AbsPc' = [AbsPc EXCEPT ![t] = "done"]
            BY <1>1, <2>4, AbsPcUpdate DEF PcValues
        <3>2. Abs!DllStart(t)
            BY <1>7, <2>2, <3>1 DEF DllStart, Abs!DllStart
        <3>3. QED
            BY <3>2, AbsThreads DEF Abs!Next, Abs!Step
    <2>5. QED
        BY <1>7, <2>3, <2>4 DEF DllStart
<1>8. CASE ReadLoad(t)
    <2>1. t \in Readers /\ pc[t] = "r_load" /\ AbsPc[t] = "lookup"
        BY <1>1, <1>8, ThreadKinds DEF ReadLoad, AbsPc
    <2>2. /\ list \in Seq(Appenders) /\ pp[t] \in Nat /\ pp[t] <= Len(list)
          /\ \A k \in 1 .. pp[t] : addr[t] \notin cover[list[k]]
        BY <2>1 DEF IInv, TypeOK
    <2>3. addr[t] \in Addrs
        BY <2>1 DEF IInv, TypeOK
    <2>4. CASE Load(pp[t]) = "NULL"
        <3>1. pp[t] = Len(list)
            <4>1. pp[t] < Len(list) => list[pp[t] + 1] \in Appenders
                BY <2>2
            <4>2. "NULL" \notin Appenders
                BY RegistryAssumption DEF Appenders
            <4>3. QED
                BY <2>2, <2>4, <4>1, <4>2 DEF Load
        <3>2. Abs!FirstCover(list, addr[t]) = "none"
            BY <2>2, <3>1, FirstCoverAt
        <3>3. pc' = [pc EXCEPT ![t] = "done"] /\ result' = [result EXCEPT ![t] = "none"]
            BY <1>8, <2>4 DEF ReadLoad
        <3>4. AbsPc' = [AbsPc EXCEPT ![t] = "done"]
            BY <1>1, <3>3, AbsPcUpdate DEF PcValues
        <3>5. Abs!Lookup(t)
            BY <1>8, <2>1, <3>2, <3>3, <3>4 DEF ReadLoad, Abs!Lookup
        <3>6. QED
            BY <3>5, AbsThreads DEF Abs!Next, Abs!Step
    <2>5. CASE Load(pp[t]) # "NULL" /\ addr[t] \in cover[Load(pp[t])]
        <3>1. pp[t] < Len(list) /\ Load(pp[t]) = list[pp[t] + 1]
            BY <2>2, <2>5 DEF Load
        <3>2. Abs!FirstCover(list, addr[t]) = list[pp[t] + 1]
            BY <2>2, <2>5, <3>1, FirstCoverAt
        <3>3. pc' = [pc EXCEPT ![t] = "done"] /\ result' = [result EXCEPT ![t] = Load(pp[t])]
            BY <1>8, <2>5 DEF ReadLoad
        <3>4. AbsPc' = [AbsPc EXCEPT ![t] = "done"]
            BY <1>1, <3>3, AbsPcUpdate DEF PcValues
        <3>5. Abs!Lookup(t)
            BY <1>8, <2>1, <3>1, <3>2, <3>3, <3>4 DEF ReadLoad, Abs!Lookup
        <3>6. QED
            BY <3>5, AbsThreads DEF Abs!Next, Abs!Step
    <2>6. CASE Load(pp[t]) # "NULL" /\ addr[t] \notin cover[Load(pp[t])]
        <3>1. pc' = pc /\ result' = result
            BY <1>8, <2>6 DEF ReadLoad
        <3>2. QED
            BY <1>8, <3>1 DEF ReadLoad, Abs!vars, AbsPc
    <2>7. QED
        BY <2>4, <2>5, <2>6
<1>9. QED
    BY <1>2, <1>3, <1>4, <1>5, <1>6, <1>7, <1>8 DEF Step

(* The initial states map to initial states of the atomic registry.       *)
LEMMA InitRefines == Init => Abs!Init
<1> SUFFICES ASSUME Init PROVE Abs!Init
    OBVIOUS
<1>1. AbsPc = [t \in Threads |->
                 IF t \in Inits THEN (IF found[t] THEN "append" ELSE "register")
                 ELSE IF t \in Dlls THEN "wait" ELSE "lookup"]
    BY DEF Init, AbsPc
<1>2. QED
    BY <1>1, AbsThreads DEF Init, Abs!Init

(* The threaded registry is linearizable: whatever the threads and the     *)
(* tables, every behaviour of the CAS-loop appends, the syminfo_fn stores  *)
(* and the lock-free coff_syminfo walks is a behaviour of the atomic       *)
(* registry, in which each lookup reads the whole list at one instant     *)
(* (spec section 8.9, for the symbol registry).                            *)
THEOREM Implementation == Spec => Abs!SafetySpec
<1>1. Init => Abs!Init
    BY InitRefines
<1>2. IInv /\ [Next]_vars => [Abs!Next]_Abs!vars
    <2> SUFFICES ASSUME IInv, [Next]_vars PROVE [Abs!Next]_Abs!vars
        OBVIOUS
    <2>1. CASE Next
        BY <2>1, StepRefines DEF Next
    <2>2. CASE UNCHANGED vars
        BY <2>2 DEF vars, Abs!vars, AbsPc
    <2>3. QED
        BY <2>1, <2>2
<1>3. QED
    BY <1>1, <1>2, IInvHolds, PTL DEF Spec, Abs!SafetySpec

=====
