---------------------------- MODULE CoffRegistry ----------------------------
(***************************************************************************)
(* The symbol registry of a threaded backtrace_state in pecoff.c, with the *)
(* threads that touch it:                                                  *)
(*                                                                         *)
(*  - initializers run backtrace_initialize (1427-1553): coff_add appends  *)
(*    the executable's symbol table with coff_add_syminfo_data (805-827)   *)
(*    when it found symbols, the DLL load notification is registered      *)
(*    (1493-1519), and syminfo_fn is stored or set by CAS (1529-1536);     *)
(*  - DLL threads run dll_notification (1384-1421), whose coff_add          *)
(*    appends the DLL's table;                                             *)
(*  - readers run coff_syminfo's threaded walk (876-893).                  *)
(*                                                                         *)
(* The list is append-only, so a node is named by its position: list[k] is *)
(* the k-th table appended, and a pointer pp to a next field is the        *)
(* position k of the node that owns it (0 for &state->syminfo_data), so   *)
(* *pp is list[k + 1], or NULL when k = Len(list).  Each atomic load and   *)
(* each CAS is one step; bsearch reads an immutable table, so it happens   *)
(* in the step of the load that reached the table.  A table is named by    *)
(* the thread that appended it; its contents are the set of addresses its  *)
(* symbols cover.  coff_add itself is CoffAdd's subject and appears here   *)
(* only through whether it found symbols.                                  *)
(***************************************************************************)
EXTENDS Naturals, Sequences

CONSTANTS Inits, Dlls, Readers, Addrs

(* A table is a non-NULL pointer: no appender's table is named "NULL".   *)
ASSUME RegistryAssumption ==
    /\ Inits \cap Dlls = {}
    /\ (Inits \cup Dlls) \cap Readers = {}
    /\ "NULL" \notin Inits \cup Dlls

Appenders == Inits \cup Dlls
Threads == Appenders \cup Readers

VARIABLES
    list,        \* the tables linked from state->syminfo_data, oldest first
    syminfoFn,   \* state->syminfo_fn: "NULL", "coff_syminfo", "coff_nosyms"
    registered,  \* LdrRegisterDllNotification has been called
    result,      \* per reader: the table bsearch found in, or "none"
    pc,          \* per thread: its next step
    found,       \* per initializer: coff_add set found_sym
    cover,       \* per appender: the addresses its table covers
    addr,        \* per reader: the address looked up
    pp           \* per thread: the position of the next field it points to

vars == <<list, syminfoFn, registered, result, pc, found, cover, addr, pp>>

(* backtrace_atomic_load_pointer (pp): the table linked after position k. *)
Load(k) == IF k < Len(list) THEN list[k + 1] ELSE "NULL"

AfterAppend(t) == IF t \in Inits THEN "register" ELSE "done"

-----------------------------------------------------------------------------
(* Mutants: plausible slips in the code.                                   *)

(* The tail is written with a plain store instead of the CAS, as in the    *)
(* unthreaded branch: a table linked meanwhile by another thread is cut    *)
(* off.                                                                    *)
AddCasPlainStore(t) ==
    /\ pc[t] = "add_cas"
    /\ list' = Append(SubSeq(list, 1, pp[t]), t)
    /\ pc' = [pc EXCEPT ![t] = AfterAppend(t)]
    /\ UNCHANGED <<syminfoFn, registered, result, found, cover, addr, pp>>

(* A failed CAS retries the same next field instead of walking again.     *)
AddCasRetrySame(t) ==
    /\ pc[t] = "add_cas"
    /\ IF Load(pp[t]) = "NULL"
       THEN /\ list' = Append(list, t)
            /\ pc' = [pc EXCEPT ![t] = AfterAppend(t)]
       ELSE UNCHANGED <<list, pc>>
    /\ UNCHANGED <<syminfoFn, registered, result, found, cover, addr, pp>>

(* With no symbols, coff_nosyms is stored unconditionally.               *)
SetFnPlainStore(t) ==
    /\ pc[t] = "set_fn"
    /\ syminfoFn' = IF found[t] THEN "coff_syminfo" ELSE "coff_nosyms"
    /\ pc' = [pc EXCEPT ![t] = "done"]
    /\ UNCHANGED <<list, registered, result, found, cover, addr, pp>>

(* The walk stops at the first table where bsearch misses.                *)
ReadLoadStopOnMiss(r) ==
    /\ pc[r] = "r_load"
    /\ result' = [result EXCEPT ![r] =
                    IF Load(pp[r]) # "NULL" /\ addr[r] \in cover[Load(pp[r])]
                    THEN Load(pp[r]) ELSE "none"]
    /\ pc' = [pc EXCEPT ![r] = "done"]
    /\ UNCHANGED <<list, syminfoFn, registered, found, cover, addr, pp>>

(* The sym == NULL test at line 896 is dropped: a walk that reached the  *)
(* end reports the NULL it stopped at as its symbol.                       *)
ReadLoadNoNullTest(r) ==
    /\ pc[r] = "r_load"
    /\ \/ /\ Load(pp[r]) = "NULL"
          /\ result' = [result EXCEPT ![r] = Load(pp[r])]
          /\ pc' = [pc EXCEPT ![r] = "done"]
          /\ UNCHANGED pp
       \/ /\ Load(pp[r]) # "NULL"
          /\ addr[r] \in cover[Load(pp[r])]
          /\ result' = [result EXCEPT ![r] = Load(pp[r])]
          /\ pc' = [pc EXCEPT ![r] = "done"]
          /\ UNCHANGED pp
       \/ /\ Load(pp[r]) # "NULL"
          /\ addr[r] \notin cover[Load(pp[r])]
          /\ pp' = [pp EXCEPT ![r] = pp[r] + 1]
          /\ UNCHANGED <<result, pc>>
    /\ UNCHANGED <<list, syminfoFn, registered, found, cover, addr>>

-----------------------------------------------------------------------------
(* Any tables, any addresses; an initializer's coff_add found symbols or   *)
(* not.  Walks start at &state->syminfo_data.                              *)
Init ==
    /\ list = <<>>
    /\ syminfoFn = "NULL"
    /\ registered = FALSE
    /\ result = [r \in Readers |-> "none"]
    /\ found \in [Inits -> BOOLEAN]
    /\ cover \in [Appenders -> SUBSET Addrs]
    /\ addr \in [Readers -> Addrs]
    /\ pp = [t \in Threads |-> 0]
    /\ pc = [t \in Threads |->
               IF t \in Inits THEN (IF found[t] THEN "add_load" ELSE "register")
               ELSE IF t \in Dlls THEN "wait" ELSE "r_load"]

(* Lines 813-823: p = the load of *pp; if p is NULL the walk ends at the *)
(* tail, else pp = &p->next.                                              *)
AddLoad(t) ==
    /\ pc[t] = "add_load"
    /\ IF Load(pp[t]) = "NULL"
       THEN /\ pc' = [pc EXCEPT ![t] = "add_cas"]
            /\ UNCHANGED pp
       ELSE /\ pp' = [pp EXCEPT ![t] = pp[t] + 1]
            /\ UNCHANGED pc
    /\ UNCHANGED <<list, syminfoFn, registered, result, found, cover, addr>>

(* Lines 825-826 and 807-811: CAS (pp, NULL, sdata); on failure the     *)
(* outer loop walks again from &state->syminfo_data.                     *)
AddCas(t) ==
    /\ pc[t] = "add_cas"
    /\ IF Load(pp[t]) = "NULL"
       THEN /\ list' = Append(list, t)
            /\ pc' = [pc EXCEPT ![t] = AfterAppend(t)]
            /\ UNCHANGED pp
       ELSE /\ pp' = [pp EXCEPT ![t] = 0]
            /\ pc' = [pc EXCEPT ![t] = "add_load"]
            /\ UNCHANGED list
    /\ UNCHANGED <<syminfoFn, registered, result, found, cover, addr>>

(* Lines 1493-1519: LdrRegisterDllNotification is found and the context   *)
(* allocated, and the notification is registered; or one of them fails.  *)
Register(t) ==
    /\ pc[t] = "register"
    /\ registered' \in {registered, TRUE}
    /\ pc' = [pc EXCEPT ![t] = "set_fn"]
    /\ UNCHANGED <<list, syminfoFn, result, found, cover, addr, pp>>

(* Lines 1529-1536: found_sym stores coff_syminfo atomically; otherwise   *)
(* coff_nosyms is installed by CAS only over NULL.                        *)
SetFn(t) ==
    /\ pc[t] = "set_fn"
    /\ syminfoFn' = IF found[t] THEN "coff_syminfo"
                    ELSE IF syminfoFn = "NULL" THEN "coff_nosyms" ELSE syminfoFn
    /\ pc' = [pc EXCEPT ![t] = "done"]
    /\ UNCHANGED <<list, registered, result, found, cover, addr, pp>>

(* Lines 1384-1421: once registered, the loader calls dll_notification.    *)
(* It returns early (not a load, no module handle or name, open fails) or *)
(* its coff_add found symbols and appends them; syminfo_fn is untouched. *)
DllStart(t) ==
    /\ pc[t] = "wait"
    /\ registered
    /\ pc' \in {[pc EXCEPT ![t] = "add_load"], [pc EXCEPT ![t] = "done"]}
    /\ UNCHANGED <<list, syminfoFn, registered, result, found, cover, addr, pp>>

(* Lines 879-893 and 896-899: sdata = the load of *pp; NULL ends the   *)
(* walk with no symbol; bsearch on a table covering addr ends it with   *)
(* that table; otherwise pp = &sdata->next.                            *)
ReadLoad(r) ==
    /\ pc[r] = "r_load"
    /\ \/ /\ Load(pp[r]) = "NULL"
          /\ result' = [result EXCEPT ![r] = "none"]
          /\ pc' = [pc EXCEPT ![r] = "done"]
          /\ UNCHANGED pp
       \/ /\ Load(pp[r]) # "NULL"
          /\ addr[r] \in cover[Load(pp[r])]
          /\ result' = [result EXCEPT ![r] = Load(pp[r])]
          /\ pc' = [pc EXCEPT ![r] = "done"]
          /\ UNCHANGED pp
       \/ /\ Load(pp[r]) # "NULL"
          /\ addr[r] \notin cover[Load(pp[r])]
          /\ pp' = [pp EXCEPT ![r] = pp[r] + 1]
          /\ UNCHANGED <<result, pc>>
    /\ UNCHANGED <<list, syminfoFn, registered, found, cover, addr>>

Step(t) ==
    AddLoad(t) \/ AddCas(t) \/ Register(t) \/ SetFn(t) \/ DllStart(t) \/ ReadLoad(t)

Next == \E t \in Threads : Step(t)

(* The threads are OS threads: each one that can run eventually runs.     *)
Spec == Init /\ [][Next]_vars /\ \A t \in Threads : WF_vars(Step(t))

-----------------------------------------------------------------------------
(* The atomic registry, seen through this module's state: the walking     *)
(* steps of an append are its "append" step, a reader's walk its lookup.  *)
AbsPc ==
    [t \in Threads |->
        IF pc[t] \in {"add_load", "add_cas"} THEN "append"
        ELSE IF pc[t] = "r_load" THEN "lookup" ELSE pc[t]]

Abs == INSTANCE SymbolRegistry WITH pc <- AbsPc

(* Type invariant.                                                         *)
TypeOK ==
    /\ list \in Seq(Appenders)
    /\ syminfoFn \in {"NULL", "coff_syminfo", "coff_nosyms"}
    /\ registered \in BOOLEAN
    /\ result \in [Readers -> Appenders \cup {"none"}]
    /\ pc \in [Threads -> {"add_load", "add_cas", "register", "set_fn",
                           "wait", "r_load", "done"}]
    /\ found \in [Inits -> BOOLEAN]
    /\ cover \in [Appenders -> SUBSET Addrs]
    /\ addr \in [Readers -> Addrs]
    /\ pp \in [Threads -> Nat]

(* No table is lost: once an initializer's coff_add_syminfo_data has      *)
(* returned, its table is linked from state->syminfo_data, whatever other *)
(* threads appended concurrently (the CAS at 825 fails rather than cut   *)
(* their tables off).                                                      *)
ShardsPublished ==
    \A t \in Inits :
        found[t] /\ pc[t] \in {"register", "set_fn", "done"} =>
            \E k \in 1 .. Len(list) : list[k] = t

(* The initializations agree on syminfo_fn: once every                    *)
(* backtrace_initialize has returned, syminfo_fn is coff_syminfo if any of *)
(* them found symbols and coff_nosyms otherwise, however their atomic      *)
(* stores and CASes (1529-1536) interleaved.  A later initialization       *)
(* without symbols must not undo an earlier coff_syminfo, and one without  *)
(* symbols must still leave a function installed.                          *)
SyminfoMatchesInits ==
    Inits # {} /\ (\A t \in Inits : pc[t] = "done") =>
        syminfoFn = IF \E t \in Inits : found[t] THEN "coff_syminfo" ELSE "coff_nosyms"

(* Every backtrace_initialize and every coff_syminfo returns, and every    *)
(* dll_notification started returns: the CAS loop cannot spin forever,    *)
(* since each failure means another table was appended.                   *)
Terminates ==
    \A t \in Threads : (pc[t] # "wait") ~> (pc[t] = "done")

(* Concurrent lookups and appends behave as the atomic registry: each      *)
(* lookup returns what a lookup at one instant of it would return, and     *)
(* tables are only ever appended (spec section 8.9).                       *)
Refines == Abs!Spec

(* Every table in the list is reachable through state->syminfo_fn once     *)
(* all threads are done: a registered table is looked up by coff_syminfo. *)
SymbolsReachable ==
    (\A t \in Threads : pc[t] = "done") /\ list # <<>> =>
        syminfoFn = "coff_syminfo"

=============================================================================
