--------------------------- MODULE SymbolRegistry ---------------------------
(***************************************************************************)
(* What the symbol registry of a threaded backtrace_state promises, with   *)
(* every operation atomic: the shape a reader of spec section 8.9 expects  *)
(* ("concurrent calls ... indistinguishable from serial calls").           *)
(*                                                                         *)
(*  - a thread running backtrace_initialize whose coff_add found symbols   *)
(*    appends its symbol table once, then may register the DLL load        *)
(*    notification, then installs syminfo_fn;                              *)
(*  - a DLL notification thread, once registered, may append one table;    *)
(*  - a lookup returns the first table of the list that covers its         *)
(*    address, or nothing, as if the whole list were read at one instant.  *)
(*                                                                         *)
(* CoffRegistry implements this with a compare-and-swap loop and a         *)
(* lock-free list walk.                                                    *)
(***************************************************************************)
EXTENDS Naturals, Sequences

CONSTANTS
    Inits,    \* threads running backtrace_initialize
    Dlls,     \* threads running dll_notification
    Readers,  \* threads running coff_syminfo
    Addrs     \* the addresses looked up

Appenders == Inits \cup Dlls
Threads == Appenders \cup Readers

VARIABLES
    list,        \* state->syminfo_data, oldest table first
    syminfoFn,   \* state->syminfo_fn
    registered,  \* dll_notification has been registered with the loader
    result,      \* per reader: the table its lookup found, or "none"
    pc,          \* per thread: where it is
    found,       \* per initializing thread: its coff_add found symbols
    cover,       \* per appender: the addresses its symbol table covers
    addr         \* per reader: the address it looks up

vars == <<list, syminfoFn, registered, result, pc, found, cover, addr>>

(* The first table of l that covers a, as coff_syminfo's walk returns it.  *)
FirstCover(l, a) ==
    LET ks == {k \in 1 .. Len(l) : a \in cover[l[k]]}
    IN  IF ks = {} THEN "none" ELSE l[CHOOSE k \in ks : \A j \in ks : k <= j]

(* The step after an appender's table is in the list.                     *)
AfterAppend(t) == IF t \in Inits THEN "register" ELSE "done"

Init ==
    /\ list = <<>>
    /\ syminfoFn = "NULL"
    /\ registered = FALSE
    /\ result = [r \in Readers |-> "none"]
    /\ found \in [Inits -> BOOLEAN]
    /\ cover \in [Appenders -> SUBSET Addrs]
    /\ addr \in [Readers -> Addrs]
    /\ pc = [t \in Threads |->
               IF t \in Inits THEN (IF found[t] THEN "append" ELSE "register")
               ELSE IF t \in Dlls THEN "wait" ELSE "lookup"]

AddTable(t) ==
    /\ pc[t] = "append"
    /\ list' = Append(list, t)
    /\ pc' = [pc EXCEPT ![t] = AfterAppend(t)]
    /\ UNCHANGED <<syminfoFn, registered, result, found, cover, addr>>

Register(t) ==
    /\ pc[t] = "register"
    /\ registered' \in {registered, TRUE}
    /\ pc' = [pc EXCEPT ![t] = "set_fn"]
    /\ UNCHANGED <<list, syminfoFn, result, found, cover, addr>>

SetFn(t) ==
    /\ pc[t] = "set_fn"
    /\ syminfoFn' = IF found[t] THEN "coff_syminfo"
                    ELSE IF syminfoFn = "NULL" THEN "coff_nosyms" ELSE syminfoFn
    /\ pc' = [pc EXCEPT ![t] = "done"]
    /\ UNCHANGED <<list, registered, result, found, cover, addr>>

DllStart(t) ==
    /\ pc[t] = "wait"
    /\ registered
    /\ pc' \in {[pc EXCEPT ![t] = "append"], [pc EXCEPT ![t] = "done"]}
    /\ UNCHANGED <<list, syminfoFn, registered, result, found, cover, addr>>

Lookup(r) ==
    /\ pc[r] = "lookup"
    /\ result' = [result EXCEPT ![r] = FirstCover(list, addr[r])]
    /\ pc' = [pc EXCEPT ![r] = "done"]
    /\ UNCHANGED <<list, syminfoFn, registered, found, cover, addr>>

Step(t) == AddTable(t) \/ Register(t) \/ SetFn(t) \/ DllStart(t) \/ Lookup(t)

Next == \E t \in Threads : Step(t)

(* Every thread that can take a step eventually does.                     *)
Spec == Init /\ [][Next]_vars /\ \A t \in Threads : WF_vars(Step(t))

(* The safety part, which the refinement proof establishes.                *)
SafetySpec == Init /\ [][Next]_vars

=============================================================================
