--------------------------- MODULE MC_CoffRegistry ---------------------------
(***************************************************************************)
(* Two concurrent initializations (so that their appends and their         *)
(* syminfo_fn stores race), one DLL notification, one reader, and two     *)
(* addresses (so that a table can cover one, both or neither).            *)
(***************************************************************************)
EXTENDS CoffRegistry

MCInits == {"i1", "i2"}
MCDlls == {"d1"}
MCReaders == {"r1"}
MCAddrs == {"a1", "a2"}

=============================================================================
