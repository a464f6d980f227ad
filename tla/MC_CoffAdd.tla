---------------------------- MODULE MC_CoffAdd ----------------------------
(* Model-checking instance of CoffAdd: the executable P and a debug file  *)
(* D.  P has every description whose links name D or nothing; D has every  *)
(* description without links, so the recursion is at most two calls deep *)
(* (runs that need cycles define their own file systems).                 *)
EXTENDS CoffAdd

CONSTANTS P, D

MCFiles == {P, D}

(* A CRC is only recorded with a link.                                     *)
MCDescs == {d \in FileDesc : d.link = None => d.crc = "zero"}

MCFileSystems ==
    {f \in [MCFiles -> MCDescs] :
        /\ f[P].link \in {None, D} /\ f[P].alt \in {None, D}
        /\ f[D].link = None /\ f[D].alt = None}
=============================================================================
