---------------------------- MODULE MC_MachoAdd ----------------------------
(* Two entries beside the executable, two files in a dSYM's DWARF         *)
(* directory: enough for a rejected dSYM followed by a matching one, and   *)
(* for a failed file before a good one in the same directory.              *)
EXTENDS MachoAdd

MCMaxBundles == 2
MCMaxFiles == 2
MCFaults == {"view", "dwarf"}
=============================================================================
