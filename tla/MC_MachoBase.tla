---------------------------- MODULE MC_MachoBase ----------------------------
(* 8-bit words with 4-bit uint32_t fields; up to two commands; sizeofcmds *)
(* from a truncated header to room for two 64-bit segments.  Vals holds   *)
(* a value with high bits (20) and values below one half-word.            *)
EXTENDS MachoBase

MCW == 8
MCMaxCmds == 2
MCVals == {0, 4, 20}
MCTotalSizes == {4, 8, 30, 56, 72, 80, 144}
=============================================================================
