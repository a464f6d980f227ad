------------------------- MODULE MC_BacktraceQsort -------------------------
(* backtrace_qsort on every array of up to 9 elements over three values:   *)
(* 9 elements give the gap sequence 3, 1, so an h-sorted pass precedes the *)
(* final insertion sort; smaller counts start directly at gap 1.           *)
EXTENDS BacktraceQsort

MCVals == {1, 2, 3}
MCMaxCount == 9

=============================================================================
