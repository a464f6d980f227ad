CONSTANTS
    W <- MCW
    MaxCmds <- MCMaxCmds
    Vals <- MCVals
    TotalSizes <- MCTotalSizes
INIT Init
NEXT Next
INVARIANTS BaseIsVmaddrMinusFileoff
\* macho_get_base returns: the final state has no successor.
CHECK_DEADLOCK FALSE
