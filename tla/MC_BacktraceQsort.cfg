CONSTANTS
    Vals <- MCVals
    MaxCount <- MCMaxCount

SPECIFICATION Spec

INVARIANTS
    TypeOK
    SortsInput
    AccessesInBounds

PROPERTY Terminates

\* backtrace_qsort returns: the behaviour ends in the "done" state.
CHECK_DEADLOCK FALSE
