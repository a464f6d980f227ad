\* The Mach-O dSYM search with view and registration failures.
CONSTANTS
    MaxBundles <- MCMaxBundles
    MaxFiles <- MCMaxFiles
    Faults <- MCFaults
INIT Init
NEXT Next
INVARIANTS
    TypeOK
    TransientViewsReleased
    DirsClosed
    DwarfFromMatchingDsym
\* backtrace_initialize returns: the final state has no successor.
CHECK_DEADLOCK FALSE
