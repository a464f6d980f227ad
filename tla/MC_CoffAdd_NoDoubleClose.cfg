CONSTANTS
    P = P
    D = D
    None = None
    Files <- MCFiles
    Primary = P
    FileSystems <- MCFileSystems
    Faults = {}

INIT Init
NEXT Next

INVARIANT NoDoubleClose

\* backtrace_initialize returns; nothing runs after it.
CHECK_DEADLOCK FALSE
