CONSTANTS
    P = P
    D = D
    None = None
    Files <- MCFiles
    Primary = P
    FileSystems <- MCFileSystems
    Faults = {"view", "alloc", "open", "close", "dwarf"}

INIT Init
NEXT Next

INVARIANTS
    TypeOK
    DescriptorClosedOnReturn
    TransientViewsReleased
    RegisteredDwarfViewLive
    SuccessSetsFileline

\* backtrace_initialize returns; nothing runs after it.
CHECK_DEADLOCK FALSE
