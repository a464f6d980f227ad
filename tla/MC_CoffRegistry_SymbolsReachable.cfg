CONSTANTS
    Inits <- MCInits
    Dlls <- MCDlls
    Readers <- MCReaders
    Addrs <- MCAddrs

INIT Init
NEXT Next

INVARIANT SymbolsReachable

\* The threads return; nothing runs after them.
CHECK_DEADLOCK FALSE
