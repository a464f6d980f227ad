CONSTANTS
    Inits <- MCInits
    Dlls <- MCDlls
    Readers <- MCReaders
    Addrs <- MCAddrs

SPECIFICATION Spec

INVARIANTS
    TypeOK
    ShardsPublished
    SyminfoMatchesInits

PROPERTIES
    Terminates
    Refines

\* Every thread returns; a DLL notification that is never registered waits
\* forever, which is not a deadlock of the program.
CHECK_DEADLOCK FALSE
