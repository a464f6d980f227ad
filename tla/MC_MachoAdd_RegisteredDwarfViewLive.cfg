\* Violation run: RegisteredDwarfViewLive does not hold of macho.c.
CONSTANTS
    MaxBundles <- MCMaxBundles
    MaxFiles <- MCMaxFiles
    Faults <- MCFaults
INIT Init
NEXT Next
INVARIANT RegisteredDwarfViewLive
CHECK_DEADLOCK FALSE
