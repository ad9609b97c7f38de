\* Two files, three faults.
CONSTANTS
    f1 = f1
    f2 = f2
    File = {f1, f2}
    MaxValue = 5
    MaxFaults = 3
SYMMETRY Symmetric
SPECIFICATION Spec
INVARIANTS
    TypeOK
    UploadsKept
    DatabaseOpens
    OneServer
    TokenFits
    InstalledServes
CHECK_DEADLOCK FALSE
