SPECIFICATION Spec
CONSTANTS
    workload = workload
    crd = crd
    volume = volume
    certSecret = certSecret
    NoResource = NoResource
    Resource = {crd, volume}
    Crd = {crd}
    Data = {volume}
    CertSecret = {}
    Meddled = {crd}
    MaxUid = 3
    MaxFaults = 1
INVARIANT RerunAccepted
PROPERTIES RemovalComplete RetainedSurvive ImplementsOwnership
CHECK_DEADLOCK FALSE
