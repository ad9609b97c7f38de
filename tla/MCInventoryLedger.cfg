SPECIFICATION Spec
CONSTANTS
    workload = workload
    crd = crd
    volume = volume
    certSecret = certSecret
    NoResource = NoResource
    Resource = {workload, certSecret}
    Crd = {}
    Data = {certSecret}
    CertSecret = {certSecret}
    Meddled = {workload, certSecret}
    MaxUid = 3
    MaxFaults = 1
INVARIANTS TypeOK Recorded
PROPERTIES RemovalComplete RetainedSurvive ImplementsOwnership
CHECK_DEADLOCK FALSE
