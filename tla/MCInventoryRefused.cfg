SPECIFICATION Spec
CONSTANTS
    workload = workload
    crd = crd
    volume = volume
    certSecret = certSecret
    NoResource = NoResource
    Resource = {workload}
    Crd = {}
    Data = {}
    CertSecret = {}
    Meddled = {}
    MaxUid = 3
    MaxFaults = 2
INVARIANT RerunAccepted
CHECK_DEADLOCK FALSE
