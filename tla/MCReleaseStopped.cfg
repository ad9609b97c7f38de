\* A Secret that a controller makes without labels; the command is stopped once.
CONSTANTS
    workload = workload
    secret = secret
    role = role
    pod = pod
    token = token
    config = config
    volume = volume
    NoObject = NoObject
    Parent <- MCParent
    Item = {workload}
    Rendered = {workload}
    Global = {}
    Instanced = {workload}
    Child = {token}
    Stamped = {}
    Data = {token}
    Listed = {token}
    Meddled = {}
    MaxUid = 3
    MaxFaults = 1
SPECIFICATION Spec
INVARIANT CaptureAccepted
CHECK_DEADLOCK FALSE
