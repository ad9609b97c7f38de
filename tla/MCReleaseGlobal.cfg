\* A chart with a cluster-scoped object; no children, nothing fails.
CONSTANTS
    workload = workload
    secret = secret
    role = role
    pod = pod
    token = token
    config = config
    volume = volume
    NoObject = NoObject
    Parent <- MCParent
    Item = {workload, role}
    Rendered = {workload, role}
    Global = {role}
    Instanced = {workload, role}
    Child = {}
    Stamped = {}
    Data = {}
    Listed = {workload}
    Meddled = {}
    MaxUid = 4
    MaxFaults = 0
SPECIFICATION Spec
INVARIANT ReinstallAccepted
CHECK_DEADLOCK FALSE
