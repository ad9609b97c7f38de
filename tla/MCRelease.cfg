\* The release and all its children, with one fault.
CONSTANTS
    workload = workload
    secret = secret
    role = role
    pod = pod
    token = token
    config = config
    volume = volume
    Item = {workload}
    Rendered = {workload}
    Global = {}
    Instanced = {workload}
    Child = {pod, token, config}
    Parent <- MCParent
    Stamped = {}
    Data = {token}
    Listed = {token, config}
    NoObject = NoObject
    Meddled = {workload}
    MaxUid = 6
    MaxFaults = 1
SPECIFICATION Spec
INVARIANTS
    TypeOK
    WriteAhead
    ChildrenAccepted
PROPERTIES
    DataSurvives
    RemovalComplete
    ForeignKept
CHECK_DEADLOCK FALSE
