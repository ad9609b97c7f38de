SPECIFICATION Spec
CONSTANTS
    gateway = gateway
    auth = auth
    monitoring = monitoring
    searxng = searxng
    librechat = librechat
    NoDomain = NoDomain
    NoPhase = NoPhase
    NoAddon = NoAddon
    Component = {gateway, auth, monitoring}
    Needs <- ChainNeeds
    Length <- ChainLength
    Addon = {}
    Requires <- NoRequires
    Uses <- NoRequires
    Domain = {1, 2}
    MaxFaults = 2
INVARIANTS TypeOK Backed OneTopology Accounted DependenciesHeld
PROPERTY ImplementsPhaseOrder
