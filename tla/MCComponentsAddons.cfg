SPECIFICATION FairSpec
CONSTANTS
    gateway = gateway
    auth = auth
    monitoring = monitoring
    searxng = searxng
    librechat = librechat
    NoDomain = NoDomain
    NoPhase = NoPhase
    NoAddon = NoAddon
    Component = {gateway}
    Needs <- OneNeeds
    Length <- OneLength
    Addon = {searxng, librechat}
    Requires <- LibreChatRequires
    Uses <- LibreChatUses
    Domain = {1}
    MaxFaults = 2
INVARIANTS Accounted AddonsHeld
PROPERTIES AddonsFirst ProfileUninstallAccepted GoneIsEmpty CommandEnds
