SPECIFICATION Spec
CONSTANTS
    gateway = gateway
    auth = auth
    monitoring = monitoring
    searxng = searxng
    librechat = librechat
    NoDomain = NoDomain
    NoPhase = NoPhase
    NoAddon = NoAddon
    Component = {gateway}
    Needs <- OneNeeds
    Length <- OneLength
    Addon = {searxng, librechat}
    Requires <- LibreChatRequires
    Uses <- LibreChatUses
    Domain = {1}
    MaxFaults = 1
INVARIANT ReinstallAccepted
