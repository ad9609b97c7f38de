SPECIFICATION Spec
CONSTANTS
    auth = auth
    monitoring = monitoring
    grafana = grafana
    grafanaAdmin = grafanaAdmin
    librechat = librechat
    activepieces = activepieces
    dexSecrets = dexSecrets
    oidcCredentials = oidcCredentials
    grafanaAdminSecret = grafanaAdminSecret
    NoSecret = NoSecret
    Component = {auth, monitoring}
    Needs <- AuthFirst
    Auth = auth
    Key = {grafana, grafanaAdmin, librechat}
    Owner <- KeyOwner
    Secret = {dexSecrets, oidcCredentials, grafanaAdminSecret}
    Of <- SecretOf
    Keys <- SecretKeys
    Locked <- SecretLocked
    DexSecret = dexSecrets
    Migrated = {librechat}
    Recovered = {}
    Editable = {grafana, librechat}
    MaxGeneration = 3
    MaxFaults = 1
INVARIANTS TypeOK Agree RegisteredSaved
PROPERTY NeverRotated
