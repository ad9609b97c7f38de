SPECIFICATION Spec
CONSTANTS
    auth = auth
    monitoring = monitoring
    grafana = grafana
    grafanaAdmin = grafanaAdmin
    librechat = librechat
    activepieces = activepieces
    dexSecrets = dexSecrets
    oidcCredentials = oidcCredentials
    grafanaAdminSecret = grafanaAdminSecret
    NoSecret = NoSecret
    Component = {auth, monitoring}
    Needs <- AuthFirst
    Auth = auth
    Key = {grafana, activepieces}
    Owner <- KeyOwner
    Secret = {dexSecrets, oidcCredentials}
    Of <- SecretOf
    Keys <- SecretKeys
    Locked <- SecretLocked
    DexSecret = dexSecrets
    Migrated = {}
    Recovered = {activepieces}
    Editable = {activepieces}
    MaxGeneration = 3
    MaxFaults = 1
PROPERTY NeverRotated
