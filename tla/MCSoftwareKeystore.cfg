CONSTANTS
    KeyIds = {k1}
    Tenants = {t1, t2}
    Specs = {"Aes256Gcm", "Sm2", "Ed25519", "Rsa4096"}
    Clients = {c1, c2}
    ImportIds = {0}
    MaxMaterial = 3
    MaxHistory = 3
    MaxOutputs = 2
SPECIFICATION Spec
SYMMETRY Symmetry
CHECK_DEADLOCK FALSE
INVARIANTS
    HistoryReadable
    VersionIdentity
    TenantIsolation
PROPERTIES
    DeletionFinal
    ImplementsLifecycle
