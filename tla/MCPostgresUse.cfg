CONSTANTS
    Tenants = {t1, t2}
    Specs = {"Sm4", "EcdsaP384"}
    Clients = {c1, c2}
    UseOps = {"encrypt", "decrypt", "get_key_material"}
    MaxKeys = 1
    MaxCalls = 2
    MaxFailures = 1
    MaxRestarts = 1
    Destruction = TRUE
    PreloadLimit = 1
SPECIFICATION FairSpec
CHECK_DEADLOCK FALSE
INVARIANTS
    TenantIsolation
    DeletionEffective
    ReloadFaithful
PROPERTY PreloadCompletes
