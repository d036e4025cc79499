CONSTANTS
    Tenants = {t1}
    Specs = {"Aes256Gcm"}
    Clients = {c1, c2}
    UseOps = {"encrypt", "decrypt", "get_key_material"}
    MaxKeys = 1
    MaxCalls = 3
    MaxFailures = 0
    MaxRestarts = 0
    Destruction = TRUE
    PreloadLimit = 1
SPECIFICATION Spec
CHECK_DEADLOCK FALSE
INVARIANT DestroyedNotUsed
