CONSTANTS
    KeyIds = {k1}
    Tenants = {t1}
    Specs = {"Rsa4096", "Aes256Gcm"}
    Clients = {c1, c2}
    ImportIds = {0}
    MaxMaterial = 2
    MaxHistory = 2
    MaxOutputs = 2
SPECIFICATION Spec
SYMMETRY Symmetry
CHECK_DEADLOCK FALSE
INVARIANT MaterialNeverEmpty
