CONSTANTS
    Tenants = {t1}
    Specs = {"Sm4"}
    Clients = {c1, c2}
    UseOps = {}
    MaxKeys = 3
    MaxCalls = 2
    MaxFailures = 1
    MaxRestarts = 0
    Destruction = FALSE
    PreloadLimit = 1
SPECIFICATION Spec
SYMMETRY Symmetry
CHECK_DEADLOCK FALSE
INVARIANTS
    AcknowledgedDurable
    RotatedOnce
