CONSTANTS
    u1 = u1
    u2 = u2
    u3 = u3
    u4 = u4
    t1 = t1
    t2 = t2
    k1 = k1
    k2 = k2
    RequestIds = {r1}
    Users = {u1, u2, u3, u4}
    RoleOf <- MCRoleOf
    Tenants = {t1, t2}
    TenantOf <- MCTenantOf
    Resources = {k1, k2}
    Unbound = Unbound
    OwnerOf <- MCOwnerOf
    Operations = {"KeyRotate", "KeyDelete", "TenantAdmin"}
    Instants <- MCInstants
    MaxCopies = 2
SPECIFICATION Spec
CHECK_DEADLOCK FALSE
INVARIANTS
    GrantsSound
    StatusMatchesVotes
PROPERTIES
    DecisionsStick
