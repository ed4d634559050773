SPECIFICATION Spec
CONSTANTS
    Requests = {r1, r2}
    Principals = {"ada", "uma"}
    KindOf <- KindOfDef
    MaxEpochs = 2
    MaxLogins = 3
INVARIANTS TypeOK SharedRefresh ExpiryInvisible Coherent
PROPERTIES StaysLoggedOut Settles
