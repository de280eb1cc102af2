SPECIFICATION Spec
CONSTANTS
    Ids = {1, 2}
    RpIds = {1}
    Uids = {u1}
    UserInfos = {a, b}
    MAX_SIGN_COUNT = 1
    MAX_UPDATES = 1
    PinInUse = TRUE
    StoreMayFail = FALSE
    LoadMayFail = FALSE
    None = None
SYMMETRY Symm
INVARIANTS RegisteredStored CacheCoherent
PROPERTIES ResetDeletesAll
