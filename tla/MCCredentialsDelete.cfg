SPECIFICATION Spec
CONSTANTS
    Ids = {1, 2, 3}
    RpIds = {1, 2}
    Uids = {u1}
    UserInfos = {a}
    MAX_SIGN_COUNT = 1
    MAX_UPDATES = 0
    PinInUse = TRUE
    StoreMayFail = FALSE
    LoadMayFail = FALSE
    None = None
PROPERTIES NextAssertionForSameRp
