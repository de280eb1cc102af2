SPECIFICATION Spec
CONSTANTS
    Ids = {1, 2}
    RpIds = {1}
    Uids = {u1, u2}
    UserInfos = {a}
    MAX_SIGN_COUNT = 1
    MAX_UPDATES = 0
    PinInUse = FALSE
    StoreMayFail = FALSE
    LoadMayFail = FALSE
    None = None
SYMMETRY Symm
PROPERTIES OtherUsersKept
