SPECIFICATION Spec
CONSTANTS
    Ids = {1, 2}
    RpIds = {1, 2}
    Uids = {u1}
    UserInfos = {a}
    MAX_SIGN_COUNT = 1
    MAX_UPDATES = 0
    PinInUse = TRUE
    StoreMayFail = TRUE
    LoadMayFail = TRUE
    None = None
INVARIANTS TypeOK CounterPersisted EnumerationExact
PROPERTIES CounterAdvances PendingKept
