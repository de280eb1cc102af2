SPECIFICATION Spec
CHECK_DEADLOCK FALSE
CONSTANTS
    Cids = {1, 3}
    BROADCAST_CID = 3
    REPORT_SIZE = 8
    SEQUENCES = 2
    NONCE_SIZE = 1
    Requests <- ShortRequests
    MAX_MESSAGES = 3
    Pipelining = TRUE
    MayLose = TRUE
    None = None
INVARIANTS TypeOK DispatchedAligned
PROPERTIES CidsFresh
