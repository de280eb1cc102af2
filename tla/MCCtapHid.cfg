SPECIFICATION FairSpec
CHECK_DEADLOCK FALSE
CONSTANTS
    Cids = {1, 9}
    BROADCAST_CID = 9
    REPORT_SIZE = 64
    SEQUENCES = 128
    NONCE_SIZE = 8
    Requests <- CodeRequests
    MAX_MESSAGES = 2
    Pipelining = TRUE
    MayLose = FALSE
    None = None
INVARIANTS DispatchedIntact
PROPERTIES RefinesDelivery MessageDispatched
