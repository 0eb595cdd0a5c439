SPECIFICATION Spec
CONSTANTS
    u1 = u1
    m1 = m1
    m2 = m2
    m3 = m3
    c1 = c1
    Users = {u1}
    Requests <- OneUserRequests
    Chats <- OneUserRequests
    Sender <- OneUserSender
    HistoryLimit = 2
    MaxRestarts = 1
SYMMETRY OneUserSymmetry
INVARIANTS
    SingleFlight
    NothingStranded
    BatchIsPrefix
    EveryMessageAccounted
    BufferedAreStored
    UnusualCountOnlyBeyondLimit
    RepliesStoredTogether
    DeliveredAnswerIsStored
    HistoryReadsInOrder
    BatchingInv
PROPERTY
    KeepsContractSafely
CHECK_DEADLOCK FALSE
