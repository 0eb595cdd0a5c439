SPECIFICATION FairSpec
CONSTANTS
    u1 = u1
    m1 = m1
    m2 = m2
    m3 = m3
    c1 = c1
    Users = {u1}
    Requests <- CommandRequests
    Chats <- CommandChats
    Sender <- CommandSender
    HistoryLimit = 2
    MaxRestarts = 0
PROPERTIES
    SliceRemovesTrailingBatch
    EveryRequestReturns
    KeepsContract
CHECK_DEADLOCK FALSE
