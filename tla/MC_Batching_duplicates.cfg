SPECIFICATION Spec
CONSTANTS
    u1 = u1
    m1 = m1
    m2 = m2
    m3 = m3
    c1 = c1
    Users = {u1}
    Requests <- CommandRequests
    Chats <- CommandChats
    Sender <- CommandSender
    HistoryLimit = 3
    MaxRestarts = 0
INVARIANT NoDuplicatesInPrompt
CHECK_DEADLOCK FALSE
