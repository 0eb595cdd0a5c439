SPECIFICATION Spec
CONSTANTS
    m1 = m1
    m2 = m2
    p1 = p1
    p2 = p2
    s = s
    c1 = c1
    c2 = c2
    c3 = c3
    os1 = os1
    os2 = os2
    Messages = {m1, m2}
    Forms = {p1, c1, c2}
    Kind <- KindOf
    Classes = {os1, os2}
    PoolSize = 2
PROPERTY AssignmentReplaces
CHECK_DEADLOCK FALSE
