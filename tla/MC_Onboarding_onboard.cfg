SPECIFICATION FairSpec
CONSTANTS
    m1 = m1
    m2 = m2
    p1 = p1
    p2 = p2
    s = s
    c1 = c1
    c2 = c2
    c3 = c3
    os1 = os1
    os2 = os2
    Messages = {m1, m2}
    Forms = {p1, p2, s, c1, c2, c3}
    Kind <- KindOf
    Classes = {os1, os2}
    PoolSize = 2
INVARIANTS
    CompletedMeansActive
    ActiveHasClasses
    StandstillIsSeen
    OnboardingInv
PROPERTIES
    KeepsEnrolment
    FreshFormRepairs
    EveryTaskEnds
CONSTRAINT UserDoes
CHECK_DEADLOCK FALSE
