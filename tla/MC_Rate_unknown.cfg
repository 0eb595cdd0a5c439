SPECIFICATION Spec
CONSTANTS
    amina = amina
    baraka = baraka
    r1 = r1
    r1again = r1again
    r2 = r2
    r3 = r3
    r4 = r4
    n1 = n1
    n1again = n1again
    f1 = f1
    text1 = text1
    text2 = text2
    text3 = text3
    picture = picture
    report = report
    notice = notice
    Users = {amina, baraka}
    Requests = {r1, r2, r3, r4}
    Sender <- SenderOf
    Events <- EventsOf
    Carries <- CarriesIn
    Body <- BodyOf
    GlobalKey = GlobalKey
    UserLimit = 2
    GlobalLimit = 2
    TimeToLive = 2
    OutdatedAfter = 2
INVARIANT OverLimitIsRefused
