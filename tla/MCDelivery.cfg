SPECIFICATION Spec
CONSTANTS
    Kinds = {"inbound", "outbound"}
    w1 = w1
    w2 = w2
    Senders = {w1, w2}
    m1 = m1
    m2 = m2
    Mails = {m1, m2}
    s1 = s1
    s2 = s2
    Sessions = {s1, s2}
    MXServers = 2
    MaxTimeouts = 2
    MaxAttempts = 3
    Refusals = {"5xx"}
    NoSession = NoSession
    Porters = {w1, w2}
    Parcels = {m1, m2}
    c1 = c1
    c2 = c2
    Children = {c1, c2}
    p1 = p1
    p2 = p2
    Pids = {p1, p2}
    NoChild = NoChild
INVARIANTS
    OwnedOnce
    SuccessIsTaken
    FatalIsOwn
    DeliveredIsStored
    NoZombieLeft
    StraySignals
PROPERTIES
    CarriersReturn
CHECK_DEADLOCK FALSE
