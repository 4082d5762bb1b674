SPECIFICATION ServerSpec
CONSTANTS
    s1 = s1
    s2 = s2
    SmtpSessions = {s1, s2}
    Locals = {"anna"}
    Remotes = {"bob"}
    Limit = 3
    FilterTables <- Tables
    MaxMessages = 1
SYMMETRY Symmetry
INVARIANTS
    LimitKept
    TodayCounts
    SentAsAsked
    FiltersObeyed
CHECK_DEADLOCK FALSE
