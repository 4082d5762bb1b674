SPECIFICATION Spec
CONSTANTS
    MaxMails = 3
    FirstMails = 2
    Folders = {"inbox", "archive"}
    Inbox = "inbox"
    Sizes = {1}
    SizeLimit = 3
    MaxOutside = 0
    MaxCrashes = 0
    PopSessions = {}
    PopFolders = {}
    MaxTries = 1
    MaxMarks = 0
    s1 = s1
    s2 = s2
    ImapSessions = {s1, s2}
    Limits = {2}
    AutoExpunge = FALSE
    Commands = {"select", "append", "expunge", "store", "idle", "examine"}
    MaxCommands = 3
SYMMETRY Sessions
INVARIANTS
    OnlyWantedGo
    ClientInSync
    ListCurrent
CHECK_DEADLOCK FALSE
