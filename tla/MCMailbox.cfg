SPECIFICATION Spec
CONSTANTS
    MaxMails = 2
    FirstMails = 1
    Folders = {"inbox", "archive"}
    Inbox = "inbox"
    Sizes = {1, 2}
    SizeLimit = 3
    MaxOutside = 1
    MaxCrashes = 1
    p1 = p1
    PopSessions = {p1}
    PopFolders = {"inbox"}
    MaxTries = 2
    MaxMarks = 1
    s1 = s1
    ImapSessions = {s1}
    Limits = {0}
    AutoExpunge = TRUE
    Commands = {"select", "append", "copy", "expunge", "close", "delete", "status", "rename", "store"}
    MaxCommands = 2
INVARIANTS
    SpaceAccounted
    BodyKept
CHECK_DEADLOCK FALSE
