--------------------------- MODULE MCMailServers ---------------------------
EXTENDS MailServers, TLC

Sessions == Permutations(ImapSessions)
=============================================================================
