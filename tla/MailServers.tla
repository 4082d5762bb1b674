---------------------------- MODULE MailServers ----------------------------
(***************************************************************************)
(* POP3 and IMAP servers and the rest of b1gMail on one mailbox.  They     *)
(* meet in the rows, the bodies, the account and mailbox_generation, which *)
(* no statement locks.                                                     *)
(***************************************************************************)
EXTENDS Pop3, Imap

vars == <<mailboxVars, pop, imapVars>>

Init == MailboxInit /\ PopInit /\ ImapInit

Next ==
    \/ Outside /\ UNCHANGED <<pop, imapVars>>
    \/ \E p \in PopSessions : PopStep(p) /\ UNCHANGED imapVars
    \/ \E s \in ImapSessions : ImapStep(s) /\ UNCHANGED pop

Spec == Init /\ [][Next]_vars

-----------------------------------------------------------------------------

TypeOK == MailboxTypeOK /\ PopTypeOK /\ ImapTypeOK

\* Octets of rows that sessions have deleted and will refund, and of rows they
\* have inserted and will charge.
ToRefund ==
    SumFunction([p \in PopSessions |-> Space(pop[p].freed)])
        + SumFunction([s \in ImapSessions |-> Space(imap[s].freed)])
ToCharge == SumFunction([s \in ImapSessions |-> Space(Uncharged(s))])

\* mailspace_used is the size of the rows there are, whoever deletes the same
\* message at the same time (only the session whose DELETE affected a row refunds
\* it) and whatever is copied or stored meanwhile.  What is off is what killed
\* sessions did not charge or refund, what LEAST clamped, and what DeleteFolder
\* counted before it deleted.
SpaceAccounted ==
    used + ToCharge + unpaid + overpaid = Space(Rows) + ToRefund + lost + clamped

\* A message goes only because a client wanted it: its \Deleted stood in the list
\* of a session that did not take it back, a QUIT had it marked, or its folder was
\* deleted - however stale the list was by which the session worked.
OnlyWantedGo == \A m \in RowsIn("gone") : m \in wanted \cup ordered

\* A row keeps its body, unless somebody is deleting the message or was killed
\* while he stored or deleted it, or the row is a copy of a message that went.
BodyKept ==
    \A m \in Rows \ blobs :
        \/ m \in hollow \cup wanted \cup ordered
        \/ \E s \in ImapSessions : m \in Bodiless(s)

Changing ==
    \/ \E p \in PopSessions : PopUnannounced(p)
    \/ \E s \in ImapSessions : ImapUnannounced(s)

\* When nobody is in the middle of a change, a session that has the account's
\* generation has the folder's messages: the generation is incremented after each
\* change and read before the list.  (SELECT reads it after the list: raced.)
ListCurrent ==
    \A s \in ImapSessions :
        LET r == imap[s] IN
        (/\ r.pc \in {"ready", "idle"} /\ r.sel # "none" /\ r.gen = gen
         /\ ~r.raced /\ ~silent /\ ~Changing)
            => r.list = Visible(r.sel, r.limit)
=============================================================================
