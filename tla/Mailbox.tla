------------------------------ MODULE Mailbox ------------------------------
(***************************************************************************)
(* One user's mailbox as the servers see it: the rows of bm60_mails, the   *)
(* message bodies, the account's mailspace_used and mailbox_generation.    *)
(* Every operator is one SQL statement or one file operation of a session. *)
(*                                                                         *)
(* A message is its id; ids are handed out in order.  The IMAP UID, which  *)
(* bm60_bms_imapuid maps to a message once and for all, is the same number.*)
(***************************************************************************)
EXTENDS Naturals, Sequences, SequencesExt, FiniteSets, FiniteSetsExt

CONSTANTS
    MaxMails,     \* ids of bm60_mails go from 1 to here (a bound)
    FirstMails,   \* those up to here are in the table at the start
    Folders,      \* ids of the user's folders
    Inbox,        \* folder 0
    Sizes,        \* sizes of messages
    SizeLimit,    \* the storage the user's group has
    MaxOutside,   \* bound on deliveries and moves by the rest of b1gMail
    MaxCrashes    \* bound on killed sessions

ASSUME MailboxAssumption ==
    /\ MaxMails \in Nat /\ FirstMails \in 0..MaxMails
    /\ Inbox \in Folders /\ {"new", "gone"} \cap Folders = {}
    /\ Sizes # {} /\ Sizes \subseteq Nat \ {0}
    /\ SizeLimit \in Nat /\ MaxOutside \in Nat /\ MaxCrashes \in Nat

VARIABLES
    folder,    \* column folder of each row; "new": no row yet, "gone": deleted
    size,      \* column size of each row; of a deleted one, what it was
    flagged,   \* rows whose flags have FLAG_DELETED
    recent,    \* rows whose flags lack FLAG_SEEN
    blobs,     \* messages whose body is stored
    used,      \* mailspace_used
    gen,       \* mailbox_generation
    removed,   \* folders deleted from bm60_folders
    outside,   \* deliveries and moves so far
    crashes,   \* killed sessions so far
    wanted,    \* ghost: messages some client's \Deleted stands for
    ordered,   \* ghost: messages a QUIT or the DELETE of a folder was to delete
    hollow,    \* ghost: rows that have lost, or never got, their body
    unpaid,    \* ghost: octets a killed session stored and did not charge
    lost,      \* ghost: octets deleted that nobody will refund
    clamped,   \* ghost: octets LEAST kept from being refunded
    overpaid,  \* ghost: octets refunded for rows somebody else deleted or moved
    silent     \* ghost: a killed session changed rows and did not announce it

rowVars     == <<folder, size, flagged, recent>>
accountVars == <<used, clamped>>
budgetVars  == <<outside, crashes>>
wishVars    == <<wanted, ordered>>
ledgerVars  == <<hollow, unpaid, lost, overpaid, silent>>
mailboxVars == <<rowVars, blobs, accountVars, gen, removed, budgetVars, wishVars, ledgerVars>>

Mails      == 1..MaxMails
Rows       == {m \in Mails : folder[m] \in Folders}
RowsIn(f)  == {m \in Mails : folder[m] = f}
Fresh      == {m \in Mails : folder[m] = "new"}
Space(S)   == SumFunctionOnSet(size, S)
Lesser(a, b) == IF a < b THEN a ELSE b

\* By id, which is the UID: the sort of FetchMessages, and the ORDER BY of PASS.
InOrder(S) == [i \in 1..Cardinality(S) |-> CHOOSE m \in S : Cardinality({n \in S : n < m}) = i - 1]

-----------------------------------------------------------------------------
(***************************************************************************)
(* The statements the servers use.                                         *)
(***************************************************************************)

\* INSERT INTO bm60_mails: the row takes the next id.
InsertRow(m, f, octets, deleted) ==
    /\ m \in Fresh /\ \A n \in Fresh : m <= n
    /\ folder'  = [folder EXCEPT ![m] = f]
    /\ size'    = [size EXCEPT ![m] = octets]
    /\ recent'  = recent \cup {m}
    /\ flagged' = IF deleted THEN flagged \cup {m} ELSE flagged

\* DELETE FROM bm60_mails, of rows that may be gone by then.
DeleteRows(S) ==
    /\ folder'  = [m \in Mails |-> IF m \in S /\ m \in Rows THEN "gone" ELSE folder[m]]
    /\ flagged' = flagged \ S
    /\ recent'  = recent \ S
    /\ UNCHANGED size

\* UPDATE bm60_mails SET flags: the whole column is written, as a session has it
\* in its list: those of S in dels have FLAG_DELETED, those in recs no FLAG_SEEN.
WriteFlags(S, dels, recs) ==
    LET T == S \cap Rows IN
    /\ flagged' = (flagged \ T) \cup (T \cap dels)
    /\ recent'  = (recent \ T) \cup (T \cap recs)
    /\ UNCHANGED <<folder, size>>

\* mailspace_used-LEAST(mailspace_used, n), and mailspace_used+n.
Refund(n) ==
    /\ used'    = used - Lesser(used, n)
    /\ clamped' = clamped + (n - Lesser(used, n))

Charge(n) == used' = used + n /\ UNCHANGED clamped

IncGeneration == gen' = gen + 1

-----------------------------------------------------------------------------
(***************************************************************************)
(* What the rest of b1gMail does to the mailbox meanwhile.                 *)
(***************************************************************************)

MailboxInit ==
    /\ folder \in [Mails -> Folders \cup {"new"}]
    /\ Fresh = (FirstMails + 1)..MaxMails
    /\ size \in [Mails -> Sizes] /\ \A m \in Fresh : size[m] = CHOOSE n \in Sizes : TRUE
    /\ flagged \in {{}, Rows} /\ recent \in {{}, Rows}
    /\ blobs = Rows /\ used = Space(Rows) /\ gen = 1
    /\ removed = {} /\ outside = 0 /\ crashes = 0
    /\ wanted = flagged /\ ordered = {} /\ hollow = {} /\ unpaid = 0 /\ lost = 0
    /\ clamped = 0 /\ overpaid = 0 /\ silent = FALSE

\* b1gMail's CLI or web front end stores a message.
Delivered ==
    /\ outside < MaxOutside /\ outside' = outside + 1
    /\ \E m \in Fresh, n \in Sizes :
          /\ InsertRow(m, Inbox, n, FALSE)
          /\ blobs' = blobs \cup {m}
          /\ Charge(n)
    /\ IncGeneration
    /\ UNCHANGED <<removed, crashes, wishVars, ledgerVars>>

\* The web front end moves a message to another folder.
Moved ==
    /\ outside < MaxOutside /\ outside' = outside + 1
    /\ \E m \in Rows, f \in Folders \ removed :
          f # folder[m] /\ folder' = [folder EXCEPT ![m] = f]
    /\ IncGeneration
    /\ UNCHANGED <<size, flagged, recent, blobs, accountVars, removed, crashes, wishVars, ledgerVars>>

Outside == Delivered \/ Moved

MailboxTypeOK ==
    /\ folder \in [Mails -> Folders \cup {"new", "gone"}]
    /\ size \in [Mails -> Sizes]
    /\ flagged \subseteq Rows /\ recent \subseteq Rows /\ blobs \subseteq Mails
    /\ removed \subseteq Folders \ {Inbox} /\ silent \in BOOLEAN
    /\ used \in Nat /\ gen \in Nat /\ clamped \in Nat /\ overpaid \in Nat /\ unpaid \in Nat /\ lost \in Nat
    /\ outside \in 0..MaxOutside /\ crashes \in 0..MaxCrashes
    /\ wanted \cup ordered \cup hollow \subseteq Mails \ Fresh
=============================================================================
