-------------------------------- MODULE Imap --------------------------------
(***************************************************************************)
(* IMAP server processes (imap/) on one user's mailbox.                    *)
(*                                                                         *)
(* ProcessLine refreshes the session's list before most commands; a        *)
(* command then works on that list, one SQL statement or file operation a  *)
(* step.  STORE, FETCH, LOGOUT and IDLE begin without a refresh.  `client' *)
(* is what the untagged EXISTS and EXPUNGE lines have told the client: the *)
(* message it believes to have each sequence number.                       *)
(***************************************************************************)
EXTENDS Mailbox

CONSTANTS
    ImapSessions,  \* IMAP server processes
    Limits,        \* values of imap_limit (0: none)
    AutoExpunge,   \* imap_autoexpunge
    Commands,      \* commands clients send, of those below
    MaxCommands    \* bound on the commands of all sessions

\* Those before which ProcessLine refreshes.
Refreshing == {"select", "examine", "append", "copy", "expunge", "close", "delete",
               "status", "rename"}

ASSUME ImapAssumption ==
    /\ IsFiniteSet(ImapSessions) /\ Limits \subseteq Nat /\ AutoExpunge \in BOOLEAN /\ MaxCommands \in Nat
    /\ Commands \subseteq Refreshing \cup {"store", "idle"}
    /\ "none" \notin Folders

\* pc: where the process is; then: where it goes on afterwards.  sel, ro, limit,
\* gen, list: iSelected, bReadonly, iLimit, iGeneration, vMessages; dels and
\* recs: the messages whose iFlags in the list have FLAG_DELETED and lack
\* FLAG_SEEN.  dirs: cFolders.  read: the generation ProcessLine has read.
\* back, backDels: messages FetchMessages will write back, and those of them it
\* found deleted.  arg, octets, todo, new: the command's folder, the size of its
\* message, its messages, the row it inserted.  freed: what freedSpace counts.
\* dirty: mailboxModified.
\* client: see above.  untold: ghost, the list was read anew without telling
\* the client.  raced: ghost, the list is older than iGeneration.
VARIABLES imap,
          sent   \* commands so far
imapVars == <<imap, sent>>

ImapConnected == [pc |-> "login", then |-> "ready", sel |-> "none", ro |-> "unset", limit |-> 0,
              gen |-> 0, list |-> <<>>, dels |-> {}, recs |-> {}, dirs |-> {}, read |-> 0,
              back |-> {}, backDels |-> {}, arg |-> "none", octets |-> 0, todo |-> {},
              new |-> 0, freed |-> {}, dirty |-> FALSE,
              client |-> <<>>, untold |-> FALSE, raced |-> FALSE]

\* A process that has ended keeps nothing.
LoggedOut == [ImapConnected EXCEPT !.pc = "out"]

ImapInit == sent = 0 /\ imap = [s \in ImapSessions |-> ImapConnected]

Sends == sent < MaxCommands /\ sent' = sent + 1

At(s, pc) == imap[s].pc = pc

\* The next command is awaited, by the main loop or (with pc "idle") by IDLE;
\* nothing a command worked with is used again.
Waiting(r, pc) == [r EXCEPT !.pc = pc, !.then = "ready", !.dirs = {}, !.read = 0, !.arg = "none",
                            !.octets = 0, !.todo = {}, !.new = 0]
Ready(r) == Waiting(r, "ready")

GoesOn(r, pc) == IF pc \in {"ready", "idle"} THEN Waiting(r, pc) ELSE [r EXCEPT !.pc = pc]

-----------------------------------------------------------------------------
(***************************************************************************)
(* Lists.                                                                  *)
(***************************************************************************)

\* FetchMessages: the rows of a folder by UID; too long a list is cut to one
\* less than the limit.
Visible(f, limit) ==
    LET all == InOrder(RowsIn(f)) IN
    IF limit # 0 /\ Len(all) > limit
    THEN SubSeq(all, Len(all) - limit + 2, Len(all))
    ELSE all

\* Mutant: the sequence numbers behind a removed message do not move up.
WalkOnUnshifted(walk, m, new) ==
    IF walk.kept < Len(new) /\ new[walk.kept + 1] = m
    THEN [walk EXCEPT !.kept = @ + 1]
    ELSE [walk EXCEPT !.lines = Append(@, walk.kept + Len(walk.lines) + 1)]

\* ReportDelta walks along the old list and drops what differs from the new one:
\* the messages kept so far, and the sequence numbers of the EXPUNGE lines, which
\* each make the numbers behind them one less.
WalkOn(walk, m, new) ==
    IF walk.kept < Len(new) /\ new[walk.kept + 1] = m
    THEN [walk EXCEPT !.kept = @ + 1]
    ELSE [walk EXCEPT !.lines = Append(@, walk.kept + 1)]

WalkStart == [kept |-> 0, lines |-> <<>>]

Expunges(old, new) == FoldLeft(LAMBDA walk, m : WalkOn(walk, m, new), WalkStart, old).lines

\* What a client makes of an EXPUNGE line ...
Without(view, k) == IF k \in DOMAIN view THEN RemoveAt(view, k) ELSE view

\* ... of all of them, ...
WithoutAll(view, lines) == FoldLeft(Without, view, lines)

\* ... and of the EXISTS line behind them: new messages come at the end.
Told(view, old, new) ==
    LET lines == Expunges(old, new)
        rest  == WithoutAll(view, lines)
    IN IF lines = <<>> /\ Len(new) = Len(old) THEN rest
       ELSE [k \in 1..Len(new) |-> IF k \in DOMAIN rest THEN rest[k] ELSE new[k]]

Listing(s) == ToSet(imap[s].list)

\* The list and the flags FetchMessages reads for a session, and, unless the
\* mailbox is read-only, what it will write back.
Refetch(rec, f) ==
    LET msgs == Visible(f, rec.limit)
        recs == RowsIn(f) \cap recent
    IN [rec EXCEPT !.list     = msgs,
                   !.dels     = ToSet(msgs) \cap flagged,
                   !.recs     = ToSet(msgs) \cap recent,
                   !.back     = IF rec.ro = "yes" THEN {} ELSE recs,
                   !.backDels = IF rec.ro = "yes" THEN {} ELSE recs \cap flagged,
                   !.pc       = "writeback"]

\* No message is to be written back.
Skip(r) == IF r.pc = "writeback" /\ r.back = {} THEN GoesOn(r, r.then) ELSE r

-----------------------------------------------------------------------------
(***************************************************************************)
(* Sessions and their lists.                                               *)
(***************************************************************************)

\* LOGIN or AUTHENTICATE succeeds.
Login(s) ==
    /\ At(s, "login")
    /\ \E n \in Limits : imap' = [imap EXCEPT ![s].pc = "ready", ![s].limit = n]
    /\ UNCHANGED mailboxVars

\* A command that refreshes: ProcessLine reads the generations, and the folders
\* if theirs has changed.
Begin(s) ==
    /\ At(s, "ready") /\ Sends
    /\ \E c \in Commands \cap Refreshing :
          /\ c \in {"copy", "expunge", "close"} => imap[s].sel # "none"
          /\ LET current == imap[s].sel = "none" \/ imap[s].gen = gen
             IN imap' = [imap EXCEPT ![s].pc   = IF current THEN c ELSE "refresh",
                                     ![s].then = c,
                                     ![s].read = gen,
                                     ![s].dirs = Folders \ removed]
    /\ UNCHANGED mailboxVars

\* The command names no folder of the session, or is malformed.
Refused(s) ==
    /\ imap[s].pc \in {"select", "examine", "status", "append", "copy", "delete", "rename"}
    /\ imap' = [imap EXCEPT ![s] = Ready(@)]
    /\ UNCHANGED mailboxVars

\* IDLE, until the client ends it.
Idle(s) ==
    /\ \/ /\ At(s, "ready") /\ imap[s].sel # "none" /\ "idle" \in Commands
          /\ imap' = [imap EXCEPT ![s].pc = "idle"]
       \/ /\ At(s, "idle")
          /\ imap' = [imap EXCEPT ![s].pc = "ready"]
    /\ UNCHANGED mailboxVars

\* NOOP, CHECK and the like, and the polls of IDLE: a refresh if one is due.
Poll(s) ==
    /\ imap[s].pc \in {"ready", "idle"} /\ imap[s].sel # "none" /\ imap[s].gen # gen
    /\ imap' = [imap EXCEPT ![s].pc = "refresh", ![s].then = imap[s].pc, ![s].read = gen]
    /\ UNCHANGED mailboxVars

\* The list is read anew and the client told by ReportDelta.
Refresh(s) ==
    /\ At(s, "refresh")
    /\ LET r == Refetch(imap[s], imap[s].sel)
       IN imap' = [imap EXCEPT ![s] =
                    Skip([r EXCEPT !.gen    = r.read,
                                   !.client = IF r.untold THEN r.list
                                              ELSE Told(r.client, imap[s].list, r.list),
                                   !.raced  = FALSE])]
    /\ UNCHANGED mailboxVars

\* FlagMessage(iFlags | FLAG_SEEN), without a new generation, for each message
\* FetchMessages found without it.
WriteBack(s) ==
    /\ At(s, "writeback")
    /\ WriteFlags(imap[s].back, imap[s].backDels, {})
    /\ imap' = [imap EXCEPT ![s] = GoesOn([@ EXCEPT !.back = {}, !.backDels = {}], @.then)]
    /\ UNCHANGED <<blobs, accountVars, gen, removed, budgetVars, wishVars, ledgerVars>>

\* SELECT and EXAMINE of a folder the session knows.  With imap_autoexpunge the
\* mailbox selected until now is expunged first.
Select(s) ==
    /\ imap[s].pc \in {"select", "examine"}
    /\ \E f \in imap[s].dirs :
          imap' = [imap EXCEPT ![s].arg = f, ![s].ro = IF At(s, "examine") THEN "yes" ELSE "no",
                               ![s].pc  = IF AutoExpunge /\ imap[s].sel # "none"
                                          THEN "reselect" ELSE "open"]
    /\ UNCHANGED mailboxVars

\* The messages are read, ...
Open(s) ==
    /\ At(s, "open")
    /\ imap' = [imap EXCEPT ![s] = Skip(Refetch([imap[s] EXCEPT !.sel = imap[s].arg, !.arg = "none",
                                                                !.read = gen, !.then = "opened"],
                                                imap[s].arg))]
    /\ UNCHANGED mailboxVars

\* ... then the generation, and the client learns how many messages there are.
Opened(s) ==
    /\ At(s, "opened")
    /\ imap' = [imap EXCEPT ![s] = Ready([@ EXCEPT !.gen = gen, !.client = imap[s].list,
                                          !.untold = FALSE, !.raced = (imap[s].read # gen)])]
    /\ UNCHANGED mailboxVars

\* STATUS reads the messages of a folder as SELECT does; before the first SELECT
\* bReadonly is not initialized.
Status(s) ==
    /\ At(s, "status")
    /\ \E f \in imap[s].dirs, ro \in IF imap[s].ro = "unset" THEN {"yes", "no"} ELSE {imap[s].ro} :
          LET r == Refetch([imap[s] EXCEPT !.ro = ro], f)
          IN imap' = [imap EXCEPT ![s] = Skip([@ EXCEPT !.pc = "writeback", !.then = "ready",
                                               !.back = r.back, !.backDels = r.backDels])]
    /\ UNCHANGED mailboxVars

-----------------------------------------------------------------------------
(***************************************************************************)
(* Flags and EXPUNGE.                                                      *)
(***************************************************************************)

\* Another session has the message marked in its list.
WantedElsewhere(s, m) ==
    \E t \in ImapSessions \ {s} :
        m \in imap[t].dels \cup imap[t].backDels

\* Mutant: the flags are written as they were in the list.
StoreWritesOld(s) ==
    /\ At(s, "ready") /\ imap[s].sel # "none"
    /\ "store" \in Commands /\ Sends
    /\ \E m \in Listing(s), deleted, unseen \in BOOLEAN :
          LET dels == IF deleted THEN imap[s].dels \cup {m} ELSE imap[s].dels \ {m}
              recs == IF unseen THEN imap[s].recs \cup {m} ELSE imap[s].recs \ {m}
          IN /\ imap' = [imap EXCEPT ![s].dels = dels, ![s].recs = recs,
                                     ![s].pc = "announce", ![s].then = "ready"]
             /\ WriteFlags({m}, imap[s].dels, imap[s].recs)
             /\ wanted' = IF deleted THEN wanted \cup {m}
                          ELSE IF m \notin Rows \/ WantedElsewhere(s, m) THEN wanted
                          ELSE wanted \ {m}
    /\ UNCHANGED <<blobs, accountVars, gen, removed, budgetVars, ordered, ledgerVars>>

\* STORE, and the \Seen of FETCH: the flags of a message in the list are changed
\* there and the whole column is written; FLAG_DELETED is as the client says, or
\* as it was in the list.
Store(s) ==
    /\ At(s, "ready") /\ imap[s].sel # "none"
    /\ "store" \in Commands /\ Sends
    /\ \E m \in Listing(s), deleted, unseen \in BOOLEAN :
          LET dels == IF deleted THEN imap[s].dels \cup {m} ELSE imap[s].dels \ {m}
              recs == IF unseen THEN imap[s].recs \cup {m} ELSE imap[s].recs \ {m}
          IN /\ imap' = [imap EXCEPT ![s].dels = dels, ![s].recs = recs,
                                     ![s].pc = "announce", ![s].then = "ready"]
             /\ WriteFlags({m}, dels, recs)
             /\ wanted' = IF deleted THEN wanted \cup {m}
                         ELSE IF m \notin Rows \/ WantedElsewhere(s, m) THEN wanted
                         ELSE wanted \ {m}
    /\ UNCHANGED <<blobs, accountVars, gen, removed, budgetVars, ordered, ledgerVars>>

\* The last statement of several commands.
Announce(s) ==
    /\ At(s, "announce")
    /\ IncGeneration
    /\ imap' = [imap EXCEPT ![s] = GoesOn(@, @.then)]
    /\ UNCHANGED <<rowVars, blobs, accountVars, removed, budgetVars, wishVars, ledgerVars>>

\* Expunge() runs in EXPUNGE and CLOSE, and with imap_autoexpunge when another
\* mailbox is selected and in LOGOUT.
Expunging == {"expunge", "close", "reselect", "logout"}

\* The position of the first message of the list with FLAG_DELETED.
FirstDeleted(r) == SelectInSeq(r.list, LAMBDA m : m \in r.dels)

ExpungeBlob(s) ==
    /\ imap[s].pc \in Expunging /\ FirstDeleted(imap[s]) # 0
    /\ blobs' = blobs \ {imap[s].list[FirstDeleted(imap[s])]}
    /\ imap' = [imap EXCEPT ![s].pc = "row", ![s].then = imap[s].pc]
    /\ UNCHANGED <<rowVars, accountVars, gen, removed, budgetVars, wishVars, ledgerVars>>

\* DELETE of the row; only if AffectedRows() is 1 its space counts as freed.  EXPUNGE
\* itself tells the client the sequence number, the others are silent.
ExpungeRow(s) ==
    LET k == FirstDeleted(imap[s])  m == imap[s].list[k] IN
    /\ At(s, "row")
    /\ DeleteRows({m})
    /\ imap' = [imap EXCEPT ![s].pc     = imap[s].then,
                            ![s].list   = RemoveAt(@, k),
                            ![s].dels   = @ \ {m},
                            ![s].recs   = @ \ {m},
                            ![s].client = IF imap[s].then = "expunge" /\ k \in DOMAIN @
                                          THEN RemoveAt(@, k) ELSE @,
                            ![s].freed  = @ \cup ({m} \cap Rows),
                            ![s].dirty  = TRUE]
    /\ UNCHANGED <<blobs, accountVars, gen, removed, budgetVars, wishVars, ledgerVars>>

\* Mutant: mailbox_generation stays.
ExpungeUnannounced(s) ==
    /\ imap[s].pc \in Expunging /\ FirstDeleted(imap[s]) = 0 /\ imap[s].dirty
    /\ imap' = [imap EXCEPT ![s].dirty = FALSE]
    /\ UNCHANGED <<rowVars, blobs, accountVars, gen, removed, budgetVars, wishVars, ledgerVars>>

ExpungeGeneration(s) ==
    /\ imap[s].pc \in Expunging /\ FirstDeleted(imap[s]) = 0 /\ imap[s].dirty
    /\ IncGeneration
    /\ imap' = [imap EXCEPT ![s].dirty = FALSE]
    /\ UNCHANGED <<rowVars, blobs, accountVars, removed, budgetVars, wishVars, ledgerVars>>

\* Nothing is selected any more.
Deselected(r) == [r EXCEPT !.sel = "none", !.list = <<>>, !.dels = {}, !.recs = {}, !.gen = 0,
                           !.client = <<>>, !.untold = FALSE, !.raced = FALSE]

\* The account is corrected, and the command goes on.
ExpungeDone(s) ==
    /\ imap[s].pc \in Expunging /\ FirstDeleted(imap[s]) = 0 /\ ~imap[s].dirty
    /\ IF imap[s].freed = {} THEN UNCHANGED accountVars ELSE Refund(Space(imap[s].freed))
    /\ LET r == [imap[s] EXCEPT !.freed = {}]
       IN imap' = [imap EXCEPT ![s] =
                    CASE At(s, "expunge")  -> Ready(r)
                      [] At(s, "close")    -> Ready(Deselected(r))
                      [] At(s, "reselect") -> [Deselected(r) EXCEPT !.pc = "open"]
                      [] At(s, "logout")   -> LoggedOut]
    /\ UNCHANGED <<rowVars, blobs, gen, removed, budgetVars, wishVars, ledgerVars>>

\* LOGOUT: the list is not refreshed.
Logout(s) ==
    /\ At(s, "ready")
    /\ imap' = [imap EXCEPT ![s] = IF AutoExpunge /\ imap[s].sel # "none"
                                   THEN [imap[s] EXCEPT !.pc = "logout"] ELSE LoggedOut]
    /\ UNCHANGED mailboxVars

-----------------------------------------------------------------------------
(***************************************************************************)
(* COPY: for each message of the set the quota is checked, the row and the *)
(* body are copied, and the account is charged.                            *)
(***************************************************************************)

Copy(s) ==
    /\ At(s, "copy")
    /\ \E f \in imap[s].dirs \ {imap[s].sel}, S \in SUBSET Listing(s) :
          imap' = [imap EXCEPT ![s].pc = "copying", ![s].arg = f, ![s].todo = S]
    /\ UNCHANGED mailboxVars

\* UserSize is compared with the limit.  (No id left: a bound.)
CopyCheck(s) ==
    /\ At(s, "copying")
    /\ IF imap[s].todo = {}
       THEN imap' = [imap EXCEPT ![s] = Ready(@)]
       ELSE IF used + size[Min(imap[s].todo)] <= SizeLimit /\ Fresh # {}
       THEN imap' = [imap EXCEPT ![s].pc = "copyrow"]
       ELSE imap' = [imap EXCEPT ![s].todo = @ \ {Min(@)}]
    /\ UNCHANGED mailboxVars

\* The row is read, if it is still there, and inserted with its flags but FLAG_SEEN.
CopyRow(s) ==
    LET m == Min(imap[s].todo) IN
    /\ At(s, "copyrow")
    /\ IF m \in Rows /\ Fresh # {}
       THEN LET new == Min(Fresh) IN
            /\ InsertRow(new, imap[s].arg, size[m], m \in flagged)
            /\ wanted' = IF m \in flagged THEN wanted \cup {new} ELSE wanted
            /\ imap' = [imap EXCEPT ![s].pc = "copyblob", ![s].new = new]
       ELSE /\ imap' = [imap EXCEPT ![s].pc = "copying", ![s].todo = @ \ {m}]
            /\ UNCHANGED <<rowVars, wanted>>
    /\ UNCHANGED <<blobs, accountVars, gen, removed, budgetVars, ordered, ledgerVars>>

\* The body is copied, if it is still there.
CopyBlob(s) ==
    /\ At(s, "copyblob")
    /\ IF Min(imap[s].todo) \in blobs
       THEN blobs' = blobs \cup {imap[s].new} /\ UNCHANGED hollow
       ELSE hollow' = hollow \cup {imap[s].new} /\ UNCHANGED blobs
    /\ imap' = [imap EXCEPT ![s].pc = "copygeneration"]
    /\ UNCHANGED <<rowVars, accountVars, gen, removed, budgetVars, wishVars,
                   unpaid, lost, overpaid, silent>>

CopyGeneration(s) ==
    /\ At(s, "copygeneration")
    /\ IncGeneration
    /\ imap' = [imap EXCEPT ![s].pc = "copycharge"]
    /\ UNCHANGED <<rowVars, blobs, accountVars, removed, budgetVars, wishVars, ledgerVars>>

CopyCharge(s) ==
    /\ At(s, "copycharge")
    /\ Charge(size[imap[s].new])
    /\ imap' = [imap EXCEPT ![s].pc = "copying", ![s].todo = @ \ {Min(@)}, ![s].new = 0]
    /\ UNCHANGED <<rowVars, blobs, gen, removed, budgetVars, wishVars, ledgerVars>>

-----------------------------------------------------------------------------
(***************************************************************************)
(* APPEND.                                                                 *)
(***************************************************************************)

\* The quota is checked.  (No id left: a bound.)
AppendCommand(s) ==
    /\ At(s, "append")
    /\ \E f \in imap[s].dirs, n \in Sizes :
          imap' = IF used + n > SizeLimit \/ Fresh = {}
                  THEN [imap EXCEPT ![s] = Ready(@)]
                  ELSE [imap EXCEPT ![s].pc = "appendrow", ![s].arg = f, ![s].octets = n]
    /\ UNCHANGED mailboxVars

AppendRow(s) ==
    /\ At(s, "appendrow")
    /\ \E new \in Fresh :
          /\ InsertRow(new, imap[s].arg, imap[s].octets, FALSE)
          /\ imap' = [imap EXCEPT ![s].pc = "appendgeneration", ![s].new = new,
                                  ![s].arg = "none", ![s].octets = 0]
    /\ UNCHANGED <<blobs, accountVars, gen, removed, budgetVars, wishVars, ledgerVars>>

AppendGeneration(s) ==
    /\ At(s, "appendgeneration")
    /\ IncGeneration
    /\ imap' = [imap EXCEPT ![s].pc = "appendblob"]
    /\ UNCHANGED <<rowVars, blobs, accountVars, removed, budgetVars, wishVars, ledgerVars>>

AppendBlob(s) ==
    /\ At(s, "appendblob")
    /\ blobs' = blobs \cup {imap[s].new}
    /\ imap' = [imap EXCEPT ![s].pc = "appendcharge"]
    /\ UNCHANGED <<rowVars, accountVars, gen, removed, budgetVars, wishVars, ledgerVars>>

AppendCharge(s) ==
    /\ At(s, "appendcharge")
    /\ Charge(size[imap[s].new])
    /\ imap' = [imap EXCEPT ![s].pc = "appendflags"]
    /\ UNCHANGED <<rowVars, blobs, gen, removed, budgetVars, wishVars, ledgerVars>>

\* FlagMessage with the flags of the command.
AppendFlags(s) ==
    LET m == imap[s].new IN
    /\ At(s, "appendflags")
    /\ \E deleted \in BOOLEAN :
          /\ WriteFlags({m}, IF deleted THEN {m} ELSE {}, {m})
          /\ wanted' = IF deleted THEN wanted \cup {m} ELSE wanted
    /\ imap' = [imap EXCEPT ![s].pc = "announce", ![s].new = 0,
                            ![s].then = IF imap[s].sel = "none" THEN "ready" ELSE "reread"]
    /\ UNCHANGED <<blobs, accountVars, gen, removed, budgetVars, ordered, ledgerVars>>

\* The list of the selected mailbox is read again, without a word to the client.
Reread(s) ==
    /\ At(s, "reread")
    /\ LET r == Refetch([imap[s] EXCEPT !.then = "ready"], imap[s].sel)
       IN imap' = [imap EXCEPT ![s] = Skip([r EXCEPT !.untold = @ \/ r.list # r.client])]
    /\ UNCHANGED mailboxVars

-----------------------------------------------------------------------------
(***************************************************************************)
(* DELETE and RENAME of a folder.                                          *)
(***************************************************************************)

\* DeleteFolder selects the folder's messages and deletes their bodies.
Delete(s) ==
    /\ At(s, "delete")
    /\ \E f \in imap[s].dirs \ {Inbox} :
          /\ blobs'   = blobs \ RowsIn(f)
          /\ ordered' = ordered \cup RowsIn(f)
          /\ imap' = [imap EXCEPT ![s].pc = "deleterows", ![s].arg = f, ![s].todo = RowsIn(f)]
    /\ UNCHANGED <<rowVars, accountVars, gen, removed, budgetVars, wanted, ledgerVars>>

\* All rows in the folder go, whichever they are by now; the space to refund
\* is that of the messages selected before.
DeleteFolderRows(s) ==
    LET now == RowsIn(imap[s].arg) IN
    /\ At(s, "deleterows")
    /\ DeleteRows(now)
    /\ ordered'  = ordered \cup now
    /\ lost'     = lost + Space(now \ imap[s].todo)
    /\ overpaid' = overpaid + Space(imap[s].todo \ now)
    /\ imap' = [imap EXCEPT ![s].pc = "deleterefund", ![s].freed = imap[s].todo, ![s].todo = {}]
    /\ UNCHANGED <<blobs, accountVars, gen, removed, budgetVars, wanted, hollow, unpaid, silent>>

DeleteRefund(s) ==
    /\ At(s, "deleterefund")
    /\ Refund(Space(imap[s].freed))
    /\ imap' = [imap EXCEPT ![s].pc = "deletefolder", ![s].freed = {}]
    /\ UNCHANGED <<rowVars, blobs, gen, removed, budgetVars, wishVars, ledgerVars>>

DeleteFolder(s) ==
    /\ At(s, "deletefolder")
    /\ removed' = removed \cup {imap[s].arg}
    /\ imap' = [imap EXCEPT ![s].pc = "announce", ![s].then = "ready", ![s].arg = "none"]
    /\ UNCHANGED <<rowVars, blobs, accountVars, gen, budgetVars, wishVars, ledgerVars>>

\* RENAME and SUBSCRIBE change a row of bm60_folders and announce it.
Rename(s) ==
    /\ At(s, "rename")
    /\ imap' = [imap EXCEPT ![s].pc = "announce", ![s].then = "ready"]
    /\ UNCHANGED mailboxVars

-----------------------------------------------------------------------------
(***************************************************************************)
(* Ends without LOGOUT.                                                    *)
(***************************************************************************)

\* A time-out, a signal or the end of input; or a ban after a failed LOGIN.
ImapDisconnect(s) ==
    /\ imap[s].pc \in {"login", "ready", "idle"}
    /\ imap' = [imap EXCEPT ![s] = LoggedOut]
    /\ UNCHANGED mailboxVars

\* A row inserted and not charged yet.
Uncharged(s) ==
    IF imap[s].pc \in {"copyblob", "copygeneration", "copycharge",
                       "appendgeneration", "appendblob", "appendcharge"}
    THEN {imap[s].new} ELSE {}

\* Rows have changed, mailbox_generation does not say so yet.
ImapUnannounced(s) ==
    imap[s].dirty \/ imap[s].pc \in {"copyblob", "copygeneration", "appendgeneration",
                                     "deleterefund", "deletefolder", "announce"}

\* A row whose body is not there, by what the process was doing.
Bodiless(s) ==
    CASE At(s, "row") -> {imap[s].list[FirstDeleted(imap[s])]}
      [] imap[s].pc \in {"copyblob", "appendgeneration", "appendblob"} -> {imap[s].new}
      [] OTHER -> {}

\* The process is killed in the middle of a command.
ImapKilled(s) ==
    /\ imap[s].pc \notin {"login", "ready", "idle", "out"} /\ crashes < MaxCrashes
    /\ crashes' = crashes + 1
    /\ imap'   = [imap EXCEPT ![s] = LoggedOut]
    /\ lost'   = lost + Space(imap[s].freed)
    /\ unpaid' = unpaid + Space(Uncharged(s))
    /\ hollow' = hollow \cup Bodiless(s)
    /\ silent' = (silent \/ ImapUnannounced(s))
    /\ UNCHANGED <<rowVars, blobs, accountVars, gen, removed, outside, wishVars, overpaid>>

ImapStep(s) ==
    \/ Begin(s) \/ Store(s)
    \/ /\ \/ Login(s) \/ Refused(s) \/ Idle(s) \/ Poll(s) \/ Refresh(s) \/ WriteBack(s)
          \/ Select(s) \/ Open(s) \/ Opened(s) \/ Status(s) \/ Announce(s)
          \/ ExpungeBlob(s) \/ ExpungeRow(s) \/ ExpungeGeneration(s) \/ ExpungeDone(s)
          \/ Copy(s) \/ CopyCheck(s) \/ CopyRow(s) \/ CopyBlob(s) \/ CopyGeneration(s)
          \/ CopyCharge(s)
          \/ AppendCommand(s) \/ AppendRow(s) \/ AppendGeneration(s) \/ AppendBlob(s)
          \/ AppendCharge(s) \/ AppendFlags(s) \/ Reread(s)
          \/ Delete(s) \/ DeleteFolderRows(s) \/ DeleteRefund(s) \/ DeleteFolder(s)
          \/ Rename(s) \/ Logout(s) \/ ImapDisconnect(s) \/ ImapKilled(s)
       /\ UNCHANGED sent

-----------------------------------------------------------------------------

ImapTypeOK ==
    /\ sent \in 0..MaxCommands
    /\ \A s \in ImapSessions : LET r == imap[s] IN
        /\ DOMAIN r = DOMAIN ImapConnected
        /\ r.sel \in Folders \cup {"none"} /\ r.arg \in Folders \cup {"none"}
        /\ r.ro \in {"unset", "yes", "no"} /\ r.dirty \in BOOLEAN /\ r.untold \in BOOLEAN /\ r.raced \in BOOLEAN
        /\ r.limit \in Limits \cup {0} /\ r.gen \in Nat /\ r.read \in Nat /\ r.octets \in Nat
        /\ r.list \in Seq(Mails) /\ r.client \in Seq(Mails)
        /\ r.dels \cup r.recs \subseteq ToSet(r.list) /\ r.backDels \subseteq r.back
        /\ r.back \cup r.todo \cup r.freed \subseteq Mails \ Fresh
        /\ r.new \in 0..MaxMails

\* Between two commands the sequence numbers of a client are those of its session:
\* EXISTS and EXPUNGE lines, computed by ReportDelta from two lists, have told it
\* every change of the list, but for the one APPEND reads anew.
ClientInSync ==
    \A s \in ImapSessions :
        imap[s].pc \in {"ready", "idle"} /\ ~imap[s].untold => imap[s].client = imap[s].list
=============================================================================
