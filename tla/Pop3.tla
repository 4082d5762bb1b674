-------------------------------- MODULE Pop3 --------------------------------
(***************************************************************************)
(* POP3 server processes (pop3/pop3.cpp) on one user's mailbox.            *)
(*                                                                         *)
(* A command is one step, but for QUIT, whose statements are steps of      *)
(* their own.  A session's list is the one of its PASS; nothing it does    *)
(* reaches the mailbox before QUIT.                                        *)
(***************************************************************************)
EXTENDS Mailbox

CONSTANTS
    PopSessions,  \* POP3 server processes
    PopFolders,   \* folders pop3_folders names
    MaxTries,     \* failed logins that end a session
    MaxMarks      \* bound on DELE commands of a session

ASSUME Pop3Assumption ==
    /\ IsFiniteSet(PopSessions) /\ PopFolders \subseteq Folders
    /\ MaxTries \in Nat \ {0} /\ MaxMarks \in Nat

\* state: iState, and the steps of Quit.  user: iUserID.  tries: iBadTries.
\* msgs: vMessages.  dele: positions with bDele set.  count: iDele.  drop:
\* iDropSize.  octets: iDeleteSize.  pos: the loop variable of Quit.  freed: the
\* messages freedSpace counts.  marks: DELE commands so far.
VARIABLE pop

PopConnected == [state |-> "authorization", user |-> "none", tries |-> 0,
           msgs |-> <<>>, dele |-> {}, count |-> 0, drop |-> 0, octets |-> 0,
           pos |-> 1, freed |-> {}, marks |-> 0]

\* A process that has ended keeps nothing.
PopEnded == [PopConnected EXCEPT !.state = "closed"]

PopInit == pop = [p \in PopSessions |-> PopConnected]

-----------------------------------------------------------------------------
(***************************************************************************)
(* Logging in.                                                             *)
(***************************************************************************)

\* USER with a name b1gMail knows, or with one it does not.
User(p) ==
    /\ pop[p].state = "authorization"
    /\ \E u \in {"valid", "unknown"} : pop' = [pop EXCEPT ![p].user = u]
    /\ UNCHANGED mailboxVars

\* USER with an unknown name and altpop3 set: the other server takes over, and
\* when it is done so is the session.
Redirect(p) ==
    /\ pop[p].state = "authorization"
    /\ pop' = [pop EXCEPT ![p] = PopEnded]
    /\ UNCHANGED mailboxVars

\* SELECT ... WHERE folder IN (...) ORDER BY id ASC
DropList == InOrder(UNION {RowsIn(f) : f \in PopFolders})

\* PASS with the right password, at a time a login is allowed.  The name and the
\* failed tries are not used again.
PassOk(p) ==
    /\ pop[p].state = "authorization" /\ pop[p].user = "valid"
    /\ pop' = [pop EXCEPT ![p] = [PopConnected EXCEPT !.state = "transaction",
                                                      !.msgs  = DropList,
                                                      !.drop  = Space(ToSet(DropList))]]
    /\ UNCHANGED mailboxVars

\* PASS refused: wrong password, unknown user, too early, no web login.  The
\* session ends with the last try, or when Failban bans the peer.
PassFails(p) ==
    /\ pop[p].state = "authorization" /\ pop[p].user # "none"
    /\ \/ pop' = [pop EXCEPT ![p] = PopEnded]
       \/ pop[p].tries + 1 < MaxTries /\ pop' = [pop EXCEPT ![p].tries = @ + 1]
    /\ UNCHANGED mailboxVars

-----------------------------------------------------------------------------
(***************************************************************************)
(* The session's list.                                                     *)
(***************************************************************************)

ValidMsg(p, n) == n \in DOMAIN pop[p].msgs /\ n \notin pop[p].dele

\* DELE
Dele(p) ==
    /\ pop[p].state = "transaction" /\ pop[p].marks < MaxMarks
    /\ \E n \in DOMAIN pop[p].msgs :
          /\ ValidMsg(p, n)
          /\ pop' = [pop EXCEPT ![p].dele   = @ \cup {n},
                                ![p].count  = @ + 1,
                                ![p].octets = @ + size[pop[p].msgs[n]],
                                ![p].marks  = @ + 1]
    /\ UNCHANGED mailboxVars

\* RSET
Rset(p) ==
    /\ pop[p].state = "transaction"
    /\ pop' = [pop EXCEPT ![p].dele = {}, ![p].count = 0, ![p].octets = 0]
    /\ UNCHANGED mailboxVars

\* What STAT, LIST and UIDL report: a number of messages and of octets.
StatCount(p) == Len(pop[p].msgs) - pop[p].count
StatSize(p)  == pop[p].drop - pop[p].octets

\* What LIST and UIDL list one by one.
Listed(p) == {pop[p].msgs[n] : n \in {i \in DOMAIN pop[p].msgs : ValidMsg(p, i)}}

-----------------------------------------------------------------------------
(***************************************************************************)
(* QUIT.                                                                   *)
(***************************************************************************)

Marked(p) == {pop[p].msgs[n] : n \in pop[p].dele}

Quit(p) ==
    /\ \/ /\ pop[p].state = "authorization"
          /\ pop' = [pop EXCEPT ![p] = PopEnded]
          /\ UNCHANGED ordered
       \/ /\ pop[p].state = "transaction"
          /\ pop' = [pop EXCEPT ![p].state = "quit"]
          /\ ordered' = ordered \cup Marked(p)
    /\ UNCHANGED <<rowVars, blobs, accountVars, gen, removed, budgetVars, wanted, ledgerVars>>

\* Mutant: the body of another message goes.
QuitBlobOfOther(p) ==
    /\ pop[p].state = "quit"
    /\ \E n \in pop[p].dele :
          /\ n >= pop[p].pos /\ \A i \in pop[p].dele : i >= pop[p].pos => n <= i
          /\ pop' = [pop EXCEPT ![p].state = "row", ![p].pos = n]
          /\ blobs' = blobs \ {pop[p].msgs[pop[p].pos]}
    /\ UNCHANGED <<rowVars, accountVars, gen, removed, budgetVars, wishVars, ledgerVars>>

\* DeleteBlob of the next message with bDele.
QuitBlob(p) ==
    /\ pop[p].state = "quit"
    /\ \E n \in pop[p].dele :
          /\ n >= pop[p].pos /\ \A i \in pop[p].dele : i >= pop[p].pos => n <= i
          /\ pop' = [pop EXCEPT ![p].state = "row", ![p].pos = n]
          /\ blobs' = blobs \ {pop[p].msgs[n]}
    /\ UNCHANGED <<rowVars, accountVars, gen, removed, budgetVars, wishVars, ledgerVars>>

\* Mutant: AffectedRows() is not asked.
QuitRowCountsAll(p) ==
    LET m == pop[p].msgs[pop[p].pos] IN
    /\ pop[p].state = "row"
    /\ DeleteRows({m})
    /\ pop' = [pop EXCEPT ![p].state = "quit", ![p].pos = @ + 1, ![p].freed = @ \cup {m}]
    /\ UNCHANGED <<blobs, accountVars, gen, removed, budgetVars, wishVars, ledgerVars>>

\* DELETE of its row; only if AffectedRows() is 1 its space counts as freed.
QuitRow(p) ==
    LET m == pop[p].msgs[pop[p].pos] IN
    /\ pop[p].state = "row"
    /\ DeleteRows({m})
    /\ pop' = [pop EXCEPT ![p].state = "quit", ![p].pos = @ + 1,
                          ![p].freed = @ \cup ({m} \cap Rows)]
    /\ UNCHANGED <<blobs, accountVars, gen, removed, budgetVars, wishVars, ledgerVars>>

\* The account is corrected by what was freed, if anything was.
QuitRefund(p) ==
    /\ pop[p].state = "quit" /\ \A n \in pop[p].dele : n < pop[p].pos
    /\ IF pop[p].freed = {}
       THEN pop' = [pop EXCEPT ![p] = PopEnded] /\ UNCHANGED accountVars
       ELSE /\ pop' = [pop EXCEPT ![p] = [PopEnded EXCEPT !.state = "generation"]]
            /\ Refund(Space(pop[p].freed))
    /\ UNCHANGED <<rowVars, blobs, gen, removed, budgetVars, wishVars, ledgerVars>>

QuitGeneration(p) ==
    /\ pop[p].state = "generation" /\ pop' = [pop EXCEPT ![p] = PopEnded]
    /\ IncGeneration
    /\ UNCHANGED <<rowVars, blobs, accountVars, removed, budgetVars, wishVars, ledgerVars>>

-----------------------------------------------------------------------------
(***************************************************************************)
(* Ends without QUIT.                                                      *)
(***************************************************************************)

\* A time-out, a signal or the end of input: fgets returns NULL.
PopDisconnect(p) ==
    /\ pop[p].state \in {"authorization", "transaction"}
    /\ pop' = [pop EXCEPT ![p] = PopEnded]
    /\ UNCHANGED mailboxVars

\* Rows are deleted, mailbox_generation does not say so yet.
PopUnannounced(p) == pop[p].freed # {} \/ pop[p].state = "generation"

\* The process is killed in the middle of QUIT.
PopKilled(p) ==
    /\ pop[p].state \in {"quit", "row", "generation"} /\ crashes < MaxCrashes
    /\ crashes' = crashes + 1
    /\ pop'    = [pop EXCEPT ![p] = PopEnded]
    /\ lost'   = lost + Space(pop[p].freed)
    /\ hollow' = hollow \cup (IF pop[p].state = "row" THEN {pop[p].msgs[pop[p].pos]} ELSE {})
    /\ silent' = (silent \/ PopUnannounced(p))
    /\ UNCHANGED <<rowVars, blobs, accountVars, gen, removed, outside, wishVars,
                   unpaid, overpaid>>

PopStep(p) ==
    \/ User(p) \/ Redirect(p) \/ PassOk(p) \/ PassFails(p)
    \/ Dele(p) \/ Rset(p) \/ Quit(p)
    \/ QuitBlob(p) \/ QuitRow(p) \/ QuitRefund(p) \/ QuitGeneration(p)
    \/ PopDisconnect(p) \/ PopKilled(p)

-----------------------------------------------------------------------------

PopTypeOK ==
    \A p \in PopSessions : LET s == pop[p] IN
        /\ s.state \in {"authorization", "transaction", "quit", "row", "generation", "closed"}
        /\ s.user \in {"none", "valid", "unknown"} /\ s.tries \in 0..(MaxTries - 1)
        /\ s.msgs \in Seq(Mails) /\ s.dele \subseteq DOMAIN s.msgs /\ s.freed \subseteq Mails
        /\ s.count \in Nat /\ s.drop \in Nat /\ s.octets \in Nat
        /\ s.pos \in Nat /\ s.marks \in 0..MaxMarks

=============================================================================
