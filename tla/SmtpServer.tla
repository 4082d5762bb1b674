----------------------------- MODULE SmtpServer -----------------------------
(***************************************************************************)
(* The SMTP server (class SMTP in smtp.cpp, smtp_auth.cpp, smtp_data.cpp,  *)
(* class Milter in milter.cpp): one process for each connection, which     *)
(* meet in the table behind the SMTP limit and in the account of the user  *)
(* who has logged in.  The queue is MsgQueue's; here a message that is     *)
(* enqueued for all its recipients is out.                                 *)
(*                                                                         *)
(* A command that is refused changes nothing, so it is left out, whatever  *)
(* the reason (policy, SPF, greylisting, size, sender address, syntax).    *)
(* Any error may be the one that exceeds smtp_error_hardlimit or bans the  *)
(* peer: see Leave.  All sessions are of one user and fall into one window *)
(* of the limit and one day.                                               *)
(***************************************************************************)
EXTENDS Integers, Sequences, FiniteSetsExt

CONSTANTS
    SmtpSessions, \* server processes
    Locals,       \* recipients with a mailbox here
    Remotes,      \* other recipients
    Limit,        \* recipients a user may send to in one window, iSMTPLimitCount
    FilterTables, \* what bms_milters may hold: for which messages, and the default action
    MaxMessages   \* bound on the messages of a session that pass the limit

ASSUME ServerAssumption ==
    /\ IsFiniteSet(SmtpSessions)
    /\ Limit \in Nat \ {0} /\ MaxMessages \in Nat /\ Locals \cap Remotes = {}
    /\ FilterTables \subseteq Seq([for : SUBSET BOOLEAN, default : {"accept", "refuse", "none"}])

VARIABLES
    sendStats, \* enable_sendstats
    dayLimit,  \* the user's group has a send_limit, and there is no enable_sendstats
    filters,   \* bms_milters
    smtp,      \* the server processes
    stats,     \* rows of bms_smtpstats or sendstats
    account,   \* today_sent, and whether today_key is today's
    out,       \* ghost: how messages came to be released
    turned,    \* ghost: a message was refused for a filter that had accepted it
    charged,   \* ghost: instances enqueued by sessions that are or may still be logged in,
               \* if there is a send_limit
    parallel,  \* ghost: a session logged in while another had done so, before the day's first save
    killed     \* ghost: a session was killed

serverVars == <<sendStats, dayLimit, filters, smtp, stats, account, out, turned, charged, parallel, killed>>
setup == <<sendStats, dayLimit, filters>>

\* A filter's turn: where the conversation is, the copy of the recipients, and
\* what it has said for good.
NoFilter == [no |-> 0, stage |-> "none", to |-> {}, said |-> "none"]

\* iState, bEhlo, bAuthenticated, bTodayKeyValid, vRecipients and the number of
\* instances enqueued; the rows the limit was checked with.  Ghosts: recipients
\* accepted for this transaction, or left by one that HELO broke off, or added by a
\* filter; refusals that were ignored.
NewConnection ==
    [pc |-> "new", state |-> "prehelo", trusted |-> FALSE, ehlo |-> FALSE, auth |-> FALSE,
     keyed |-> FALSE, rcpts |-> {}, sent |-> 0, no |-> 0, seen |-> {}, filter |-> NoFilter,
     asked |-> {}, ignored |-> {}]

ServerInit ==
    /\ filters \in FilterTables
    /\ sendStats \in BOOLEAN /\ dayLimit \in BOOLEAN /\ (dayLimit => ~sendStats)
    /\ smtp = [s \in SmtpSessions |-> NewConnection]
    /\ stats = {} /\ account = [key |-> FALSE, sent |-> 1]
    /\ out = {} /\ turned = FALSE /\ charged = 0 /\ parallel = FALSE /\ killed = FALSE

Open(s) == smtp[s].pc \notin {"new", "gone"}

\* SELECT SUM(recipients).
SumOf(rows) == SumFunction([r \in rows |-> r.n])

-----------------------------------------------------------------------------
(* Commands.                                                               *)

Connect(s) ==
    /\ smtp[s].pc = "new"
    /\ \E t \in BOOLEAN : smtp' = [smtp EXCEPT ![s].pc = "command", ![s].trusted = t]
    /\ UNCHANGED <<setup, stats, account, out, turned, charged, parallel, killed>>

\* A command that only concerns the session.
Quietly == UNCHANGED <<setup, stats, account, out, turned, charged, parallel, killed>>

\* HELO and EHLO: allowed at any time, the recipients stay.
Helo(s) ==
    /\ smtp[s].pc = "command"
    /\ \E e \in BOOLEAN :
          smtp' = [smtp EXCEPT ![s] = [@ EXCEPT !.state = "helo", !.ehlo = e]]
    /\ Quietly

\* Mutant: today_key is not looked at.
AuthAnyDay(s) ==
    /\ smtp[s].pc = "command" /\ smtp[s].ehlo /\ smtp[s].state # "mail" /\ ~smtp[s].auth
    /\ smtp' = [smtp EXCEPT ![s] = [@ EXCEPT !.auth = TRUE, !.keyed = dayLimit]]
    /\ UNCHANGED <<setup, stats, account, out, turned, charged, parallel, killed>>

\* AUTH.  today_key is only looked at for a send_limit.
Auth(s) ==
    /\ smtp[s].pc = "command" /\ smtp[s].ehlo /\ smtp[s].state # "mail" /\ ~smtp[s].auth
    /\ smtp' = [smtp EXCEPT ![s] = [@ EXCEPT !.auth = TRUE, !.keyed = (dayLimit /\ account.key)]]
    /\ parallel' = (parallel \/ (~account.key /\ \E t \in SmtpSessions \ {s} : Open(t) /\ smtp[t].auth))
    /\ UNCHANGED <<setup, stats, account, out, turned, charged, killed>>

\* MAIL.
Mail(s) ==
    /\ smtp[s].pc = "command" /\ smtp[s].state = "helo" /\ smtp[s].no < MaxMessages
    /\ smtp' = [smtp EXCEPT ![s] = [@ EXCEPT !.state = "mail"]]
    /\ Quietly

\* Utils::MaySendMail
MaySendMail(n) == n \in 1..Limit /\ SumOf(stats) + n <= Limit

\* The limit as RCPT checks it.
LimitAllowsRcpt(n) ==
    IF sendStats THEN MaySendMail(n)
    ELSE stats = {} \/ SumOf(stats) + n <= Limit

\* RCPT: relaying for trusted peers and users, within the limit for users.
Rcpt(s) ==
    /\ smtp[s].pc = "command" /\ smtp[s].state = "mail"
    /\ \E r \in Locals \cup (IF smtp[s].trusted \/ smtp[s].auth THEN Remotes ELSE {}) :
          /\ smtp[s].auth => LimitAllowsRcpt(Cardinality(smtp[s].rcpts) + 1)
          /\ smtp' = [smtp EXCEPT ![s] = [smtp[s] EXCEPT !.rcpts = @ \cup {r}, !.asked = @ \cup {r}]]
    /\ Quietly

\* Mutant: the recipients stay.
AfterRsetKeeping(r) == [r EXCEPT !.pc = "command", !.state = "helo", !.asked = {}, !.ignored = {}, !.filter = NoFilter]

\* Rset: the state is HELO or EHLO, whatever it was.
AfterRset(r) ==
    [r EXCEPT !.pc = "command", !.state = "helo", !.rcpts = {}, !.asked = {},
              !.ignored = {}, !.filter = NoFilter]

Rset(s) ==
    /\ smtp[s].pc = "command"
    /\ smtp' = [smtp EXCEPT ![s] = AfterRset(smtp[s])]
    /\ Quietly

\* DATA.
Data(s) ==
    /\ smtp[s].pc = "command" /\ smtp[s].state = "mail" /\ smtp[s].rcpts # {}
    /\ smtp' = [smtp EXCEPT ![s].pc = "data"]
    /\ Quietly

\* The loop ends: QUIT, end of input, time-out, signal, ban, or too many errors.
\* The counters are saved; one statement.
Leave(s) ==
    LET n == smtp[s].sent IN
    /\ smtp[s].pc = "command"
    /\ smtp' = [smtp EXCEPT ![s] = [NewConnection EXCEPT !.pc = "gone"]]
    /\ account' = IF ~smtp[s].auth \/ n = 0 THEN account
                  ELSE [key |-> TRUE, sent |-> IF smtp[s].keyed THEN account.sent + n ELSE n]
    /\ charged' = IF smtp[s].auth \/ ~dayLimit THEN charged ELSE charged - n
    /\ UNCHANGED <<setup, stats, out, turned, parallel, killed>>

\* The process is killed, or ends on an exception of the database.
Kill(s) ==
    /\ Open(s)
    /\ smtp' = [smtp EXCEPT ![s] = [NewConnection EXCEPT !.pc = "gone"]]
    /\ killed' = TRUE
    /\ UNCHANGED <<setup, stats, account, out, turned, charged, parallel>>

-----------------------------------------------------------------------------
(* ProcessMessage.                                                         *)

\* The message is refused.  An error or a filter that wants the connection closed
\* sets SMTP_STATE_QUIT, which Rset() undoes.
Refuse(s) == smtp' = [smtp EXCEPT ![s] = AfterRset(smtp[s])]

\* Too large, no valid From header, or too many hops.
RefuseData(s) == smtp[s].pc = "data" /\ Refuse(s) /\ Quietly

\* Mutant: the limit is not checked again.
LimitAllowsDataAlways(n) == TRUE

\* The limit as it is checked again.
LimitAllowsData(n) ==
    IF sendStats THEN MaySendMail(n)
    ELSE stats = {} \/ SumOf(stats) + n < Limit

\* The check, for a user.
CheckLimit(s) ==
    /\ smtp[s].pc = "data"
    /\ IF ~smtp[s].auth THEN smtp' = [smtp EXCEPT ![s].pc = "filter", ![s].no = @ + 1]
       ELSE IF LimitAllowsData(Cardinality(smtp[s].rcpts))
       THEN smtp' = [smtp EXCEPT ![s].pc = "count", ![s].no = @ + 1, ![s].seen = stats]
       ELSE Refuse(s)
    /\ Quietly

\* AddSendStat or the INSERT.  Ghosts: whether the rows had changed since the
\* check, and whether there were none, so that nothing was checked.
Count(s) ==
    /\ smtp[s].pc = "count"
    /\ stats' = stats \cup {[id |-> <<s, smtp[s].no>>, n |-> Cardinality(smtp[s].rcpts),
                             late |-> smtp[s].seen # stats, free |-> ~sendStats /\ smtp[s].seen = {}]}
    /\ smtp' = [smtp EXCEPT ![s].pc = "filter", ![s].seen = {}]
    /\ UNCHANGED <<setup, account, out, turned, charged, parallel, killed>>

-----------------------------------------------------------------------------
(* Milters, in the order of bms_milters.                                   *)

\* The next row: it is passed over, or the filter gets a copy of the message.
NextFilter(s) ==
    LET i == smtp[s].filter.no + 1 IN
    /\ smtp[s].pc = "filter" /\ smtp[s].filter.stage = "none" /\ i <= Len(filters)
    /\ smtp' = [smtp EXCEPT ![s].filter =
          IF smtp[s].auth \in filters[i].for
          THEN [no |-> i, stage |-> "before", to |-> smtp[s].rcpts, said |-> "none"]
          ELSE [smtp[s].filter EXCEPT !.no = i]]
    /\ Quietly

\* process() returns verdict; the filter itself has said said, or nothing.  An
\* unknown verdict lets the message pass as it was.
Verdict(s, verdict, said) ==
    LET f == smtp[s].filter
        owed == IF said = "none" THEN filters[f.no].default ELSE said
        on == [smtp[s] EXCEPT !.filter = [NoFilter EXCEPT !.no = f.no],
                              !.ignored = @ \cup ({owed} \cap {"refuse"})]
    IN  \/ /\ verdict = "accept"
           /\ smtp' = [smtp EXCEPT ![s] = [on EXCEPT !.rcpts = f.to]]
           /\ UNCHANGED turned
        \/ /\ verdict = "none"
           /\ smtp' = [smtp EXCEPT ![s] = on] /\ UNCHANGED turned
        \/ /\ verdict = "refuse" /\ Refuse(s)
           /\ turned' = (turned \/ owed = "accept")

\* The filter accepts or refuses; until the end of the body that ends the
\* conversation, and after it, too.
FilterDecides(s) ==
    /\ smtp[s].pc = "filter" /\ smtp[s].filter.stage \in {"before", "end", "more"}
    /\ \E v \in {"accept", "refuse"} : Verdict(s, v, v)
    /\ UNCHANGED <<setup, stats, account, out, charged, parallel, killed>>

\* CONTINUE.  As the first answer to the end of the body it is read, and another
\* one waited for.
FilterContinues(s) ==
    /\ smtp[s].pc = "filter"
    /\ \/ /\ smtp[s].filter.stage = "before"
          /\ smtp' = [smtp EXCEPT ![s].filter.stage = "end"] /\ UNCHANGED turned
       \/ /\ smtp[s].filter.stage = "end"
          /\ smtp' = [smtp EXCEPT ![s].filter.stage = "silent", ![s].filter.said = "continue"]
          /\ UNCHANGED turned
       \/ smtp[s].filter.stage = "more" /\ Verdict(s, "accept", "continue")
    /\ UNCHANGED <<setup, stats, account, out, charged, parallel, killed>>

\* ADDRCPT, DELRCPT or a change of something else.
FilterChanges(s) ==
    /\ smtp[s].pc = "filter" /\ smtp[s].filter.stage \in {"end", "more"}
    /\ \E r \in Locals \cup Remotes : \E to \in {smtp[s].filter.to \cup {r}, smtp[s].filter.to \ {r},
                                                  smtp[s].filter.to} :
          smtp' = [smtp EXCEPT ![s].filter.stage = "more", ![s].filter.to = to,
                               ![s].asked = @ \cup (to \ smtp[s].filter.to)]
    /\ Quietly

\* Mutant: the last answer stands.
FilterFailsOpen(s) ==
    /\ smtp[s].pc = "filter" /\ smtp[s].filter.stage # "none"
    /\ Verdict(s, "accept", smtp[s].filter.said)
    /\ UNCHANGED <<setup, stats, account, out, charged, parallel, killed>>

\* An exception: the connection fails or times out.  The default action decides;
\* if it accepts, what the filter had changed so far is taken.
FilterFails(s) ==
    /\ smtp[s].pc = "filter" /\ smtp[s].filter.stage # "none"
    /\ Verdict(s, filters[smtp[s].filter.no].default, smtp[s].filter.said)
    /\ UNCHANGED <<setup, stats, account, out, charged, parallel, killed>>

\* EnqueueMessage for each recipient and ReleaseMessages; or it fails after some:
\* these and the row in stats are deleted, but they stay counted.
Enqueue(s) ==
    LET n == Cardinality(smtp[s].rcpts) IN
    /\ smtp[s].pc = "filter" /\ smtp[s].filter.stage = "none" /\ smtp[s].filter.no = Len(filters)
    /\ \/ /\ smtp' = [smtp EXCEPT ![s] = [AfterRset(smtp[s]) EXCEPT !.sent = @ + n]]
          /\ charged' = IF dayLimit THEN charged + n ELSE charged
          /\ out' = out \cup {[strange |-> smtp[s].rcpts \ smtp[s].asked, ignored |-> smtp[s].ignored]}
          /\ UNCHANGED stats
       \/ \E k \in 0..(n - 1) :
          /\ smtp' = [smtp EXCEPT ![s] = [AfterRset(smtp[s]) EXCEPT !.sent = @ + k]]
          /\ charged' = IF dayLimit THEN charged + k ELSE charged
          /\ stats' = {r \in stats : r.id # <<s, smtp[s].no>>}
          /\ UNCHANGED out
    /\ UNCHANGED <<setup, account, turned, parallel, killed>>

Serve(s) ==
    \/ Connect(s) \/ Helo(s) \/ Auth(s) \/ Mail(s) \/ Rcpt(s) \/ Rset(s) \/ Data(s) \/ Leave(s) \/ Kill(s)
    \/ RefuseData(s) \/ CheckLimit(s) \/ Count(s) \/ NextFilter(s) \/ FilterDecides(s)
    \/ FilterContinues(s) \/ FilterChanges(s) \/ FilterFails(s) \/ Enqueue(s)

ServerNext == \E s \in SmtpSessions : Serve(s)

ServerSpec == ServerInit /\ [][ServerNext]_serverVars

-----------------------------------------------------------------------------
\* smtp_data.cpp:95: the limit cannot "be circumvented by creating many parallel
\* sessions", except by messages whose check was out of date when they were counted,
\* and by a first one, which is not checked without enable_sendstats.
LimitKept ==
    SumOf(stats) <= (IF sendStats THEN Limit ELSE Limit - 1) + SumOf({r \in stats : r.late \/ r.free})

\* today_sent is what the user's sessions have enqueued, once those that go on have
\* saved it; unless two of them were logged in before the day's first save, or one
\* was killed.
TodayCounts ==
    dayLimit /\ ~parallel /\ ~killed =>
        (IF account.key THEN account.sent ELSE 0) + SumFunction([s \in SmtpSessions |-> smtp[s].sent]) = charged

\* A message only goes to recipients that were accepted after its MAIL, or added
\* by a filter; or before a HELO that broke off a transaction.
SentAsAsked == \A m \in out : m.strange = {}

\* A message goes out only if each filter for it let it pass, by its default if it
\* failed; and none is refused for a filter that accepted it, or failed and would.
\* (One that says CONTINUE at the end without any change has not accepted it.)
FiltersObeyed == ~turned /\ \A m \in out : m.ignored = {}
=============================================================================
