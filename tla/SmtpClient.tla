----------------------------- MODULE SmtpClient -----------------------------
(***************************************************************************)
(* Delivery by SMTP (MSGQueue::DeliverOutbound in msgqueue_outbound.cpp,   *)
(* SMTPSession in smtpsession.cpp, SMTPSessionPool in smtpsessionpool.cpp):*)
(* the workers, the pool of sessions for one recipient domain, and the     *)
(* servers at the other end.                                               *)
(*                                                                         *)
(* A command and the reading of an answer are one step, as a session       *)
(* belongs to one worker.  The server answers a command at once; a worker  *)
(* that gives up waiting leaves the answer on its way, and whoever uses    *)
(* the session next reads it first.  The text of a message is sent whole.  *)
(***************************************************************************)
EXTENDS Integers, Sequences, FiniteSets

CONSTANTS
    Senders,      \* threads of the pool that deliver by SMTP
    Mails,        \* messages to recipients in one domain
    Sessions,     \* SMTPSession objects (a bound)
    MXServers,    \* number of MX servers of the domain
    MaxTimeouts,  \* bound on reads that time out although the answer is on its way
    MaxAttempts,  \* bound on the attempts made
    Refusals,     \* classes of answers a server may refuse a command with
    NoSession     \* NULL

ASSUME SmtpAssumption ==
    /\ IsFiniteSet(Sessions) /\ IsFiniteSet(Mails) /\ NoSession \notin Sessions
    /\ MXServers \in Nat \ {0} /\ {MaxTimeouts, MaxAttempts} \subseteq Nat
    /\ Refusals \subseteq {"4xx", "5xx"}

VARIABLES
    mail,     \* status of each message: "queued", "working", "success" or "failed"
    attempts, \* attempts made
    sender,   \* where each worker is in DeliverOutbound, with which message and session,
              \* and the number of the MX server it tries
    sess,     \* the SMTPSession objects, each with the server at its other end
    pool,     \* the sessions in the pool, oldest first
    poolLock, \* NULL, or the session cleanUp is deleting with the lock held
    taken,    \* ghost: texts accepted by a server, for whom, and whether nothing was added
    lag,      \* ghost: most answers on their way when a session was put back
    timeouts, \* reads that timed out so far
    misread   \* ghost: messages that failed on an answer to another one

smtpVars == <<mail, attempts, sender, sess, pool, poolLock, taken, lag, timeouts, misread>>
smtpGhosts == <<taken, lag, timeouts, misread>>

\* No connection.  mode is the last command of a transaction the server accepted;
\* to is for whom the transaction is; pure says that only lines of the message
\* were taken for its text; answers are on their way.
NoLink == [open |-> FALSE, mode |-> "idle", to |-> {}, pure |-> TRUE, answers |-> <<>>]

\* sessionActive, isDirty, sock.  A session in the pool may reach the age of
\* SMTP_SESSION_HOLDTIME at any time, so lastUse is left out.
NewSession == [active |-> FALSE, dirty |-> TRUE, link |-> NoLink]

Free == [at |-> "free", mail |-> "none", sess |-> NoSession, mx |-> 1]

SmtpInit ==
    /\ mail = [m \in Mails |-> "queued"] /\ attempts = 0
    /\ sender = [w \in Senders |-> Free]
    /\ sess = [s \in Sessions |-> NewSession]
    /\ pool = <<>> /\ poolLock = NoSession
    /\ taken = {} /\ lag = 0 /\ timeouts = 0 /\ misread = {}

Pooled == {pool[i] : i \in DOMAIN pool}

\* The objects that exist.
Live == Pooled \cup {sender[w].sess : w \in Senders} \cup {poolLock}

-----------------------------------------------------------------------------
(* The server.                                                             *)

\* A command in its place.
InOrder(mode, command) ==
    \/ command = "rset"
    \/ <<mode, command>> \in {<<"idle", "mail">>, <<"mail", "rcpt">>, <<"rcpt", "rcpt">>,
                              <<"rcpt", "data">>, <<"data", "dot">>}

Answered(l, code, m) == [l EXCEPT !.answers = Append(@, [code |-> code, about |-> m])]

Ended(l) == [l EXCEPT !.mode = "idle", !.to = {}, !.pure = TRUE]

Accepted(l, command, m) ==
    CASE command \in {"rset", "dot"} -> Answered(Ended(l), "250", m)
      [] command = "mail" -> Answered([l EXCEPT !.mode = "mail"], "250", m)
      [] command = "rcpt" -> Answered([l EXCEPT !.mode = "rcpt", !.to = @ \cup {m}], "250", m)
      [] command = "data" -> Answered([l EXCEPT !.mode = "data"], "354", m)

Refused(l, command, code, m) == Answered(IF command = "dot" THEN Ended(l) ELSE l, code, m)

\* What an open connection's server does with a command: it answers, or takes it
\* for a line of text; or the command never arrives.  RSET is never refused.
Served(l, command, m) ==
    {NoLink} \cup
    (CASE l.mode = "data" /\ command # "dot" -> {[l EXCEPT !.pure = FALSE]}
       [] l.mode # "data" /\ ~InOrder(l.mode, command) -> {Answered(l, "5xx", m)}
       [] OTHER -> {Accepted(l, command, m)}
                   \cup {Refused(l, command, c, m) : c \in IF command = "rset" THEN {} ELSE Refusals})

\* The connection goes on, is closed after its last answer, or is lost with them.
Kept(l) == {l, [NoLink EXCEPT !.answers = l.answers], NoLink}

-----------------------------------------------------------------------------
(* The session pool.                                                       *)

\* getSMTPSession: the oldest pooled session, or a new one.
GetSession(w) ==
    /\ sender[w].at = "get" /\ poolLock = NoSession
    /\ pool # <<>> \/ Sessions \ Live # {}
    /\ sender' = [sender EXCEPT ![w].at = "begin",
                                ![w].sess = IF pool # <<>> THEN Head(pool)
                                            ELSE CHOOSE s \in Sessions \ Live : TRUE]
    /\ pool' = IF pool = <<>> THEN pool ELSE Tail(pool)
    /\ UNCHANGED <<mail, attempts, sess, poolLock, smtpGhosts>>

\* putBackSMTPSession; DeliverOutbound is left.
PutBack(w) ==
    LET behind == Len(sess[sender[w].sess].link.answers) IN
    /\ sender[w].at = "putBack" /\ poolLock = NoSession
    /\ pool' = Append(pool, sender[w].sess)
    /\ lag' = IF behind > lag THEN behind ELSE lag
    /\ sender' = [sender EXCEPT ![w] = Free]
    /\ UNCHANGED <<mail, attempts, sess, poolLock, taken, timeouts, misread>>

\* Mutant: the session stays in the list.
CleanUpNoErase ==
    /\ poolLock = NoSession
    /\ poolLock' \in Pooled
    /\ UNCHANGED <<mail, attempts, sender, sess, pool, smtpGhosts>>

\* cleanUp takes an old session out of the list and deletes it, waiting for the
\* answer to its QUIT with the lock held ...
CleanUp ==
    /\ poolLock = NoSession
    /\ \E i \in DOMAIN pool :
          /\ poolLock' = pool[i]
          /\ pool' = SubSeq(pool, 1, i - 1) \o SubSeq(pool, i + 1, Len(pool))
    /\ UNCHANGED <<mail, attempts, sender, sess, smtpGhosts>>

\* ... which comes or times out.
CleanedUp ==
    /\ poolLock # NoSession
    /\ sess' = [sess EXCEPT ![poolLock] = NewSession]
    /\ poolLock' = NoSession
    /\ UNCHANGED <<mail, attempts, sender, pool, smtpGhosts>>

-----------------------------------------------------------------------------
(* A worker in DeliverOutbound.                                            *)

\* A message is dispatched; its MX servers are tried from the first on.
StartMail(w) ==
    /\ sender[w].at = "free" /\ attempts < MaxAttempts
    /\ attempts' = attempts + 1
    /\ \E m \in Mails :
          /\ mail[m] = "queued"
          /\ mail' = [mail EXCEPT ![m] = "working"]
          /\ sender' = [sender EXCEPT ![w] = [Free EXCEPT !.at = "get", !.mail = m]]
    /\ UNCHANGED <<sess, pool, poolLock, smtpGhosts>>

\* How an attempt ends.  "queued" is a temporary error.
Settle(w, status) == mail' = [mail EXCEPT ![sender[w].mail] = status]

GoOn(w, step) == sender' = [sender EXCEPT ![w].at = step]

\* delete sess, which says QUIT and waits for the answer.
Delete(w) == sess' = [sess EXCEPT ![sender[w].sess] = NewSession]

\* beginSession: nothing to do for an active session; else connect and greet.
BeginSession(w) ==
    LET s == sender[w].sess IN
    /\ sender[w].at = "begin"
    /\ sess' = IF sess[s].active THEN sess
               ELSE [sess EXCEPT ![s] = [@ EXCEPT !.active = TRUE, !.dirty = FALSE, !.link.open = TRUE]]
    /\ GoOn(w, "rset")
    /\ UNCHANGED <<mail, attempts, pool, poolLock, smtpGhosts>>

\* It fails: for good if the server says so; else the next server is tried,
\* unless there is none or the daemon is to quit.
BeginFails(w) ==
    /\ sender[w].at = "begin" /\ ~sess[sender[w].sess].active
    /\ Delete(w)
    /\ \/ /\ sender[w].mx < MXServers
          /\ sender' = [sender EXCEPT ![w].at = "get", ![w].sess = NoSession, ![w].mx = @ + 1]
          /\ UNCHANGED mail
       \/ /\ Settle(w, "queued") \/ ("5xx" \in Refusals /\ Settle(w, "failed"))
          /\ sender' = [sender EXCEPT ![w] = Free]
    /\ UNCHANGED <<attempts, pool, poolLock, smtpGhosts>>

\* The queue file cannot be opened: the session goes back as it is.
OpenFails(w) ==
    /\ sender[w].at = "rset"
    /\ Settle(w, "queued") /\ GoOn(w, "putBack")
    /\ UNCHANGED <<attempts, sess, pool, poolLock, smtpGhosts>>

\* What reading an answer gives: the first one, or none; late if it is on its way.
Reads(l) ==
    LET late == [code |-> "none", about |-> "nobody", left |-> l.answers, late |-> 1]
    IN  IF l.answers = <<>> THEN {[late EXCEPT !.late = 0]}
        ELSE {late, [code |-> Head(l.answers).code, about |-> Head(l.answers).about,
                     left |-> Tail(l.answers), late |-> 0]}

\* What the session is after command and the answer r read on connection l.
After(s, command, l, r, ok) ==
    [sess[s] EXCEPT !.link = [l EXCEPT !.answers = r.left],
                    !.dirty = ~(command = "rset" /\ r.code = ok)]

\* Mutant: rset() uses throwError as well.
FinalCodesForAll(command) == {"5xx"}

\* throwError: what ends an attempt for good; rset() does not use it.
FinalCodes(command) == IF command = "rset" THEN {} ELSE {"5xx"}

\* command is sent and an answer read.  The answer ok leads on to next; a final
\* one costs the session; after any other the session goes back into the pool.
Command(w, command, ok, next) ==
    LET s == sender[w].sess
        m == sender[w].mail
        final(r) == r.code \in FinalCodes(command)
    IN  /\ sender[w].at = command
        /\ \E served \in IF sess[s].link.open THEN Served(sess[s].link, command, m) ELSE {sess[s].link} :
           \E l \in IF served.open THEN Kept(served) ELSE {served} : \E r \in Reads(l) :
              /\ timeouts' = timeouts + r.late /\ timeouts' <= MaxTimeouts
              /\ taken' = IF command = "dot" /\ sess[s].link.mode = "data"
                             /\ served = Accepted(sess[s].link, "dot", m)
                          THEN taken \cup {[to |-> t, text |-> m, pure |-> sess[s].link.pure] : t \in sess[s].link.to}
                          ELSE taken
              /\ IF final(r)
                 THEN /\ Delete(w) /\ Settle(w, "failed")
                      /\ sender' = [sender EXCEPT ![w] = Free]
                      /\ misread' = IF r.about = m THEN misread ELSE misread \cup {m}
                 ELSE /\ sess' = [sess EXCEPT ![s] = After(s, command, l, r, ok)]
                      /\ GoOn(w, IF r.code = ok THEN next ELSE "putBack")
                      /\ CASE r.code # ok -> Settle(w, "queued")
                           [] r.code = ok /\ command = "dot" -> Settle(w, "success")
                           [] OTHER -> UNCHANGED mail
                      /\ UNCHANGED misread
    /\ UNCHANGED <<attempts, pool, poolLock, lag>>

\* rset() does nothing unless the session is dirty.
Rset(w) ==
    /\ sender[w].at = "rset"
    /\ IF sess[sender[w].sess].dirty THEN Command(w, "rset", "250", "mail")
       ELSE GoOn(w, "mail") /\ UNCHANGED <<mail, attempts, sess, pool, poolLock, smtpGhosts>>

MailFrom(w) == Command(w, "mail", "250", "rcpt")
RcptTo(w) == Command(w, "rcpt", "250", "data")
Data(w) == Command(w, "data", "354", "dot")

\* Mutant: no answer is as good as a 250.
EndOfDataUnanswered(w) == Command(w, "dot", "250", "putBack") \/ Command(w, "dot", "none", "putBack")

\* The text and the dot.
EndOfData(w) == Command(w, "dot", "250", "putBack")

\* Writing times out: the exception is not a DeliveryException, nobody catches it,
\* and the process terminates.
WriteTimesOut(w) ==
    /\ sender[w].at \in {"rset", "mail", "rcpt", "data", "dot"}
    /\ sess[sender[w].sess].link.open
    /\ sender' = [x \in Senders |-> [Free EXCEPT !.at = "gone"]]
    /\ sess' = [s \in Sessions |-> NewSession]
    /\ pool' = <<>> /\ poolLock' = NoSession
    /\ mail' = [m \in Mails |-> IF mail[m] = "working" THEN "queued" ELSE mail[m]]
    /\ UNCHANGED <<attempts, smtpGhosts>>

SmtpStep(w) ==
    \/ GetSession(w) \/ PutBack(w) \/ BeginSession(w) \/ BeginFails(w) \/ OpenFails(w)
    \/ Rset(w) \/ MailFrom(w) \/ RcptTo(w) \/ Data(w) \/ EndOfData(w)

SmtpNext ==
    \/ \E w \in Senders : StartMail(w) \/ SmtpStep(w) \/ WriteTimesOut(w)
    \/ CleanUp \/ CleanedUp

-----------------------------------------------------------------------------
\* A session has one owner at a time: one worker, the pool, or cleanUp.
OwnedOnce ==
    /\ \A v, w \in Senders : v # w /\ sender[v].sess # NoSession => sender[v].sess # sender[w].sess
    /\ \A w \in Senders : sender[w].sess \notin Pooled \cup ({poolLock} \ {NoSession})
    /\ poolLock \notin Pooled
    /\ Len(pool) = Cardinality(Pooled)

\* A message is reported delivered only if a server accepted its text for its
\* recipient, and no recipient gets a text that is not his, or with something
\* added; unless four answers were on their way at once.
SuccessIsTaken ==
    lag < 4 => /\ \A m \in Mails : mail[m] = "success" => \E t \in taken : t.to = m /\ t.text = m
               /\ \A t \in taken : t.to = t.text /\ t.pure

\* A message fails for good only on an answer to a command of its own, unless
\* two answers were on their way at once.
FatalIsOwn == lag < 2 => misread = {}
=============================================================================
