-------------------------- MODULE SmtpServerProofs --------------------------
(***************************************************************************)
(* What holds of the SMTP server in every behaviour of SmtpServer, for any *)
(* number of sessions and recipients and any table of filters.             *)
(*                                                                         *)
(* The recipients of a message go through a session's list, a filter's     *)
(* copy of it and back, while the session may begin again at several       *)
(* places; Asked says that neither of them ever has a recipient who was    *)
(* not asked for.  Connections says that no refusal of a filter was        *)
(* ignored, and that a filter whose turn goes on has said CONTINUE or      *)
(* nothing for good.                                                       *)
(*                                                                         *)
(* For the limit, LimitInv: the rows that were checked in time keep to it  *)
(* by themselves, and a session that is about to insert a row holds what   *)
(* it was let through with.  For the day's counter, DayInv: who is logged  *)
(* in has found the day's key there, or is the only one.                   *)
(***************************************************************************)
EXTENDS SmtpServer, FoldTheorems, FiniteSetTheorems, TLAPS

Recipients == Locals \cup Remotes

Rows == [id : SmtpSessions \X Nat, n : Nat, late : BOOLEAN, free : BOOLEAN]

Turns == [no : Nat, stage : {"none", "before", "end", "more", "silent"}, to : SUBSET Recipients,
          said : {"none", "continue"}]

Connections ==
    [pc : {"new", "command", "data", "count", "filter", "gone"}, state : {"prehelo", "helo", "mail"},
     trusted : BOOLEAN, ehlo : BOOLEAN, auth : BOOLEAN, keyed : BOOLEAN, rcpts : SUBSET Recipients,
     sent : Nat, no : Nat, seen : SUBSET Rows, filter : Turns, asked : SUBSET Recipients,
     ignored : {{}}]

\* The lists are finite, and hold nobody who was not asked for.
Asked(r) ==
    /\ IsFiniteSet(r.rcpts) /\ r.rcpts \subseteq r.asked
    /\ IsFiniteSet(r.filter.to) /\ r.filter.to \subseteq r.asked

SessionOK(r) == r \in Connections /\ Asked(r)

ServerInv ==
    /\ sendStats \in BOOLEAN /\ dayLimit \in BOOLEAN
    /\ account \in [key : BOOLEAN, sent : Int]
    /\ stats \subseteq Rows
    /\ smtp \in [SmtpSessions -> Connections]
    /\ \A s \in SmtpSessions : Asked(smtp[s])
    /\ SentAsAsked /\ FiltersObeyed

\* What a step does to the sessions.
SessionsKept ==
    /\ smtp' \in [SmtpSessions -> Connections]
    /\ \A s \in SmtpSessions : Asked(smtp'[s])

\* A step is one of one session; the others stay as they are.
LEMMA OneSession ==
    ASSUME ServerInv, NEW s \in SmtpSessions, NEW r, SessionOK(r), smtp' = [smtp EXCEPT ![s] = r]
    PROVE  SessionsKept
BY DEF ServerInv, SessionOK, SessionsKept

\* A new session, one that is over, and one that begins a message again.
LEMMA FreshOK == SessionOK(NewConnection) /\ SessionOK([NewConnection EXCEPT !.pc = "gone"])
<1>1. IsFiniteSet({})
  BY FS_EmptySet
<1> QED
  BY <1>1 DEF SessionOK, Asked, NewConnection, NoFilter, Connections, Turns

LEMMA RsetOK == ASSUME NEW r, SessionOK(r) PROVE SessionOK(AfterRset(r))
<1>1. IsFiniteSet({})
  BY FS_EmptySet
<1> QED
  BY <1>1 DEF SessionOK, Asked, AfterRset, NoFilter, Connections, Turns

\* Commands that neither touch the recipients nor a filter's turn.
LEMMA CommandKeeps ==
    ASSUME ServerInv, NEW s \in SmtpSessions,
           Connect(s) \/ Helo(s) \/ Auth(s) \/ Mail(s) \/ Data(s)
    PROVE  SessionsKept
<1> DEFINE r == smtp[s]
<1>0. r \in Connections /\ Asked(r)
  BY DEF ServerInv
<1>1. CASE Connect(s)
  <2>1. PICK t \in BOOLEAN : smtp' = [smtp EXCEPT ![s].pc = "command", ![s].trusted = t]
    BY <1>1 DEF Connect
  <2>2. SessionOK([r EXCEPT !.pc = "command", !.trusted = t])
    BY <1>0 DEF SessionOK, Connections, Asked
  <2>3. smtp' = [smtp EXCEPT ![s] = [r EXCEPT !.pc = "command", !.trusted = t]]
    BY <2>1
  <2> QED
    BY <2>2, <2>3, OneSession
<1>2. CASE Helo(s)
  <2>1. PICK e \in BOOLEAN : smtp' = [smtp EXCEPT ![s] = [r EXCEPT !.state = "helo", !.ehlo = e]]
    BY <1>2 DEF Helo
  <2>2. SessionOK([r EXCEPT !.state = "helo", !.ehlo = e])
    BY <1>0 DEF SessionOK, Connections, Asked
  <2> QED
    BY <2>1, <2>2, OneSession
<1>3. CASE Auth(s)
  <2> DEFINE k == dayLimit /\ account.key
  <2>1. smtp' = [smtp EXCEPT ![s] = [r EXCEPT !.auth = TRUE, !.keyed = k]]
    BY <1>3 DEF Auth
  <2>2. k \in BOOLEAN
    BY DEF ServerInv
  <2> HIDE DEF k
  <2>3. SessionOK([r EXCEPT !.auth = TRUE, !.keyed = k])
    BY <1>0, <2>2 DEF SessionOK, Connections, Asked
  <2> QED
    BY <2>1, <2>3, OneSession
<1>4. CASE Mail(s)
  BY <1>4 DEF Mail, ServerInv, SessionsKept, Connections, Asked
<1>5. CASE Data(s)
  BY <1>5 DEF Data, ServerInv, SessionsKept, Connections, Asked
<1> QED
  BY <1>1, <1>2, <1>3, <1>4, <1>5

\* RCPT adds to both lists.
LEMMA RcptKeeps ==
    ASSUME ServerInv, NEW s \in SmtpSessions, Rcpt(s)
    PROVE  SessionsKept
<1> DEFINE r == smtp[s]
<1>1. PICK x \in Recipients : smtp' = [smtp EXCEPT ![s] = [r EXCEPT !.rcpts = @ \cup {x}, !.asked = @ \cup {x}]]
  BY DEF Rcpt, Recipients
<1>2. r \in Connections /\ Asked(r)
  BY DEF ServerInv
<1> DEFINE to == r.rcpts \cup {x}
           a == r.asked \cup {x}
<1>3. IsFiniteSet(to)
  BY <1>2, FS_AddElement DEF Asked
<1>4. to \in SUBSET Recipients /\ a \in SUBSET Recipients /\ to \subseteq a /\ r.filter.to \subseteq a
  BY <1>2 DEF Asked, Connections
<1>5. smtp' = [smtp EXCEPT ![s] = [r EXCEPT !.rcpts = to, !.asked = a]]
  BY <1>1
<1> HIDE DEF to, a
<1>6. SessionOK([r EXCEPT !.rcpts = to, !.asked = a])
  BY <1>2, <1>3, <1>4 DEF SessionOK, Connections, Asked
<1> QED
  BY <1>5, <1>6, OneSession

\* The rest of ProcessMessage, up to the filters.
LEMMA CheckKeeps ==
    ASSUME ServerInv, NEW s \in SmtpSessions, CheckLimit(s) \/ Count(s)
    PROVE  SessionsKept
<1> DEFINE r == smtp[s]
<1>0. r \in Connections /\ Asked(r) /\ stats \in SUBSET Rows
  BY DEF ServerInv
<1>a. r.no \in Nat
  BY <1>0 DEF Connections
<1> DEFINE no == r.no + 1
<1>b. no \in Nat
  BY <1>a
<1>1. CASE CheckLimit(s) /\ Refuse(s)
  BY <1>1, RsetOK, OneSession DEF ServerInv, SessionOK, Refuse
<1>2. CASE CheckLimit(s) /\ smtp' = [smtp EXCEPT ![s].pc = "filter", ![s].no = @ + 1]
  <2>1. smtp' = [smtp EXCEPT ![s] = [r EXCEPT !.pc = "filter", !.no = no]]
    BY <1>2
  <2> HIDE DEF no
  <2>2. SessionOK([r EXCEPT !.pc = "filter", !.no = no])
    BY <1>0, <1>b DEF SessionOK, Connections, Asked
  <2> QED
    BY <2>1, <2>2, OneSession
<1>3. CASE CheckLimit(s) /\ smtp' = [smtp EXCEPT ![s].pc = "count", ![s].no = @ + 1, ![s].seen = stats]
  <2>1. smtp' = [smtp EXCEPT ![s] = [r EXCEPT !.pc = "count", !.no = no, !.seen = stats]]
    BY <1>3
  <2> HIDE DEF no
  <2>2. SessionOK([r EXCEPT !.pc = "count", !.no = no, !.seen = stats])
    BY <1>0, <1>b DEF SessionOK, Connections, Asked
  <2> QED
    BY <2>1, <2>2, OneSession
<1>4. CASE Count(s)
  <2>1. smtp' = [smtp EXCEPT ![s] = [r EXCEPT !.pc = "filter", !.seen = {}]]
    BY <1>4 DEF Count
  <2>2. SessionOK([r EXCEPT !.pc = "filter", !.seen = {}])
    BY <1>0 DEF SessionOK, Connections, Asked
  <2> QED
    BY <2>1, <2>2, OneSession
<1> QED
  BY <1>1, <1>2, <1>3, <1>4 DEF CheckLimit

\* A row that is counted has a number of recipients.
LEMMA CountKeepsRows ==
    ASSUME ServerInv, NEW s \in SmtpSessions, Count(s)
    PROVE  stats' \subseteq Rows
<1> DEFINE k == Cardinality(smtp[s].rcpts)
           late == smtp[s].seen # stats
           free == ~sendStats /\ smtp[s].seen = {}
<1>1. stats' = stats \cup {[id |-> <<s, smtp[s].no>>, n |-> k, late |-> late, free |-> free]}
  BY DEF Count
<1>2. k \in Nat
  BY FS_CardinalityType DEF ServerInv, Asked
<1>3. smtp[s].no \in Nat /\ stats \subseteq Rows
  BY DEF ServerInv, Connections
<1>4. late \in BOOLEAN /\ free \in BOOLEAN
  BY DEF ServerInv
<1> HIDE DEF k, late, free
<1> QED
  BY <1>1, <1>2, <1>3, <1>4 DEF Rows

\* A filter's turn begins with the session's list, and changes go to both.
LEMMA TurnKeeps ==
    ASSUME ServerInv, NEW s \in SmtpSessions, NextFilter(s) \/ FilterChanges(s)
    PROVE  SessionsKept
<1> DEFINE r == smtp[s]
<1>0. /\ r \in Connections /\ Asked(r)
      /\ r.rcpts \in SUBSET Recipients /\ r.filter \in Turns /\ r.asked \in SUBSET Recipients
  BY DEF ServerInv, Connections
<1>1. CASE NextFilter(s)
  <2> DEFINE f == r.filter
             i == f.no + 1
             begun == [no |-> i, stage |-> "before", to |-> r.rcpts, said |-> "none"]
             passed == [f EXCEPT !.no = i]
  <2>1. PICK g \in {begun, passed} : smtp' = [smtp EXCEPT ![s].filter = g]
    BY <1>1 DEF NextFilter
  <2>2. i \in Nat
    BY <1>0 DEF Turns
  <2>3. begun \in Turns /\ begun.to = r.rcpts
    <3> HIDE DEF i
    <3> QED
      BY <1>0, <2>2 DEF Turns
  <2>4. passed \in Turns /\ passed.to = f.to
    <3> HIDE DEF i
    <3> QED
      BY <1>0, <2>2 DEF Turns
  <2>5. g \in Turns /\ g.to \in {r.rcpts, r.filter.to}
    BY <2>1, <2>3, <2>4
  <2> HIDE DEF begun, passed
  <2>6. SessionOK([r EXCEPT !.filter = g])
    BY <1>0, <2>5 DEF SessionOK, Connections, Asked
  <2>7. smtp' = [smtp EXCEPT ![s] = [r EXCEPT !.filter = g]]
    BY <2>1
  <2> QED
    BY <2>6, <2>7, OneSession
<1>2. CASE FilterChanges(s)
  <2> DEFINE was == r.filter.to
  <2>a. PICK x \in Recipients : \E to \in {was \cup {x}, was \ {x}, was} :
            smtp' = [smtp EXCEPT ![s].filter.stage = "more", ![s].filter.to = to,
                                 ![s].asked = @ \cup (to \ was)]
    BY <1>2 DEF FilterChanges, Recipients
  <2>1. PICK to \in {was \cup {x}, was \ {x}, was} :
            smtp' = [smtp EXCEPT ![s].filter.stage = "more", ![s].filter.to = to,
                                 ![s].asked = @ \cup (to \ was)]
    BY <2>a
  <2> DEFINE g == [r.filter EXCEPT !.stage = "more", !.to = to]
             a == r.asked \cup (to \ was)
  <2>2. smtp' = [smtp EXCEPT ![s] = [r EXCEPT !.filter = g, !.asked = a]]
    BY <2>1
  <2>3. IsFiniteSet(was) /\ was \subseteq Recipients /\ was \subseteq r.asked
    BY <1>0 DEF Asked, Turns
  <2>4. IsFiniteSet(to)
    BY <2>3, FS_AddElement, FS_RemoveElement
  <2>5. to \in SUBSET Recipients /\ a \in SUBSET Recipients /\ to \subseteq a /\ r.rcpts \subseteq a
    BY <1>0, <2>3 DEF Asked
  <2>6. g \in Turns /\ g.to = to
    BY <1>0, <2>5 DEF Turns
  <2> HIDE DEF g, a
  <2>7. SessionOK([r EXCEPT !.filter = g, !.asked = a])
    BY <1>0, <2>4, <2>5, <2>6 DEF SessionOK, Connections, Asked
  <2> QED
    BY <2>2, <2>7, OneSession
<1> QED
  BY <1>1, <1>2
\* What process() returns ends the turn: with the list as it was, or the filter's,
\* or the message refused.  No refusal is passed over, if one is only answered by
\* refusing.
LEMMA VerdictKeeps ==
    ASSUME ServerInv, NEW s \in SmtpSessions, NEW verdict, NEW said, Verdict(s, verdict, said),
           LET owed == IF said = "none" THEN filters[smtp[s].filter.no].default ELSE said
           IN  owed \in {"accept", "refuse"} => verdict = owed
    PROVE  SessionsKept /\ turned' = FALSE
<1> DEFINE r == smtp[s]
           f == r.filter
           owed == IF said = "none" THEN filters[f.no].default ELSE said
           over == [NoFilter EXCEPT !.no = f.no]
           left == r.ignored \cup ({owed} \cap {"refuse"})
           on == [r EXCEPT !.filter = over, !.ignored = left]
<1>0. /\ r \in Connections /\ Asked(r) /\ turned = FALSE
      /\ r.rcpts \in SUBSET Recipients /\ f \in Turns /\ r.ignored = {}
  BY DEF ServerInv, FiltersObeyed, Connections
<1>1. over \in Turns /\ over.to = {} /\ IsFiniteSet(over.to)
  BY <1>0, FS_EmptySet DEF NoFilter, Turns
<1>2. verdict # "refuse" => left = {}
  BY <1>0
<1>3. verdict # "refuse" => SessionOK(on)
  <2> HIDE DEF over, left
  <2> QED
    BY <1>0, <1>1, <1>2 DEF SessionOK, Connections, Asked
<1>4. verdict # "refuse" => SessionOK([on EXCEPT !.rcpts = f.to])
  <2>1. f.to \in SUBSET Recipients /\ IsFiniteSet(f.to) /\ f.to \subseteq r.asked
    BY <1>0 DEF Asked, Turns
  <2>2. on.asked = r.asked
    BY <1>0 DEF Connections
  <2> HIDE DEF on
  <2> QED
    BY <1>3, <2>1, <2>2 DEF SessionOK, Connections, Asked
<1>5. CASE verdict = "accept" /\ smtp' = [smtp EXCEPT ![s] = [on EXCEPT !.rcpts = f.to]] /\ turned' = turned
  <2> HIDE DEF on
  <2> QED
    BY <1>0, <1>4, <1>5, OneSession
<1>6. CASE verdict = "none" /\ smtp' = [smtp EXCEPT ![s] = on] /\ turned' = turned
  <2> HIDE DEF on
  <2> QED
    BY <1>0, <1>3, <1>6, OneSession
<1>7. CASE verdict = "refuse" /\ Refuse(s) /\ turned' = (turned \/ owed = "accept")
  <2>1. SessionsKept
    BY <1>0, <1>7, RsetOK, OneSession DEF SessionOK, Refuse
  <2>2. owed # "accept"
    BY <1>7
  <2> QED
    BY <1>0, <1>7, <2>1, <2>2
<1> QED
  BY <1>5, <1>6, <1>7 DEF Verdict

\* A filter that is waited for keeps its copy.
LEMMA TurnGoesOn ==
    ASSUME ServerInv, NEW s \in SmtpSessions, NEW g \in Turns, g.to = smtp[s].filter.to,
           smtp' = [smtp EXCEPT ![s] = [smtp[s] EXCEPT !.filter = g]]
    PROVE  SessionsKept
<1>1. SessionOK([smtp[s] EXCEPT !.filter = g])
  BY DEF ServerInv, SessionOK, Connections, Asked
<1> QED
  BY <1>1, OneSession

\* A filter is answered as it said, or as its default says if it failed.
LEMMA FilterKeeps ==
    ASSUME ServerInv, NEW s \in SmtpSessions,
           FilterDecides(s) \/ FilterContinues(s) \/ FilterFails(s)
    PROVE  SessionsKept /\ turned' = FALSE
<1> DEFINE r == smtp[s]
<1>0. r \in Connections /\ Asked(r) /\ r.filter \in Turns /\ turned = FALSE
  BY DEF ServerInv, FiltersObeyed, Connections
<1>1. CASE FilterDecides(s)
  <2>1. PICK v \in {"accept", "refuse"} : Verdict(s, v, v)
    BY <1>1 DEF FilterDecides
  <2> QED
    BY <2>1, VerdictKeeps
<1>2. CASE FilterContinues(s) /\ Verdict(s, "accept", "continue")
  BY <1>2, VerdictKeeps
<1>4. CASE smtp' = [smtp EXCEPT ![s].filter.stage = "end"] /\ turned' = turned
  <2> DEFINE g == [r.filter EXCEPT !.stage = "end"]
  <2>1. g \in Turns /\ g.to = r.filter.to
    BY <1>0 DEF Turns
  <2>2. smtp' = [smtp EXCEPT ![s] = [r EXCEPT !.filter = g]]
    BY <1>4
  <2> HIDE DEF g
  <2> QED
    BY <1>0, <1>4, <2>1, <2>2, TurnGoesOn
<1>5. CASE smtp' = [smtp EXCEPT ![s].filter.stage = "silent", ![s].filter.said = "continue"]
           /\ turned' = turned
  <2> DEFINE g == [r.filter EXCEPT !.stage = "silent", !.said = "continue"]
  <2>1. g \in Turns /\ g.to = r.filter.to
    BY <1>0 DEF Turns
  <2>2. smtp' = [smtp EXCEPT ![s] = [r EXCEPT !.filter = g]]
    BY <1>5
  <2> HIDE DEF g
  <2> QED
    BY <1>0, <1>5, <2>1, <2>2, TurnGoesOn
<1>6. CASE FilterFails(s)
  <2>1. Verdict(s, filters[r.filter.no].default, r.filter.said)
    BY <1>6 DEF FilterFails
  <2>2. r.filter.said \in {"none", "continue"}
    BY <1>0 DEF Turns
  <2> QED
    BY <2>1, <2>2, VerdictKeeps
<1> QED
  BY <1>0, <1>1, <1>2, <1>4, <1>5, <1>6 DEF FilterContinues

\* The queue takes the message as it is, or nothing of it; the session begins again.
LEMMA EnqueueKeeps ==
    ASSUME ServerInv, NEW s \in SmtpSessions, Enqueue(s)
    PROVE  SessionsKept /\ stats' \subseteq Rows /\ SentAsAsked' /\ \A m \in out' : m.ignored = {}
<1> DEFINE r == smtp[s]
           n == Cardinality(r.rcpts)
<1>0. /\ r \in Connections /\ Asked(r) /\ r.ignored = {} /\ r.sent \in Nat
      /\ stats \subseteq Rows /\ SentAsAsked /\ \A m \in out : m.ignored = {}
  BY DEF ServerInv, FiltersObeyed, Connections
<1>1. n \in Nat
  BY <1>0, FS_CardinalityType DEF Asked
<1>2. ASSUME NEW k \in Nat, smtp' = [smtp EXCEPT ![s] = [AfterRset(r) EXCEPT !.sent = @ + k]]
      PROVE  SessionsKept
  <2>1. SessionOK(AfterRset(r))
    BY <1>0, RsetOK DEF SessionOK
  <2> DEFINE sum == AfterRset(r).sent + k
             after == AfterRset(r)
  <2>2. sum \in Nat
    BY <2>1, <1>2 DEF SessionOK, Connections
  <2> HIDE DEF sum, after
  <2>3. SessionOK([after EXCEPT !.sent = sum])
    BY <2>1, <2>2 DEF after, SessionOK, Connections, Asked
  <2>4. smtp' = [smtp EXCEPT ![s] = [after EXCEPT !.sent = sum]]
    BY <1>2 DEF sum, after
  <2> QED
    BY <2>3, <2>4, OneSession
<1> DEFINE m == [strange |-> r.rcpts \ r.asked, ignored |-> r.ignored]
<1>3. CASE /\ smtp' = [smtp EXCEPT ![s] = [AfterRset(r) EXCEPT !.sent = @ + n]]
           /\ out' = out \cup {m} /\ stats' = stats
  <2>1. m.strange = {} /\ m.ignored = {}
    BY <1>0 DEF Asked
  <2>2. SessionsKept
    <3> HIDE DEF n
    <3> QED
      BY <1>1, <1>2, <1>3
  <2> HIDE DEF m
  <2> QED
    BY <1>0, <1>3, <2>1, <2>2 DEF SentAsAsked
<1>4. CASE \E k \in 0..(n - 1) :
           /\ smtp' = [smtp EXCEPT ![s] = [AfterRset(r) EXCEPT !.sent = @ + k]]
           /\ stats' = {row \in stats : row.id # <<s, r.no>>} /\ out' = out
  <2>1. PICK k \in 0..(n - 1) :
           /\ smtp' = [smtp EXCEPT ![s] = [AfterRset(r) EXCEPT !.sent = @ + k]]
           /\ stats' = {row \in stats : row.id # <<s, r.no>>} /\ out' = out
    BY <1>4
  <2>2. k \in Nat
    <3> HIDE DEF n
    <3> QED
      BY <1>1
  <2>3. SessionsKept
    BY <1>2, <2>1, <2>2
  <2>4. stats' \subseteq stats
    BY <2>1
  <2> QED
    BY <1>0, <2>1, <2>3, <2>4 DEF SentAsAsked
<1> QED
  BY <1>3, <1>4 DEF Enqueue
-----------------------------------------------------------------------------
LEMMA ServerBegins == ServerInit => ServerInv
<1> SUFFICES ASSUME ServerInit PROVE ServerInv
  OBVIOUS
<1>1. smtp = [s \in SmtpSessions |-> NewConnection] /\ SessionOK(NewConnection)
  BY FreshOK DEF ServerInit
<1>2. smtp \in [SmtpSessions -> Connections] /\ \A s \in SmtpSessions : Asked(smtp[s])
  BY <1>1 DEF SessionOK
<1>3. account \in [key : BOOLEAN, sent : Int]
  BY DEF ServerInit
<1>4. /\ sendStats \in BOOLEAN /\ dayLimit \in BOOLEAN /\ stats \subseteq Rows
      /\ SentAsAsked /\ FiltersObeyed
  BY DEF ServerInit, SentAsAsked, FiltersObeyed
<1> QED
  BY <1>2, <1>3, <1>4 DEF ServerInv

\* What the sessions' step leaves alone is as it was.
LEMMA InvFromParts ==
    ASSUME ServerInv, UNCHANGED setup, SessionsKept, account' \in [key : BOOLEAN, sent : Int],
           stats' \subseteq Rows, turned' = FALSE, SentAsAsked', \A m \in out' : m.ignored = {}
    PROVE  ServerInv'
BY DEF ServerInv, setup, SessionsKept, FiltersObeyed

LEMMA ServerStays ==
    ASSUME ServerInv, [ServerNext]_serverVars
    PROVE  ServerInv'
<1>0. /\ account \in [key : BOOLEAN, sent : Int] /\ stats \subseteq Rows /\ turned = FALSE
      /\ SentAsAsked /\ \A m \in out : m.ignored = {}
  BY DEF ServerInv, FiltersObeyed
<1>q. ASSUME NEW s \in SmtpSessions, SessionsKept, UNCHANGED setup, UNCHANGED <<account, stats, out, turned>>
      PROVE  ServerInv'
  <2>1. account' \in [key : BOOLEAN, sent : Int] /\ stats' \subseteq Rows /\ turned' = FALSE
    BY <1>0, <1>q
  <2>2. SentAsAsked' /\ \A m \in out' : m.ignored = {}
    BY <1>0, <1>q DEF SentAsAsked
  <2> QED
    BY <1>q, <2>1, <2>2, InvFromParts
<1>1. ASSUME NEW s \in SmtpSessions, Serve(s)
      PROVE  ServerInv'
  <2> DEFINE r == smtp[s]
  <2>0. SessionOK(r)
    BY DEF ServerInv, SessionOK
  <2>1. CASE Connect(s) \/ Helo(s) \/ Auth(s) \/ Mail(s) \/ Data(s)
    BY <1>q, <2>1, CommandKeeps DEF Connect, Helo, Auth, Mail, Data, Quietly
  <2>2. CASE Rcpt(s)
    BY <1>q, <2>2, RcptKeeps DEF Rcpt, Quietly
  <2>3. CASE Rset(s) \/ RefuseData(s)
    <3>1. smtp' = [smtp EXCEPT ![s] = AfterRset(r)] /\ SessionOK(AfterRset(r))
      BY <2>0, <2>3, RsetOK DEF Rset, RefuseData, Refuse
    <3> QED
      BY <1>q, <2>3, <3>1, OneSession DEF Rset, RefuseData, Quietly
  <2>4. CASE Leave(s)
    <3> DEFINE saved == [key |-> TRUE, sent |-> IF r.keyed THEN account.sent + r.sent ELSE r.sent]
    <3>1. SessionsKept
      <4>1. smtp' = [smtp EXCEPT ![s] = [NewConnection EXCEPT !.pc = "gone"]]
        BY <2>4 DEF Leave
      <4> QED
        BY <4>1, FreshOK, OneSession
    <3>2. r.sent \in Int /\ account.sent \in Int
      BY <1>0, <2>0 DEF SessionOK, Connections
    <3>3. saved \in [key : BOOLEAN, sent : Int]
      BY <3>2
    <3>4. account' \in {account, saved}
      BY <2>4 DEF Leave
    <3>5. UNCHANGED setup /\ UNCHANGED <<stats, out, turned>>
      BY <2>4 DEF Leave
    <3>6. account' \in [key : BOOLEAN, sent : Int]
      BY <1>0, <3>3, <3>4
    <3>7. SentAsAsked' /\ \A m \in out' : m.ignored = {}
      BY <1>0, <3>5 DEF SentAsAsked
    <3> QED
      BY <1>0, <3>1, <3>5, <3>6, <3>7, InvFromParts
  <2>5. CASE Kill(s)
    <3>1. smtp' = [smtp EXCEPT ![s] = [NewConnection EXCEPT !.pc = "gone"]]
      BY <2>5 DEF Kill
    <3> QED
      BY <1>q, <2>5, <3>1, FreshOK, OneSession DEF Kill
  <2>6. CASE CheckLimit(s)
    BY <1>q, <2>6, CheckKeeps DEF CheckLimit, Quietly
  <2>7. CASE Count(s)
    <3>1. SessionsKept /\ stats' \subseteq Rows
      BY <2>7, CheckKeeps, CountKeepsRows
    <3>2. UNCHANGED setup /\ UNCHANGED <<account, out, turned>>
      BY <2>7 DEF Count
    <3>3. SentAsAsked' /\ \A m \in out' : m.ignored = {}
      BY <1>0, <3>2 DEF SentAsAsked
    <3> QED
      BY <1>0, <3>1, <3>2, <3>3, InvFromParts
  <2>8. CASE NextFilter(s) \/ FilterChanges(s)
    BY <1>q, <2>8, TurnKeeps DEF NextFilter, FilterChanges, Quietly
  <2>9. CASE FilterDecides(s) \/ FilterContinues(s) \/ FilterFails(s)
    <3>1. SessionsKept /\ turned' = FALSE
      BY <2>9, FilterKeeps
    <3>2. UNCHANGED setup /\ UNCHANGED <<account, stats, out>>
      BY <2>9 DEF FilterDecides, FilterContinues, FilterFails
    <3>3. SentAsAsked' /\ \A m \in out' : m.ignored = {}
      BY <1>0, <3>2 DEF SentAsAsked
    <3> QED
      BY <1>0, <3>1, <3>2, <3>3, InvFromParts
  <2>10. CASE Enqueue(s)
    <3>1. SessionsKept /\ stats' \subseteq Rows /\ SentAsAsked' /\ \A m \in out' : m.ignored = {}
      BY <2>10, EnqueueKeeps
    <3>2. UNCHANGED setup /\ UNCHANGED <<account, turned>>
      BY <2>10 DEF Enqueue
    <3> QED
      BY <1>0, <3>1, <3>2, InvFromParts
  <2> QED
    BY <1>1, <2>1, <2>2, <2>3, <2>4, <2>5, <2>6, <2>7, <2>8, <2>9, <2>10 DEF Serve
<1>2. CASE UNCHANGED serverVars
  BY <1>2 DEF serverVars, ServerInv, Asked, SentAsAsked, FiltersObeyed
<1> QED
  BY <1>1, <1>2 DEF ServerNext

THEOREM ServerInvariant == ServerSpec => []ServerInv
BY ServerBegins, ServerStays, PTL DEF ServerSpec

\* A message only goes to recipients of its own transaction, or a filter's, whatever
\* the client and the filters do.
THEOREM ServerSentAsAsked == ServerSpec => []SentAsAsked
<1>1. ServerInv => SentAsAsked
  BY DEF ServerInv
<1> QED
  BY <1>1, ServerInvariant, PTL

\* No message goes out past a refusal, and none is refused for a filter that let it
\* pass, by itself or by its default.
THEOREM ServerFiltersObeyed == ServerSpec => []FiltersObeyed
<1>1. ServerInv => FiltersObeyed
  BY DEF ServerInv
<1> QED
  BY <1>1, ServerInvariant, PTL

-----------------------------------------------------------------------------
(***************************************************************************)
(* The limit.                                                              *)
(***************************************************************************)

\* What SELECT SUM(recipients) adds up.
Numbers == [row \in Rows |-> row.n]

\* Rows that were checked, by a check that was up to date.
Checked == {row \in stats : ~row.late /\ ~row.free}

\* The limit as DATA checks it.
Cap == IF sendStats THEN Limit ELSE Limit - 1

\* What a message was let through with.
Allowed(r) ==
    LET n == Cardinality(r.rcpts) IN
    IF sendStats THEN SumOf(r.seen) + n <= Limit
    ELSE r.seen = {} \/ SumOf(r.seen) + n < Limit

\* The rows there are, and the one that is about to come.
LimitInv ==
    /\ IsFiniteSet(stats)
    /\ SumOf(Checked) <= Cap
    /\ \A s \in SmtpSessions : smtp[s].pc = "count" => Allowed(smtp[s])

\* SELECT SUM is the sum of the rows' numbers.
LEMMA SumOfRows ==
    ASSUME NEW T \in SUBSET Rows, IsFiniteSet(T)
    PROVE  SumOf(T) = SumFunctionOnSet(Numbers, T) /\ SumOf(T) \in Nat
<1>. DEFINE f == [r \in T |-> r.n]
<1>1. SumOf(T) = SumFunctionOnSet(f, T)
  BY DEF SumOf, SumFunction
<1>2. \A r \in T : f[r] \in Nat /\ f[r] = Numbers[r]
  BY DEF Numbers, Rows
<1>. HIDE DEF f
<1>. QED
  BY <1>1, <1>2, SumSame, SumType

\* Every row has one.
LEMMA RowsCount == \A row \in Rows : Numbers[row] \in Nat
BY DEF Numbers, Rows

\* LimitKept speaks of the rows that were checked in time.
LEMMA LimitFromChecked ==
    ASSUME ServerInv, IsFiniteSet(stats)
    PROVE  LimitKept <=> SumOf(Checked) <= Cap
<1>. DEFINE rest == {row \in stats : row.late \/ row.free}
<1>1. stats \in SUBSET Rows /\ Checked = stats \ rest /\ stats \cap rest = rest
  BY DEF ServerInv, Checked
<1>2. IsFiniteSet(rest) /\ IsFiniteSet(Checked) /\ rest \in SUBSET Rows /\ Checked \in SUBSET Rows
  BY <1>1, FS_Subset
<1>3. SumFunctionOnSet(Numbers, stats)
        = SumFunctionOnSet(Numbers, stats \cap rest) + SumFunctionOnSet(Numbers, stats \ rest)
  BY <1>1, RowsCount, SumSplit
<1>4. SumOf(stats) = SumOf(rest) + SumOf(Checked) /\ SumOf(rest) \in Nat /\ SumOf(Checked) \in Nat
  BY <1>1, <1>2, <1>3, SumOfRows
<1>5. Cap \in Int
  BY ServerAssumption DEF Cap
<1>6. LimitKept <=> SumOf(stats) <= Cap + SumOf(rest)
  BY DEF LimitKept, Cap
<1>. HIDE DEF rest
<1>. QED
  BY <1>4, <1>5, <1>6

\* Rows that go leave room.
LEMMA FewerRows ==
    ASSUME ServerInv, LimitInv, NEW T \in SUBSET Checked
    PROVE  SumOf(T) <= Cap /\ SumOf(T) \in Nat
<1>1. IsFiniteSet(Checked) /\ Checked \in SUBSET Rows /\ IsFiniteSet(T) /\ T \in SUBSET Rows
  BY FS_Subset DEF ServerInv, LimitInv, Checked
<1>2. SumOf(T) <= SumOf(Checked) /\ SumOf(T) \in Nat /\ SumOf(Checked) \in Nat
  BY <1>1, RowsCount, SumOfRows, SumSubset
<1>3. Cap \in Int
  BY ServerAssumption DEF Cap
<1>. QED
  BY <1>2, <1>3 DEF LimitInv

\* A row that was checked in time has room.
LEMMA CountKeepsLimit ==
    ASSUME ServerInv, LimitInv, NEW s \in SmtpSessions, Count(s)
    PROVE  IsFiniteSet(stats') /\ SumOf(Checked)' <= Cap
<1>. DEFINE r == smtp[s]
            n == Cardinality(r.rcpts)
            late == r.seen # stats
            free == ~sendStats /\ r.seen = {}
            row == [id |-> <<s, r.no>>, n |-> n, late |-> late, free |-> free]
<1>1. r.pc = "count" /\ stats' = stats \cup {row}
  BY DEF Count
<1>2. stats' \in SUBSET Rows /\ stats \in SUBSET Rows /\ n \in Nat
  BY CountKeepsRows, FS_CardinalityType DEF ServerInv, Asked
<1>3. IsFiniteSet(stats')
  BY <1>1, FS_AddElement DEF LimitInv
<1>4. row.late = late /\ row.free = free /\ row.n = n /\ row \in Rows
  BY <1>1, <1>2
<1>. HIDE DEF row
<1>5. Checked' = IF late \/ free THEN Checked ELSE Checked \cup {row}
  BY <1>1, <1>4 DEF Checked
<1>6. SumOf(Checked) <= Cap /\ SumOf(Checked) \in Nat /\ Cap \in Int
  BY FewerRows, ServerAssumption DEF Cap
<1>7. SumOf(Checked)' = SumOf(Checked')
  BY DEF SumOf
<1>8. CASE late \/ free \/ row \in Checked
  <2>1. Checked' = Checked
    BY <1>5, <1>8
  <2>. QED
    BY <1>3, <1>6, <1>7, <2>1
<1>9. CASE ~late /\ ~free /\ row \notin Checked
  <2>1. IsFiniteSet(Checked) /\ Checked \in SUBSET Rows
    BY <1>2, FS_Subset DEF LimitInv, Checked
  <2>2. SumFunctionOnSet(Numbers, Checked \cup {row})
          = Numbers[row] + SumFunctionOnSet(Numbers, Checked)
    BY <1>4, <1>9, <2>1, RowsCount, SumAdd
  <2>3. SumOf(Checked \cup {row}) = n + SumOf(Checked)
    <3>1. IsFiniteSet(Checked \cup {row}) /\ Checked \cup {row} \in SUBSET Rows
      BY <1>4, <2>1, FS_AddElement
    <3>2. Numbers[row] = n
      BY <1>4 DEF Numbers
    <3>. QED
      BY <2>1, <2>2, <3>1, <3>2, SumOfRows
  <2>4. SumOf(Checked) <= SumOf(stats) /\ SumOf(stats) \in Nat
    <3>1. Checked \in SUBSET stats /\ IsFiniteSet(stats) /\ IsFiniteSet(Checked)
      BY <2>1 DEF LimitInv, Checked
    <3>2. SumFunctionOnSet(Numbers, Checked) <= SumFunctionOnSet(Numbers, stats)
      BY <1>2, <3>1, RowsCount, SumSubset
    <3>. QED
      BY <1>2, <2>1, <3>1, <3>2, SumOfRows
  <2>5. Allowed(r) /\ r.seen = stats /\ (sendStats \/ r.seen # {})
    BY <1>1, <1>9 DEF LimitInv
  <2>6. SumOf(stats) + n <= Cap
    <3>1. CASE sendStats
      BY <2>5, <3>1 DEF Allowed, Cap
    <3>2. CASE ~sendStats
      <4>1. SumOf(stats) + n < Limit
        BY <2>5, <3>2 DEF Allowed
      <4>. HIDE DEF n
      <4>2. SumOf(stats) + n <= Limit - 1
        BY <1>2, <2>4, <4>1, ServerAssumption
      <4>. QED
        BY <3>2, <4>2 DEF Cap
    <3>. QED
      BY <3>1, <3>2
  <2>7. Checked' = Checked \cup {row}
    BY <1>5, <1>9
  <2>. HIDE DEF n
  <2>8. SumOf(Checked') <= Cap
    BY <1>2, <1>6, <2>3, <2>4, <2>6, <2>7
  <2>. QED
    BY <1>3, <1>7, <2>8
<1>. QED
  BY <1>8, <1>9

\* What a step of session s leaves alone: the other sessions, and what was set up.
OnlyOf(s) ==
    /\ \A t \in SmtpSessions \ {s} : smtp'[t] = smtp[t]
    /\ UNCHANGED setup

\* A step that does not log in, end or enqueue.
Plain(s) ==
    /\ smtp'[s].pc \notin {"new", "gone"}
    /\ smtp'[s].auth = smtp[s].auth /\ smtp'[s].keyed = smtp[s].keyed /\ smtp'[s].sent = smtp[s].sent
    /\ UNCHANGED <<account, charged, parallel, killed>>

\* A session that is only changed in other respects.
LEMMA PlainStep ==
    ASSUME ServerInv, NEW s \in SmtpSessions, NEW q, smtp' = [smtp EXCEPT ![s] = q],
           q.pc \notin {"new", "gone"}, q.auth = smtp[s].auth, q.keyed = smtp[s].keyed,
           q.sent = smtp[s].sent, UNCHANGED <<setup, account, charged, parallel, killed>>
    PROVE  OnlyOf(s) /\ Plain(s) /\ smtp'[s] = q
BY DEF ServerInv, OnlyOf, Plain

\* Commands.
LEMMA CommandsArePlain ==
    ASSUME ServerInv, NEW s \in SmtpSessions,
           Connect(s) \/ Helo(s) \/ Mail(s) \/ Rcpt(s) \/ Rset(s) \/ Data(s) \/ RefuseData(s)
    PROVE  OnlyOf(s) /\ Plain(s) /\ stats' = stats /\ smtp'[s].pc # "count"
<1>1. smtp \in [SmtpSessions -> Connections] /\ smtp[s] \in Connections
  BY DEF ServerInv
<1>2. CASE Connect(s)
  <2>1. PICK t \in BOOLEAN : smtp' = [smtp EXCEPT ![s] = [smtp[s] EXCEPT !.pc = "command", !.trusted = t]]
    BY <1>2 DEF Connect
  <2>. DEFINE q == [smtp[s] EXCEPT !.pc = "command", !.trusted = t]
  <2>2. q.pc = "command" /\ q.auth = smtp[s].auth /\ q.keyed = smtp[s].keyed /\ q.sent = smtp[s].sent
    BY <1>1 DEF Connections
  <2>. HIDE DEF q
  <2>. QED
    BY <1>2, <2>1, <2>2, PlainStep DEF Connect, q
<1>3. CASE Helo(s)
  <2>1. PICK e \in BOOLEAN : smtp' = [smtp EXCEPT ![s] = [smtp[s] EXCEPT !.state = "helo", !.ehlo = e]]
    BY <1>3 DEF Helo
  <2>. DEFINE q == [smtp[s] EXCEPT !.state = "helo", !.ehlo = e]
  <2>2. q.pc = smtp[s].pc /\ q.auth = smtp[s].auth /\ q.keyed = smtp[s].keyed /\ q.sent = smtp[s].sent
    BY <1>1 DEF Connections
  <2>. HIDE DEF q
  <2>. QED
    BY <1>3, <2>1, <2>2, PlainStep DEF Helo, Quietly, q
<1>4. CASE Mail(s)
  BY <1>1, <1>4 DEF Mail, Quietly, Connections, OnlyOf, Plain, setup
<1>5. CASE Rcpt(s)
  <2>1. PICK x \in Recipients :
            smtp' = [smtp EXCEPT ![s] = [smtp[s] EXCEPT !.rcpts = @ \cup {x}, !.asked = @ \cup {x}]]
    BY <1>5 DEF Rcpt, Recipients
  <2>. DEFINE q == [smtp[s] EXCEPT !.rcpts = @ \cup {x}, !.asked = @ \cup {x}]
  <2>2. q.pc = smtp[s].pc /\ q.auth = smtp[s].auth /\ q.keyed = smtp[s].keyed /\ q.sent = smtp[s].sent
    BY <1>1 DEF Connections
  <2>. HIDE DEF q
  <2>. QED
    BY <1>5, <2>1, <2>2, PlainStep DEF Rcpt, Quietly, q
<1>6. CASE Rset(s)
  BY <1>1, <1>6 DEF Rset, AfterRset, Quietly, Connections, OnlyOf, Plain, setup
<1>7. CASE Data(s)
  BY <1>1, <1>7 DEF Data, Quietly, Connections, OnlyOf, Plain, setup
<1>8. CASE RefuseData(s)
  BY <1>1, <1>8 DEF RefuseData, Refuse, AfterRset, Quietly, Connections, OnlyOf, Plain, setup
<1>. QED
  BY <1>2, <1>3, <1>4, <1>5, <1>6, <1>7, <1>8

\* The answers of a filter.
LEMMA VerdictIsPlain ==
    ASSUME ServerInv, NEW s \in SmtpSessions, NEW verdict, NEW said, Verdict(s, verdict, said),
           smtp[s].pc = "filter", UNCHANGED <<setup, stats, account, charged, parallel, killed>>
    PROVE  OnlyOf(s) /\ Plain(s) /\ stats' = stats /\ smtp'[s].pc # "count"
<1>1. smtp \in [SmtpSessions -> Connections] /\ smtp[s] \in Connections
  BY DEF ServerInv
<1>. DEFINE f == smtp[s].filter
            owed == IF said = "none" THEN filters[f.no].default ELSE said
            over == [NoFilter EXCEPT !.no = f.no]
            left == smtp[s].ignored \cup ({owed} \cap {"refuse"})
            on == [smtp[s] EXCEPT !.filter = over, !.ignored = left]
<1>2. \/ smtp' = [smtp EXCEPT ![s] = [on EXCEPT !.rcpts = f.to]]
      \/ smtp' = [smtp EXCEPT ![s] = on]
      \/ smtp' = [smtp EXCEPT ![s] = AfterRset(smtp[s])]
  BY DEF Verdict, Refuse
<1>. HIDE DEF over, left
<1>3. OnlyOf(s)
  BY <1>1, <1>2 DEF OnlyOf
<1>4. /\ on.pc = "filter" /\ on.auth = smtp[s].auth /\ on.keyed = smtp[s].keyed /\ on.sent = smtp[s].sent
      /\ LET q == [on EXCEPT !.rcpts = f.to]
         IN  q.pc = "filter" /\ q.auth = smtp[s].auth /\ q.keyed = smtp[s].keyed /\ q.sent = smtp[s].sent
      /\ LET q == AfterRset(smtp[s])
         IN  q.pc = "command" /\ q.auth = smtp[s].auth /\ q.keyed = smtp[s].keyed /\ q.sent = smtp[s].sent
  BY <1>1 DEF AfterRset, Connections
<1>5. smtp'[s] \in {on, [on EXCEPT !.rcpts = f.to], AfterRset(smtp[s])}
  BY <1>1, <1>2
<1>. HIDE DEF on
<1>. QED
  BY <1>3, <1>4, <1>5 DEF Plain

\* The check and the row it is for, and the filters.
LEMMA ChecksArePlain ==
    ASSUME ServerInv, NEW s \in SmtpSessions,
           \/ CheckLimit(s) \/ Count(s) \/ NextFilter(s) \/ FilterDecides(s)
           \/ FilterContinues(s) \/ FilterChanges(s) \/ FilterFails(s)
    PROVE  /\ OnlyOf(s) /\ Plain(s)
           /\ ~Count(s) => stats' = stats
           /\ ~CheckLimit(s) => smtp'[s].pc # "count"
<1>1. smtp \in [SmtpSessions -> Connections] /\ smtp[s] \in Connections
  BY DEF ServerInv
<1>2. CASE CheckLimit(s)
  <2>1. /\ stats' = stats
        /\ \/ smtp' = [smtp EXCEPT ![s].pc = "filter", ![s].no = @ + 1]
           \/ smtp' = [smtp EXCEPT ![s].pc = "count", ![s].no = @ + 1, ![s].seen = stats]
           \/ smtp' = [smtp EXCEPT ![s] = AfterRset(smtp[s])]
    BY <1>2 DEF CheckLimit, Refuse, Quietly
  <2>. DEFINE no == smtp[s].no + 1
  <2>2. PICK q \in {[smtp[s] EXCEPT !.pc = "filter", !.no = no],
                    [smtp[s] EXCEPT !.pc = "count", !.no = no, !.seen = stats], AfterRset(smtp[s])} :
            smtp' = [smtp EXCEPT ![s] = q]
    BY <2>1
  <2>. HIDE DEF no
  <2>3. /\ q.pc \in {"filter", "count", "command"} /\ q.auth = smtp[s].auth
        /\ q.keyed = smtp[s].keyed /\ q.sent = smtp[s].sent
    <3>1. CASE q = [smtp[s] EXCEPT !.pc = "filter", !.no = no]
      BY <1>1, <3>1 DEF Connections
    <3>2. CASE q = [smtp[s] EXCEPT !.pc = "count", !.no = no, !.seen = stats]
      BY <1>1, <3>2 DEF Connections
    <3>3. CASE q = AfterRset(smtp[s])
      BY <1>1, <3>3 DEF AfterRset, Connections
    <3>. QED
      BY <2>2, <3>1, <3>2, <3>3
  <2>4. UNCHANGED <<setup, account, charged, parallel, killed>>
    BY <1>2 DEF CheckLimit, Quietly
  <2>5. OnlyOf(s) /\ Plain(s)
    BY <2>2, <2>3, <2>4, PlainStep
  <2>. QED
    BY <1>2, <2>1, <2>5
<1>3. CASE Count(s)
  BY <1>1, <1>3 DEF Count, Connections, OnlyOf, Plain, setup
<1>4. CASE NextFilter(s)
  BY <1>1, <1>4 DEF NextFilter, Quietly, Connections, OnlyOf, Plain, setup
<1>5. CASE FilterDecides(s)
  <2>1. PICK v \in {"accept", "refuse"} : Verdict(s, v, v)
    BY <1>5 DEF FilterDecides
  <2>. QED
    BY <1>5, <2>1, VerdictIsPlain DEF FilterDecides
<1>6. CASE FilterContinues(s)
  <2>1. CASE Verdict(s, "accept", "continue")
    BY <1>6, <2>1, VerdictIsPlain DEF FilterContinues
  <2>2. CASE \/ smtp' = [smtp EXCEPT ![s].filter.stage = "end"]
             \/ smtp' = [smtp EXCEPT ![s].filter.stage = "silent", ![s].filter.said = "continue"]
    BY <1>1, <1>6, <2>2 DEF FilterContinues, Connections, OnlyOf, Plain, setup
  <2>. QED
    BY <1>6, <2>1, <2>2 DEF FilterContinues
<1>7. CASE FilterChanges(s)
  <2>1. PICK to, x \in SUBSET Recipients :
            smtp' = [smtp EXCEPT ![s].filter.stage = "more", ![s].filter.to = to, ![s].asked = x]
    <3>1. smtp[s].asked \in SUBSET Recipients /\ smtp[s].filter.to \in SUBSET Recipients
      BY <1>1 DEF Connections, Turns
    <3>2. PICK r \in Recipients :
             \E to \in {smtp[s].filter.to \cup {r}, smtp[s].filter.to \ {r}, smtp[s].filter.to} :
                smtp' = [smtp EXCEPT ![s].filter.stage = "more", ![s].filter.to = to,
                                     ![s].asked = @ \cup (to \ smtp[s].filter.to)]
      BY <1>7 DEF FilterChanges, Recipients
    <3>3. PICK to \in SUBSET Recipients :
             smtp' = [smtp EXCEPT ![s].filter.stage = "more", ![s].filter.to = to,
                                  ![s].asked = @ \cup (to \ smtp[s].filter.to)]
      BY <3>1, <3>2
    <3>. DEFINE x == smtp[s].asked \cup (to \ smtp[s].filter.to)
    <3>4. smtp' = [smtp EXCEPT ![s].filter.stage = "more", ![s].filter.to = to, ![s].asked = x]
      BY <3>3
    <3>. QED
      BY <3>1, <3>4
  <2>. DEFINE f == [smtp[s].filter EXCEPT !.stage = "more", !.to = to]
  <2>2. smtp' = [smtp EXCEPT ![s] = [smtp[s] EXCEPT !.filter = f, !.asked = x]]
    BY <2>1
  <2>. HIDE DEF f
  <2>. DEFINE q == [smtp[s] EXCEPT !.filter = f, !.asked = x]
  <2>3. q.pc = smtp[s].pc /\ q.auth = smtp[s].auth /\ q.keyed = smtp[s].keyed /\ q.sent = smtp[s].sent
    BY <1>1 DEF Connections
  <2>. HIDE DEF q
  <2>. QED
    BY <1>7, <2>2, <2>3, PlainStep DEF FilterChanges, Quietly, q
<1>8. CASE FilterFails(s)
  <2>1. Verdict(s, filters[smtp[s].filter.no].default, smtp[s].filter.said)
    BY <1>8 DEF FilterFails
  <2>. QED
    BY <1>8, <2>1, VerdictIsPlain DEF FilterFails
<1>. QED
  BY <1>2, <1>3, <1>4, <1>5, <1>6, <1>7, <1>8

\* A login, the end of a session and a message that is enqueued.
LEMMA OthersTouchNobody ==
    ASSUME ServerInv, NEW s \in SmtpSessions, Auth(s) \/ Leave(s) \/ Kill(s) \/ Enqueue(s)
    PROVE  OnlyOf(s) /\ smtp'[s].pc # "count" /\ (~Enqueue(s) => stats' = stats)
<1>1. smtp \in [SmtpSessions -> Connections] /\ smtp[s] \in Connections
  BY DEF ServerInv
<1>2. CASE Auth(s)
  BY <1>1, <1>2 DEF Auth, Connections, OnlyOf, setup
<1>3. CASE Leave(s)
  BY <1>1, <1>3 DEF Leave, NewConnection, OnlyOf, setup
<1>4. CASE Kill(s)
  BY <1>1, <1>4 DEF Kill, NewConnection, OnlyOf, setup
<1>5. CASE Enqueue(s)
  <2>1. PICK k \in Int : smtp' = [smtp EXCEPT ![s] = [AfterRset(smtp[s]) EXCEPT !.sent = @ + k]]
    <3>1. Cardinality(smtp[s].rcpts) \in Nat
      BY FS_CardinalityType DEF ServerInv, Asked
    <3>. QED
      BY <1>5, <3>1 DEF Enqueue
  <2>2. AfterRset(smtp[s]).pc = "command" /\ AfterRset(smtp[s]) \in Connections
    <3>1. AfterRset(smtp[s]).pc = "command"
      BY <1>1 DEF AfterRset, Connections
    <3>. QED
      BY <3>1, RsetOK DEF ServerInv, SessionOK
  <2>3. smtp'[s].pc = "command"
    BY <1>1, <2>1, <2>2 DEF Connections
  <2>. QED
    BY <1>1, <1>5, <2>1, <2>3 DEF Enqueue, OnlyOf, setup
<1>. QED
  BY <1>2, <1>3, <1>4, <1>5

\* The check says what the message is let through with; nothing else gets there.
LEMMA StepsAreAllowed ==
    ASSUME ServerInv, LimitInv, NEW s \in SmtpSessions, Serve(s)
    PROVE  (\A t \in SmtpSessions : smtp[t].pc = "count" => Allowed(smtp[t]))'
<1>1. OnlyOf(s) /\ (~CheckLimit(s) => smtp'[s].pc # "count")
  BY CommandsArePlain, ChecksArePlain, OthersTouchNobody DEF Serve
<1>2. ASSUME smtp'[s].pc = "count" PROVE Allowed(smtp[s])'
  <2>1. CheckLimit(s) /\ smtp[s] \in Connections /\ smtp \in [SmtpSessions -> Connections]
    BY <1>1, <1>2 DEF ServerInv
  <2>2. LimitAllowsData(Cardinality(smtp[s].rcpts)) /\ smtp'[s].seen = stats /\ smtp'[s].rcpts = smtp[s].rcpts
    <3>1. CASE smtp' = [smtp EXCEPT ![s].pc = "count", ![s].no = @ + 1, ![s].seen = stats]
               /\ LimitAllowsData(Cardinality(smtp[s].rcpts))
      <4>. DEFINE no == smtp[s].no + 1
      <4>1. smtp' = [smtp EXCEPT ![s] = [smtp[s] EXCEPT !.pc = "count", !.no = no, !.seen = stats]]
        BY <3>1
      <4>. HIDE DEF no
      <4>. QED
        BY <2>1, <3>1, <4>1 DEF Connections
    <3>2. CASE smtp' = [smtp EXCEPT ![s].pc = "filter", ![s].no = @ + 1]
      BY <1>2, <2>1, <3>2 DEF Connections
    <3>3. CASE smtp' = [smtp EXCEPT ![s] = AfterRset(smtp[s])]
      BY <1>2, <2>1, <3>3 DEF AfterRset, Connections
    <3>. QED
      BY <2>1, <3>1, <3>2, <3>3 DEF CheckLimit, Refuse
  <2>3. Allowed(smtp'[s])
    BY <2>2 DEF Allowed, LimitAllowsData, MaySendMail
  <2>. QED
    BY <1>1, <2>3 DEF Allowed, OnlyOf, setup
<1>3. ASSUME NEW t \in SmtpSessions \ {s}, smtp'[t].pc = "count" PROVE Allowed(smtp[t])'
  <2>1. Allowed(smtp[t]) /\ smtp'[t] = smtp[t] /\ sendStats' = sendStats
    BY <1>1, <1>3 DEF LimitInv, OnlyOf, setup
  <2>. QED
    BY <2>1 DEF Allowed
<1>. QED
  BY <1>2, <1>3

\* Rows come with Count, and go with a message that could not be enqueued.
LEMMA StepsKeepLimit ==
    ASSUME ServerInv, LimitInv, NEW s \in SmtpSessions, Serve(s)
    PROVE  LimitInv'
<1>1. (\A t \in SmtpSessions : smtp[t].pc = "count" => Allowed(smtp[t]))'
  BY StepsAreAllowed
<1>2. OnlyOf(s) /\ (~Count(s) /\ ~Enqueue(s) => stats' = stats)
  BY CommandsArePlain, ChecksArePlain, OthersTouchNobody DEF Serve
<1>3. Cap' = Cap /\ SumOf(Checked)' = SumOf(Checked')
  BY <1>2 DEF Cap, OnlyOf, setup, SumOf
<1>4. CASE Count(s)
  BY <1>1, <1>3, <1>4, CountKeepsLimit DEF LimitInv
<1>5. CASE ~Count(s)
  <2>1. stats' \in SUBSET stats
    BY <1>2, <1>5 DEF Enqueue
  <2>2. IsFiniteSet(stats') /\ Checked' \in SUBSET Checked
    BY <2>1, FS_Subset DEF LimitInv, Checked
  <2>3. SumOf(Checked') <= Cap
    BY <2>2, FewerRows
  <2>. QED
    BY <1>1, <1>3, <2>2, <2>3 DEF LimitInv
<1>. QED
  BY <1>4, <1>5

\* Nothing is counted at first.
LEMMA LimitHoldsFirst == ServerInit => LimitInv
<1>. SUFFICES ASSUME ServerInit PROVE LimitInv
  OBVIOUS
<1>1. stats = {} /\ Checked = {} /\ IsFiniteSet({}) /\ {} \in SUBSET Rows
  BY FS_EmptySet DEF ServerInit, Checked
<1>2. SumOf({}) = 0
  BY <1>1, SumOfRows, SumEmpty
<1>3. Cap \in Int /\ 0 <= Cap
  BY ServerAssumption DEF Cap
<1>4. \A s \in SmtpSessions : smtp[s].pc # "count"
  BY DEF ServerInit, NewConnection
<1>. QED
  BY <1>1, <1>2, <1>3, <1>4 DEF LimitInv

\* The limit of recipients is kept but for messages whose check was out of date or
\* that were the first; whatever the sessions do between the check and the row.
THEOREM ServerLimitKept == ServerSpec => []LimitKept
<1>1. ServerInv /\ LimitInv => LimitKept
  BY LimitFromChecked DEF LimitInv
<1>2. ServerInv /\ LimitInv /\ [ServerNext]_serverVars => LimitInv'
  <2>. SUFFICES ASSUME ServerInv, LimitInv, [ServerNext]_serverVars PROVE LimitInv'
    OBVIOUS
  <2>1. CASE ServerNext
    BY <2>1, StepsKeepLimit DEF ServerNext
  <2>2. CASE UNCHANGED serverVars
    BY <2>2 DEF serverVars, LimitInv, Checked, Cap, Allowed, SumOf
  <2>. QED
    BY <2>1, <2>2
<1>. QED
  BY <1>1, <1>2, LimitHoldsFirst, ServerInvariant, PTL DEF ServerSpec

-----------------------------------------------------------------------------
(***************************************************************************)
(* The day's counter.                                                      *)
(***************************************************************************)

\* What the sessions have enqueued and not saved.
Unsaved == SumFunction([s \in SmtpSessions |-> smtp[s].sent])

\* today_sent, if today_key is today's.
Saved == IF account.key THEN account.sent ELSE 0

\* A session that has not begun, or is over, has sent nothing.
Idle == \A s \in SmtpSessions :
    smtp[s].pc \in {"new", "gone"} => ~smtp[s].auth /\ ~smtp[s].keyed /\ smtp[s].sent = 0

\* Who found the day's key finds it again; who did not is the only one logged in,
\* as long as nobody has saved.
KeysAgree == \A s \in SmtpSessions :
    /\ smtp[s].keyed => account.key
    /\ smtp[s].auth /\ ~smtp[s].keyed =>
          ~account.key /\ \A t \in SmtpSessions \ {s} : ~smtp[t].auth

\* today_sent and what is not saved make up what was sent.
DayInv ==
    /\ charged \in Int /\ parallel \in BOOLEAN /\ killed \in BOOLEAN
    /\ Idle
    /\ dayLimit /\ ~parallel /\ ~killed => KeysAgree /\ Saved + Unsaved = charged

\* A step changes what one session has not saved.
LEMMA UnsavedChanges ==
    ASSUME ServerInv, ServerInv', NEW s \in SmtpSessions, OnlyOf(s)
    PROVE  /\ Unsaved' + smtp[s].sent = Unsaved + smtp'[s].sent
           /\ Unsaved \in Nat /\ Unsaved' \in Nat /\ smtp[s].sent \in Nat /\ smtp'[s].sent \in Nat
<1>. DEFINE f == [t \in SmtpSessions |-> smtp[t].sent]
            g == [t \in SmtpSessions |-> smtp'[t].sent]
<1>1. Unsaved = SumFunctionOnSet(f, SmtpSessions) /\ Unsaved' = SumFunctionOnSet(g, SmtpSessions)
  BY DEF Unsaved, SumFunction
<1>2. \A t \in SmtpSessions : f[t] \in Nat /\ g[t] \in Nat
  BY DEF ServerInv, Connections
<1>3. \A t \in SmtpSessions \ {s} : f[t] = g[t]
  BY DEF OnlyOf
<1>4. f[s] = smtp[s].sent /\ g[s] = smtp'[s].sent
  OBVIOUS
<1>. HIDE DEF f, g
<1>5. SumFunctionOnSet(g, SmtpSessions) + f[s] = SumFunctionOnSet(f, SmtpSessions) + g[s]
  BY <1>2, <1>3, ServerAssumption, SumChange
<1>6. SumFunctionOnSet(g, SmtpSessions) \in Nat /\ SumFunctionOnSet(f, SmtpSessions) \in Nat
  BY <1>2, ServerAssumption, SumType
<1>. QED
  BY <1>1, <1>2, <1>4, <1>5, <1>6

\* A step that is plain.
LEMMA PlainKeepsDay ==
    ASSUME ServerInv, ServerInv', DayInv, NEW s \in SmtpSessions, OnlyOf(s), Plain(s)
    PROVE  DayInv'
<1>1. Unsaved' = Unsaved
  BY UnsavedChanges DEF Plain
<1>2. Saved' = Saved /\ Idle' /\ (KeysAgree => KeysAgree')
  BY DEF Plain, OnlyOf, Saved, DayInv, Idle, KeysAgree
<1>. QED
  BY <1>1, <1>2 DEF DayInv, Plain, OnlyOf, setup

\* A login looks at the key; alone, if there is none.
LEMMA AuthKeepsDay ==
    ASSUME ServerInv, ServerInv', DayInv, NEW s \in SmtpSessions, Auth(s)
    PROVE  DayInv'
<1>1. OnlyOf(s)
  BY OthersTouchNobody
<1>2. smtp[s] \in Connections /\ smtp[s].pc = "command" /\ dayLimit \in BOOLEAN /\ account.key \in BOOLEAN
  BY DEF Auth, ServerInv
<1>. DEFINE k == dayLimit /\ account.key
            q == [smtp[s] EXCEPT !.auth = TRUE, !.keyed = k]
<1>3. k \in BOOLEAN
  BY <1>2
<1>4. smtp' = [smtp EXCEPT ![s] = q]
  BY DEF Auth
<1>5. smtp'[s] = q
  BY <1>4 DEF ServerInv
<1>6. q.pc = "command" /\ q.auth = TRUE /\ q.keyed = k /\ q.sent = smtp[s].sent
  <2>. HIDE DEF k
  <2>. QED
    BY <1>2 DEF Connections
<1>. HIDE DEF q
<1>7. /\ UNCHANGED <<account, charged, killed>>
      /\ parallel' = (parallel \/ (~account.key /\ \E t \in SmtpSessions \ {s} : Open(t) /\ smtp[t].auth))
  BY DEF Auth
<1>8. Idle'
  BY <1>1, <1>5, <1>6 DEF DayInv, Idle, OnlyOf
<1>9. dayLimit' = dayLimit /\ parallel' \in BOOLEAN
  BY <1>1, <1>7 DEF OnlyOf, setup, DayInv
<1>10. ASSUME dayLimit, ~parallel', ~killed PROVE KeysAgree' /\ Saved' + Unsaved' = charged
  <2>1. KeysAgree /\ Saved + Unsaved = charged
    BY <1>7, <1>10 DEF DayInv
  <2>2. Saved' = Saved /\ Unsaved' = Unsaved
    BY <1>1, <1>5, <1>6, <1>7, UnsavedChanges DEF Saved
  <2>3. ~account.key => \A t \in SmtpSessions \ {s} : ~smtp[t].auth
    BY <1>7, <1>10 DEF DayInv, Idle, Open
  <2>4. smtp'[s].auth = TRUE /\ smtp'[s].keyed = account.key
    BY <1>2, <1>5, <1>6, <1>10
  <2>5. KeysAgree'
    <3>1. \A t \in SmtpSessions \ {s} : smtp'[t] = smtp[t]
      BY <1>1 DEF OnlyOf
    <3>2. CASE account.key
      BY <1>7, <2>1, <2>4, <3>1, <3>2 DEF KeysAgree
    <3>3. CASE ~account.key
      BY <1>7, <2>1, <2>3, <2>4, <3>1, <3>3 DEF KeysAgree
    <3>. QED
      BY <3>2, <3>3
  <2>. QED
    BY <2>1, <2>2, <2>5
<1>. QED
  BY <1>7, <1>8, <1>9, <1>10 DEF DayInv

\* The end of a session saves what it has enqueued, if its user was logged in.
LEMMA LeaveKeepsDay ==
    ASSUME ServerInv, ServerInv', DayInv, NEW s \in SmtpSessions, Leave(s)
    PROVE  DayInv'
<1>. DEFINE r == smtp[s]
            n == r.sent
<1>1. OnlyOf(s)
  BY OthersTouchNobody
<1>2. r \in Connections /\ n \in Nat /\ account.sent \in Int /\ account.key \in BOOLEAN
  BY DEF ServerInv, Connections
<1>a. n \in Nat
  BY <1>2
<1>3. smtp'[s].pc = "gone" /\ ~smtp'[s].auth /\ ~smtp'[s].keyed /\ smtp'[s].sent = 0
  BY DEF Leave, ServerInv, NewConnection
<1>4. UNCHANGED <<parallel, killed, dayLimit>>
  BY DEF Leave, setup
<1>5. /\ charged' = IF r.auth \/ ~dayLimit THEN charged ELSE charged - n
      /\ account' = IF ~r.auth \/ n = 0 THEN account
                    ELSE [key |-> TRUE, sent |-> IF r.keyed THEN account.sent + n ELSE n]
  BY DEF Leave
<1>6. Idle' /\ charged' \in Int
  BY <1>1, <1>2, <1>3, <1>5 DEF DayInv, Idle, OnlyOf
<1>7. \A t \in SmtpSessions \ {s} : smtp'[t] = smtp[t]
  BY <1>1 DEF OnlyOf
<1>8. ASSUME dayLimit, ~parallel, ~killed PROVE KeysAgree' /\ Saved' + Unsaved' = charged'
  <2>1. KeysAgree /\ Saved + Unsaved = charged /\ charged \in Int
    BY <1>8 DEF DayInv
  <2>a. Saved + Unsaved = charged /\ charged \in Int
    BY <2>1
  <2>2. Unsaved' + n = Unsaved /\ Unsaved \in Nat /\ Unsaved' \in Nat
    BY <1>1, <1>3, UnsavedChanges
  <2>3. CASE ~r.auth
    <3>1. account' = account /\ charged' = charged - n
      BY <1>5, <1>8, <2>3
    <3>2. Saved' = Saved /\ Saved \in Int
      BY <1>2, <3>1 DEF Saved
    <3>3. KeysAgree'
      BY <1>3, <1>7, <2>1, <3>1 DEF KeysAgree
    <3>a. charged' = charged - n
      BY <3>1
    <3>4. Saved' + Unsaved' = charged'
      BY <1>a, <2>a, <2>2, <3>a, <3>2
    <3>. QED
      BY <3>3, <3>4
  <2>4. CASE r.auth /\ n = 0
    <3>1. account' = account /\ charged' = charged
      BY <1>5, <2>4
    <3>2. Saved' = Saved
      BY <3>1 DEF Saved
    <3>3. KeysAgree'
      BY <1>3, <1>7, <2>1, <3>1 DEF KeysAgree
    <3>a. charged' = charged /\ n = 0
      BY <2>4, <3>1
    <3>4. Saved' + Unsaved' = charged'
      BY <1>a, <2>a, <2>2, <3>a, <3>2
    <3>. QED
      BY <3>3, <3>4
  <2>5. CASE r.auth /\ n # 0 /\ r.keyed
    <3>1. account.key /\ account' = [key |-> TRUE, sent |-> account.sent + n] /\ charged' = charged
      BY <1>5, <2>1, <2>5 DEF KeysAgree
    <3>2. Saved' = Saved + n /\ Saved \in Int
      BY <1>2, <3>1 DEF Saved
    <3>3. KeysAgree'
      BY <1>3, <1>7, <2>1, <3>1 DEF KeysAgree
    <3>a. charged' = charged
      BY <3>1
    <3>4. Saved' + Unsaved' = charged'
      BY <1>a, <2>a, <2>2, <3>a, <3>2
    <3>. QED
      BY <3>3, <3>4
  <2>6. CASE r.auth /\ n # 0 /\ ~r.keyed
    <3>1. /\ ~account.key /\ \A t \in SmtpSessions \ {s} : ~smtp[t].auth
          /\ account' = [key |-> TRUE, sent |-> n] /\ charged' = charged
      BY <1>5, <2>1, <2>6 DEF KeysAgree
    <3>2. Saved' = n /\ Saved = 0
      BY <3>1 DEF Saved
    <3>3. KeysAgree'
      BY <1>3, <1>7, <3>1 DEF KeysAgree
    <3>a. charged' = charged
      BY <3>1
    <3>4. Saved' + Unsaved' = charged'
      BY <1>a, <2>a, <2>2, <3>a, <3>2
    <3>. QED
      BY <3>3, <3>4
  <2>. QED
    BY <2>3, <2>4, <2>5, <2>6
<1>. QED
  BY <1>4, <1>6, <1>8 DEF DayInv

\* What a message was enqueued for counts, if all of it or only a part went in.
LEMMA EnqueueKeepsDay ==
    ASSUME ServerInv, ServerInv', DayInv, NEW s \in SmtpSessions, Enqueue(s)
    PROVE  DayInv'
<1>1. OnlyOf(s) /\ smtp \in [SmtpSessions -> Connections] /\ smtp[s] \in Connections /\ smtp[s].pc = "filter"
  BY OthersTouchNobody DEF ServerInv, Enqueue
<1>2. PICK k \in Nat : /\ smtp' = [smtp EXCEPT ![s] = [AfterRset(smtp[s]) EXCEPT !.sent = @ + k]]
                       /\ charged' = IF dayLimit THEN charged + k ELSE charged
  <2>1. Cardinality(smtp[s].rcpts) \in Nat
    BY FS_CardinalityType DEF ServerInv, Asked
  <2>. QED
    BY <2>1 DEF Enqueue
<1>. DEFINE r == AfterRset(smtp[s])
            n == r.sent + k
<1>3. r \in Connections
  BY RsetOK DEF ServerInv, SessionOK
<1>4. r.pc = "command" /\ r.auth = smtp[s].auth /\ r.keyed = smtp[s].keyed /\ r.sent = smtp[s].sent
  BY <1>1 DEF AfterRset, Connections
<1>. HIDE DEF r
<1>5. smtp'[s] = [r EXCEPT !.sent = n]
  BY <1>1, <1>2 DEF r
<1>. HIDE DEF n
<1>6. /\ smtp'[s].pc = "command" /\ smtp'[s].auth = smtp[s].auth /\ smtp'[s].keyed = smtp[s].keyed
      /\ smtp'[s].sent = n
  BY <1>3, <1>4, <1>5 DEF Connections
<1>7. UNCHANGED <<account, parallel, killed, dayLimit>>
  BY DEF Enqueue, setup
<1>8. Idle' /\ (KeysAgree => KeysAgree') /\ Saved' = Saved
  BY <1>1, <1>6, <1>7 DEF DayInv, Idle, KeysAgree, OnlyOf, Saved
<1>9. Unsaved' = Unsaved + k /\ Unsaved \in Nat
  <2>1. n = smtp[s].sent + k /\ smtp[s].sent \in Nat
    BY <1>1, <1>4 DEF n, Connections
  <2>. QED
    BY <1>1, <1>6, <2>1, UnsavedChanges
<1>10. Saved \in Int
  BY DEF Saved, ServerInv
<1>. QED
  BY <1>2, <1>7, <1>8, <1>9, <1>10 DEF DayInv

\* The counter lags behind only as long as nobody has saved, and then agrees.
LEMMA StepsKeepDay ==
    ASSUME ServerInv, ServerInv', DayInv, NEW s \in SmtpSessions, Serve(s)
    PROVE  DayInv'
<1>1. CASE Auth(s)
  BY <1>1, AuthKeepsDay
<1>2. CASE Leave(s)
  BY <1>2, LeaveKeepsDay
<1>3. CASE Enqueue(s)
  BY <1>3, EnqueueKeepsDay
<1>4. CASE Kill(s)
  <2>1. OnlyOf(s)
    BY <1>4, OthersTouchNobody
  <2>2. ~smtp'[s].auth /\ ~smtp'[s].keyed /\ smtp'[s].sent = 0
    BY <1>4 DEF Kill, ServerInv, NewConnection
  <2>3. Idle'
    BY <2>1, <2>2 DEF DayInv, Idle, OnlyOf
  <2>. QED
    BY <1>4, <2>3 DEF Kill, DayInv
<1>5. CASE ~Auth(s) /\ ~Leave(s) /\ ~Enqueue(s) /\ ~Kill(s)
  <2>1. OnlyOf(s) /\ Plain(s)
    BY <1>5, CommandsArePlain, ChecksArePlain DEF Serve
  <2>. QED
    BY <2>1, PlainKeepsDay
<1>. QED
  BY <1>1, <1>2, <1>3, <1>4, <1>5

\* Nothing is charged at first, and the day's key is not there.
LEMMA DayBegins == ServerInit => DayInv
<1>. SUFFICES ASSUME ServerInit PROVE DayInv
  OBVIOUS
<1>. DEFINE f == [s \in SmtpSessions |-> smtp[s].sent]
<1>1. \A s \in SmtpSessions : /\ smtp[s].pc = "new" /\ ~smtp[s].auth /\ ~smtp[s].keyed
                              /\ smtp[s].sent = 0 /\ f[s] = 0
  BY DEF ServerInit, NewConnection
<1>2. Unsaved = SumFunctionOnSet(f, SmtpSessions)
  BY DEF Unsaved, SumFunction
<1>. HIDE DEF f
<1>3. Unsaved = 0
  BY <1>1, <1>2, ServerAssumption, SumZero
<1>4. account.key = FALSE /\ charged = 0 /\ parallel = FALSE /\ killed = FALSE
  BY DEF ServerInit
<1>5. Idle /\ KeysAgree
  BY <1>1 DEF Idle, KeysAgree
<1>6. Saved = 0
  BY <1>4 DEF Saved
<1>7. Saved + Unsaved = charged
  BY <1>3, <1>4, <1>6
<1>8. charged \in Int
  BY <1>4
<1>. QED
  BY <1>4, <1>5, <1>7, <1>8 DEF DayInv

\* today_sent is what the sessions have enqueued, as long as no two of them were
\* logged in before the day's first save and none was killed.
THEOREM ServerTodayCounts == ServerSpec => []TodayCounts
<1>1. DayInv => TodayCounts
  BY DEF DayInv, TodayCounts, Saved, Unsaved
<1>2. ServerInv /\ ServerInv' /\ DayInv /\ [ServerNext]_serverVars => DayInv'
  <2>. SUFFICES ASSUME ServerInv, ServerInv', DayInv, [ServerNext]_serverVars PROVE DayInv'
    OBVIOUS
  <2>1. CASE ServerNext
    BY <2>1, StepsKeepDay DEF ServerNext
  <2>2. CASE UNCHANGED serverVars
    BY <2>2 DEF serverVars, setup, DayInv, Idle, KeysAgree, Saved, Unsaved
  <2>. QED
    BY <2>1, <2>2
<1>. QED
  BY <1>1, <1>2, DayBegins, ServerInvariant, PTL DEF ServerSpec
=============================================================================
