----------------------------- MODULE InboundPipe -----------------------------
(***************************************************************************)
(* Local delivery (MSGQueue::ProcessInbound in msgqueue_inbound.cpp,       *)
(* InboundProcess, InboundProcessPool, Core::Process in process.cpp and    *)
(* Utils::POpen in utils.cpp): workers hand messages to child processes    *)
(* that run pipe.php, a new one for each message or, with                  *)
(* inbound_reuse_process, one that is kept in a pool.                      *)
(*                                                                         *)
(* The kernel's side is modelled as far as the code depends on it: a child *)
(* that has ended keeps its pid until waitpid() takes it, then any process *)
(* may get the pid; a child inherits the write ends of the pipes that are  *)
(* open when it is forked, and only sees the end of its input when nobody  *)
(* holds the other end.  The commands to a kept child are one exchange.    *)
(***************************************************************************)
EXTENDS Integers, Sequences, FiniteSets

CONSTANTS
    Porters,  \* threads of the pool that deliver locally
    Parcels,  \* messages for local users
    Children, \* child processes alive at one time (a bound)
    Pids,     \* process ids
    NoChild   \* NULL

ASSUME PipeAssumption == NoChild \notin Children /\ Cardinality(Porters) <= Cardinality(Children)

VARIABLES
    keepAlive, \* inbound_reuse_process
    timed,     \* the wait for a child's end is limited: always for a kept one, by queue_timeout
               \* (unless it is 0) for a new one
    parcel,    \* status of each message: "queued", "working" or "success"
    stored,    \* ghost: messages a child has stored
    porter,    \* where each worker is, with which message and child, and why it closes one
    idle,      \* the pool: children kept for later, oldest first
    child,     \* the child processes
    strangers, \* pids of processes that are not children of the daemon
    stray,     \* ghost: how the child had been waited for when a signal for it hit another process
    stolen     \* ghost: a worker has waited for another one's child

pipeVars == <<keepAlive, timed, parcel, stored, porter, idle, child, strangers, stray, stolen>>
pipeConfig == <<keepAlive, timed>>
pipeGhosts == <<stray, stolen>>

AtRest == [at |-> "free", mail |-> "none", child |-> NoChild, why |-> "none"]

\* state: "none", "running", how it ended ("ok" or "bad"), or "reaped", by what kind
\* of wait.  writers: who can write to its input; NoChild stands for the daemon.
NoProcess == [pid |-> "none", state |-> "none", by |-> "none", writers |-> {}, talk |-> "none"]

PipeInit ==
    /\ keepAlive \in BOOLEAN /\ timed \in BOOLEAN /\ (keepAlive => timed)
    /\ parcel = [m \in Parcels |-> "queued"] /\ stored = {}
    /\ porter = [w \in Porters |-> AtRest]
    /\ idle = <<>> /\ child = [c \in Children |-> NoProcess] /\ strangers = {}
    /\ stray = {} /\ stolen = FALSE

Running(c) == child[c].state = "running"

Zombie(c) == child[c].state \in {"ok", "bad"}

\* The child, running or not yet waited for, that has this pid.
Holder(p) == {c \in Children : child[c].pid = p /\ (Running(c) \/ Zombie(c))}

InUse(p) == p \in strangers \/ Holder(p) # {}

PidOf(w) == child[porter[w].child].pid

\* What waitpid() finds for worker w.
Waiting(w) == {c \in Holder(PidOf(w)) : Zombie(c)}

\* It takes what has ended, be it another worker's child.
Reaped(w, kind) ==
    [c \in Children |->
        IF c \in Waiting(w)
        THEN [child[c] EXCEPT !.state = "reaped", !.by = IF c = porter[w].child THEN kind ELSE "other"]
        ELSE child[c]]

Steals(w) == stolen' = (stolen \/ Waiting(w) \ {porter[w].child} # {})

\* The process object is gone; so is the child, if it was waited for.
Without(ch, c) == IF ch[c].state = "reaped" THEN [ch EXCEPT ![c] = NoProcess] ELSE ch

\* c ends: its ends of all pipes are closed.
Dead(c, how) ==
    [d \in Children |-> IF d = c THEN [child[d] EXCEPT !.state = how]
                        ELSE [child[d] EXCEPT !.writers = @ \ {c}]]

GoTo(w, step) == porter' = [porter EXCEPT ![w].at = step]

\* The worker closes the child; "why" says what for.
CloseFor(w, why) == porter' = [porter EXCEPT ![w].at = "close", ![w].why = why]

\* The attempt is over; "queued" is a temporary error, there is no other.
Finish(w, status) ==
    /\ parcel' = [parcel EXCEPT ![porter[w].mail] = status]
    /\ porter' = [porter EXCEPT ![w] = AtRest]

-----------------------------------------------------------------------------
(* InboundProcess.                                                         *)

\* The queue file is opened; the child is the oldest in the pool, if any.  Which
\* message is dispatched first makes no difference.
StartParcel(w) ==
    /\ porter[w].at = "free"
    /\ \E m \in Parcels : parcel[m] = "queued"
    /\ LET m == CHOOSE n \in Parcels : parcel[n] = "queued" IN
          /\ parcel' = [parcel EXCEPT ![m] = "working"]
          /\ porter' = [porter EXCEPT ![w] =
                [AtRest EXCEPT !.at = IF idle = <<>> THEN "open" ELSE "begin", !.mail = m,
                               !.child = IF idle = <<>> THEN NoChild ELSE Head(idle)]]
    /\ idle' = IF idle = <<>> THEN idle ELSE Tail(idle)
    /\ UNCHANGED <<pipeConfig, stored, child, strangers, pipeGhosts>>

\* IsRunning: kill(pid, 0) finds somebody, and waitpid() does not take the child.
IsRunning(w) == InUse(PidOf(w)) /\ Waiting(w) = {}

BeginChild(w) ==
    /\ porter[w].at = "begin"
    /\ IF IsRunning(w) THEN GoTo(w, "again") ELSE CloseFor(w, "begin")
    /\ child' = Reaped(w, "isRunning") /\ Steals(w)
    /\ UNCHANGED <<pipeConfig, parcel, stored, idle, strangers, stray>>

\* IsRunning is asked a second time; if the child has ended in between, a new one
\* takes its place and the Process object is lost.
BeginAgain(w) ==
    /\ porter[w].at = "again"
    /\ Steals(w)
    /\ IF IsRunning(w)
       THEN GoTo(w, "deliver") /\ UNCHANGED child
       ELSE /\ porter' = [porter EXCEPT ![w].at = "open", ![w].child = NoChild]
            /\ child' = Without(Reaped(w, "isRunning"), porter[w].child)
    /\ UNCHANGED <<pipeConfig, parcel, stored, idle, strangers, stray>>

\* POpen: the new child inherits the daemon's ends of the other pipes.  (Followed
\* for children used once; a kept one may end at any time.)
Open(w) ==
    LET c == CHOOSE free \in Children : child[free].state = "none"
        inherits(d) == IF NoChild \in child[d].writers THEN [child[d] EXCEPT !.writers = @ \cup {c}]
                       ELSE child[d]
    IN  /\ porter[w].at = "open" /\ \E d \in Children : child[d].state = "none"
        /\ \E p \in {q \in Pids : ~InUse(q)} :
              child' = [d \in Children |->
                  IF d = c THEN [NoProcess EXCEPT !.pid = p, !.state = "running",
                                                  !.writers = IF keepAlive THEN {} ELSE {NoChild}]
                  ELSE inherits(d)]
        /\ porter' = [porter EXCEPT ![w].at = "deliver", ![w].child = c]
        /\ UNCHANGED <<pipeConfig, parcel, stored, idle, strangers, pipeGhosts>>

OpenChildFails(w) ==
    /\ porter[w].at = "open"
    /\ Finish(w, "queued")
    /\ UNCHANGED <<pipeConfig, stored, idle, child, strangers, pipeGhosts>>

\* The message is written: to a kept child with commands around it, to a new one
\* until its input is closed.
HandOver(w) ==
    /\ porter[w].at = "deliver"
    /\ child' = [child EXCEPT ![porter[w].child].talk = "asked"]
    /\ IF keepAlive THEN GoTo(w, "reply") ELSE CloseFor(w, "result")
    /\ UNCHANGED <<pipeConfig, parcel, stored, idle, strangers, pipeGhosts>>

\* Mutant: the daemon keeps the other end of the child's output open.
ReadReplyNoEnd(w) ==
    LET c == porter[w].child IN
    /\ porter[w].at = "reply"
    /\ \/ /\ child[c].talk = "250"
          /\ Finish(w, "success") /\ idle' = Append(idle, c)
          /\ child' = [child EXCEPT ![c].talk = "none"]
       \/ child[c].talk = "error" /\ CloseFor(w, "failed") /\ UNCHANGED <<parcel, idle, child>>
    /\ UNCHANGED <<pipeConfig, stored, strangers, pipeGhosts>>

\* fgets() without a time-out: the child's answer, or the end of its output.  After
\* anything but a 250 the child is not used again.
ReadReply(w) ==
    LET c == porter[w].child IN
    /\ porter[w].at = "reply"
    /\ \/ /\ child[c].talk = "250"
          /\ Finish(w, "success") /\ idle' = Append(idle, c)
          /\ child' = [child EXCEPT ![c].talk = "none"]
       \/ /\ child[c].talk = "error" \/ (child[c].talk = "asked" /\ ~Running(c))
          /\ CloseFor(w, "failed") /\ UNCHANGED <<parcel, idle, child>>
    /\ UNCHANGED <<pipeConfig, stored, strangers, pipeGhosts>>

-----------------------------------------------------------------------------
(* Process::Close and EndProcess.                                          *)

\* The daemon's end of the child's input is closed.
CloseInput(w) ==
    /\ porter[w].at = "close"
    /\ child' = [child EXCEPT ![porter[w].child].writers = @ \ {NoChild}]
    /\ GoTo(w, "wait")
    /\ UNCHANGED <<pipeConfig, parcel, stored, idle, strangers, pipeGhosts>>

\* Mutant: the exit status is not looked at.
StatusOfAny(how) == IF how = "killed" THEN "queued" ELSE "success"

\* What a child used once says by the way it ended, or by having to be killed.
StatusOf(how) == IF how = "ok" THEN "success" ELSE "queued"

\* The child is closed: the session begins, or the attempt is over.
ChildClosed(w, how) ==
    \/ /\ porter[w].why = "begin"
       /\ porter' = [porter EXCEPT ![w].at = "open", ![w].child = NoChild, ![w].why = "none"]
       /\ UNCHANGED parcel
    \/ porter[w].why = "failed" /\ Finish(w, "queued")
    \/ porter[w].why = "result" /\ Finish(w, StatusOf(how))

\* Mutant: timeout stays true.
WaitOverTimeout(w) ==
    /\ porter[w].at = "wait" /\ Waiting(w) # {}
    /\ child' = Reaped(w, "close") /\ Steals(w)
    /\ GoTo(w, "signal")
    /\ UNCHANGED <<pipeConfig, parcel, stored, idle, strangers, stray>>

\* waitpid(pid, WNOHANG) has taken a child.
WaitOver(w) ==
    /\ porter[w].at = "wait"
    /\ \E c \in Waiting(w) : ChildClosed(w, child[c].state)
    /\ child' = Without(Reaped(w, "close"), porter[w].child) /\ Steals(w)
    /\ UNCHANGED <<pipeConfig, stored, idle, strangers, stray>>

\* closeTimeout is over.
WaitTimesOut(w) ==
    /\ porter[w].at = "wait" /\ timed
    /\ GoTo(w, "signal")
    /\ UNCHANGED <<pipeConfig, parcel, stored, idle, child, strangers, pipeGhosts>>

\* kill(pid, sig): whoever has the pid.  A child may outlive SIGTERM.
Signal(w, deadly) ==
    LET hit == {c \in Holder(PidOf(w)) : Running(c)} IN
    /\ stray' = IF PidOf(w) \in strangers \/ hit \ {porter[w].child} # {}
                THEN stray \cup {child[porter[w].child].by} ELSE stray
    /\ \/ \E c \in hit : child' = Dead(c, "bad")
       \/ (hit = {} \/ ~deadly) /\ UNCHANGED child
    /\ UNCHANGED <<pipeConfig, parcel, stored, idle, strangers, stolen>>

SendTerm(w) == porter[w].at = "signal" /\ Signal(w, FALSE) /\ GoTo(w, "term")

\* For 5 s: waitpid(pid, WNOHANG), whatever it returns, ...
TermReap(w) ==
    /\ porter[w].at = "term" /\ Waiting(w) # {}
    /\ child' = Reaped(w, "term") /\ Steals(w)
    /\ UNCHANGED <<pipeConfig, parcel, stored, porter, idle, strangers, stray>>

\* ... until kill(pid, 0) finds nobody.
TermGone(w) ==
    /\ porter[w].at = "term" /\ ~InUse(PidOf(w))
    /\ GoTo(w, "final")
    /\ UNCHANGED <<pipeConfig, parcel, stored, idle, child, strangers, pipeGhosts>>

SendKill(w) == porter[w].at = "term" /\ Signal(w, TRUE) /\ GoTo(w, "final")

\* Mutant: the worker does not wait for the child it has killed.
FinalWaitNot(w) ==
    /\ porter[w].at = "final"
    /\ ChildClosed(w, "killed")
    /\ child' = Without(child, porter[w].child)
    /\ UNCHANGED <<pipeConfig, stored, idle, strangers, pipeGhosts>>

\* waitpid(pid) blocks as long as a child with this pid runs.
FinalWait(w) ==
    /\ porter[w].at = "final" /\ Holder(PidOf(w)) = Waiting(w)
    /\ ChildClosed(w, "killed")
    /\ child' = Without(Reaped(w, "final"), porter[w].child) /\ Steals(w)
    /\ UNCHANGED <<pipeConfig, stored, idle, strangers, stray>>

-----------------------------------------------------------------------------
(* The children and the rest of the machine.                               *)

\* The message a running child has been given.
Given(c) == {porter[w].mail : w \in {v \in Porters : porter[v].child = c}}

\* A kept child answers.  It stores a message before it says so.
Answers(c) ==
    /\ Running(c) /\ keepAlive /\ child[c].talk = "asked"
    /\ \E reply \in {"250", "error"} :
          /\ child' = [child EXCEPT ![c].talk = reply]
          /\ stored' = IF reply = "250" THEN stored \cup Given(c) ELSE stored
    /\ UNCHANGED <<pipeConfig, parcel, porter, idle, strangers, pipeGhosts>>

\* A child used once reads to the end of its input, stores the message and ends.
Stores(c) ==
    /\ Running(c) /\ ~keepAlive /\ child[c].talk = "asked" /\ child[c].writers = {}
    /\ child' = Dead(c, "ok")
    /\ stored' = stored \cup Given(c)
    /\ UNCHANGED <<pipeConfig, parcel, porter, idle, strangers, pipeGhosts>>

\* A child ends without having done its work, or idle.
Ends(c) ==
    /\ Running(c)
    /\ child' = Dead(c, "bad")
    /\ UNCHANGED <<pipeConfig, parcel, stored, porter, idle, strangers, pipeGhosts>>

\* Another process starts or ends.
Stranger(p) ==
    /\ \/ ~InUse(p) /\ strangers' = strangers \cup {p}
       \/ p \in strangers /\ strangers' = strangers \ {p}
    /\ UNCHANGED <<pipeConfig, parcel, stored, porter, idle, child, pipeGhosts>>

Carry(w) ==
    \/ BeginChild(w) \/ BeginAgain(w) \/ Open(w) \/ OpenChildFails(w) \/ HandOver(w) \/ ReadReply(w)
    \/ CloseInput(w) \/ WaitOver(w) \/ WaitTimesOut(w) \/ SendTerm(w) \/ TermReap(w) \/ TermGone(w)
    \/ SendKill(w) \/ FinalWait(w)

PipeNext ==
    \/ \E w \in Porters : StartParcel(w) \/ Carry(w)
    \/ \E c \in Children : Answers(c) \/ Stores(c) \/ Ends(c)
    \/ \E p \in Pids : Stranger(p)

\* A child that has been given a message, and used once its end, stores it, answers
\* or ends: pipe.php has a time-out of its own.
Works(c) ==
    /\ child[c].talk = "asked" /\ child[c].writers = {}
    /\ Answers(c) \/ Stores(c) \/ Ends(c)

\* The loop after SIGTERM lasts 5 s.
TermOver(w) == TermGone(w) \/ SendKill(w)

PipeFairness ==
    /\ \A w \in Porters : WF_pipeVars(Carry(w)) /\ WF_pipeVars(TermOver(w))
    /\ \A c \in Children : WF_pipeVars(Works(c))

-----------------------------------------------------------------------------
\* The worker waits for a pid that has passed to another worker's child.
WaitsForAnother(w) ==
    porter[w].at = "final" /\ child[porter[w].child].state = "reaped" /\ Holder(PidOf(w)) # {}

\* Every attempt ends, although the children inherit each other's pipes and
\* nothing limits the wait for an answer or, without queue_timeout, for the end;
\* except for a worker whose last waitpid() is for another worker's child.
CarriersReturn ==
    \A w \in Porters : porter[w].at = "deliver" ~> porter[w].at = "free" \/ WaitsForAnother(w)

\* A message is only reported delivered if a child has stored it; except after a
\* worker has waited for a pid that had passed to another worker's child.
DeliveredIsStored == ~stolen => \A m \in Parcels : parcel[m] = "success" => m \in stored

Owned == {porter[w].child : w \in Porters} \cup {idle[i] : i \in DOMAIN idle}

\* No child is left behind: who is not with a worker or in the pool has been waited for.
NoZombieLeft == \A c \in Children : c \in Owned \/ child[c].state = "none"

\* A signal meant for a child only reaches another process if the child had been
\* taken by IsRunning, while waiting for SIGTERM to work, or by another worker's
\* waitpid() for the same pid; never once Close has taken it.
StraySignals == stray \subseteq {"isRunning", "term", "other"}
=============================================================================
