------------------------------ MODULE Supervisor ------------------------------
(***************************************************************************)
(* bms-queue (msgqueue-supervise/main.cpp): the process that starts the    *)
(* queue daemon, waits for it and starts it again, and that passes the     *)
(* signals of the init script on to it.                                    *)
(*                                                                         *)
(* Several invocations of bms-queue may run side by side; each one that    *)
(* gets past the pid file check is a supervisor with a daemon of its own.  *)
(* Signal handlers run between any two steps of the supervisor.  How long  *)
(* a daemon ran is a choice, short or long, made when it is reaped.        *)
(***************************************************************************)
EXTENDS Integers

CONSTANTS
    Starts,      \* invocations of bms-queue
    GiveUpAfter, \* the 6 of "FailCounter >= 6"
    MaxSignals,  \* bound on the signals sent
    None

ASSUME SupervisorAssumption ==
    GiveUpAfter \in Nat \ {0} /\ MaxSignals \in Nat /\ None \notin Starts

VARIABLES
    pidFile,       \* the process named in QUEUE_PID_FILE
    pc,            \* each supervisor
    pQueue,        \* its pid variable: 0, its daemon, or a daemon that is gone
    bStop,         \* its flag of that name
    child,         \* its daemon
    failCounter, firstStart, firstStartSucceeded,
    signals        \* signals sent so far

supervisorVars ==
    <<pidFile, pc, pQueue, bStop, child, failCounter, firstStart, firstStartSucceeded, signals>>
counters == <<failCounter, firstStart, firstStartSucceeded>>

Supervising == {"fork", "assign", "wait", "loop"}
Dead        == {"none", "exited", "launchError", "interrupted", "crashed"}

\* The pid file is there and kill(pid, 0) finds the process it names.
NamesLiveProcess == \E p \in Starts : pidFile = p /\ pc[p] \in Supervising

SupervisorInit ==
    /\ pidFile = None
    /\ pc = [p \in Starts |-> "start"]
    /\ pQueue = [p \in Starts |-> "zero"]
    /\ bStop = [p \in Starts |-> FALSE]
    /\ child = [p \in Starts |-> "none"]
    /\ failCounter = [p \in Starts |-> 0]
    /\ firstStart = [p \in Starts |-> TRUE]
    /\ firstStartSucceeded = [p \in Starts |-> FALSE]
    /\ signals = 0

-----------------------------------------------------------------------------
(* Becoming a supervisor.                                                  *)

\* "already running?": a pid file of a live process ends this one, that of a
\* dead one is removed.
AlreadyRunning(p) ==
    /\ pc[p] = "start"
    /\ NamesLiveProcess
    /\ pc' = [pc EXCEPT ![p] = "refused"]
    /\ UNCHANGED <<pidFile, pQueue, bStop, child, counters, signals>>

NotRunning(p) ==
    /\ pc[p] = "start"
    /\ ~NamesLiveProcess
    /\ pidFile' = None
    /\ pc' = [pc EXCEPT ![p] = "detach"]
    /\ UNCHANGED <<pQueue, bStop, child, counters, signals>>

\* The fork to the background, the signal handlers, and the pid file.
StorePid(p) ==
    /\ pc[p] = "detach"
    /\ pidFile' = p
    /\ pc' = [pc EXCEPT ![p] = "loop"]
    /\ UNCHANGED <<pQueue, bStop, child, counters, signals>>

-----------------------------------------------------------------------------
(* The loop.                                                               *)

\* unlink(QUEUE_PID_FILE) and return.
End(p) ==
    /\ pc' = [pc EXCEPT ![p] = "ended"]
    /\ pidFile' = None

\* Mutant: a stop request ends the wait for the daemon, too.
StopWithoutWaiting(p) ==
    /\ pc[p] \in {"loop", "wait"} /\ bStop[p]
    /\ End(p)
    /\ UNCHANGED <<pQueue, bStop, child, counters, signals>>

\* Mutant: the loop does not look at bStop.
ContinueUnasked(p) ==
    /\ pc[p] = "loop"
    /\ pc' = [pc EXCEPT ![p] = "fork"]
    /\ UNCHANGED <<pidFile, pQueue, bStop, child, counters, signals>>

\* while(!bStop)
Continue(p) ==
    /\ pc[p] = "loop" /\ ~bStop[p]
    /\ pc' = [pc EXCEPT ![p] = "fork"]
    /\ UNCHANGED <<pidFile, pQueue, bStop, child, counters, signals>>

Stop(p) ==
    /\ pc[p] = "loop" /\ bStop[p]
    /\ End(p)
    /\ UNCHANGED <<pQueue, bStop, child, counters, signals>>

\* fork() makes the daemon's process ...
Fork(p) ==
    /\ pc[p] = "fork"
    /\ child' = [child EXCEPT ![p] = "forked"]
    /\ pc' = [pc EXCEPT ![p] = "assign"]
    /\ UNCHANGED <<pidFile, pQueue, bStop, counters, signals>>

\* ... or fails; the pid is then -1.
ForkFails(p) ==
    /\ pc[p] = "fork"
    /\ pc' = [pc EXCEPT ![p] = "assign"]
    /\ UNCHANGED <<pidFile, pQueue, bStop, child, counters, signals>>

\* The pid is assigned.
Assign(p) ==
    /\ pc[p] = "assign"
    /\ pQueue' = [pQueue EXCEPT ![p] = "daemon"]
    /\ pc' = [pc EXCEPT ![p] = "wait"]
    /\ UNCHANGED <<pidFile, bStop, child, counters, signals>>

\* waitpid() fails: there is nobody to wait for, because fork() failed, or because
\* bms-queue was started with SIGCHLD ignored and the daemon has ended by itself.
\* (A signal does not interrupt it: signal() sets handlers that restart it.)
WaitFails(p) ==
    /\ pc[p] = "wait" /\ child[p] \in Dead
    /\ End(p)
    /\ child' = [child EXCEPT ![p] = "none"]
    /\ pQueue' = [pQueue EXCEPT ![p] = "gone"]
    /\ UNCHANGED <<bStop, counters, signals>>

\* waitpid() returns a daemon that could not be launched, or that was killed by
\* SIGINT: the supervisor ends.
ReapLast(p) ==
    /\ pc[p] = "wait" /\ child[p] \in {"launchError", "interrupted"}
    /\ End(p)
    /\ child' = [child EXCEPT ![p] = "none"]
    /\ pQueue' = [pQueue EXCEPT ![p] = "gone"]
    /\ UNCHANGED <<bStop, counters, signals>>

\* FailCounter as the last comparison sees it (counted no further than needed).
Failures(p, short) ==
    IF ~short THEN 0 ELSE IF failCounter[p] < GiveUpAfter THEN failCounter[p] + 1 ELSE GiveUpAfter

\* It returns any other daemon: its end is counted, and either the supervisor
\* gives up or the loop goes on.
Reap(p) ==
    /\ pc[p] = "wait" /\ child[p] \in {"exited", "crashed"}
    /\ child' = [child EXCEPT ![p] = "none"]
    /\ pQueue' = [pQueue EXCEPT ![p] = "gone"]
    /\ firstStart' = [firstStart EXCEPT ![p] = FALSE]
    /\ \E short \in BOOLEAN :
          /\ failCounter' = [failCounter EXCEPT ![p] = Failures(p, short)]
          /\ firstStartSucceeded' =
                [firstStartSucceeded EXCEPT ![p] = @ \/ (~short /\ firstStart[p])]
    /\ IF failCounter'[p] >= GiveUpAfter /\ ~firstStartSucceeded'[p]
       THEN End(p)
       ELSE pc' = [pc EXCEPT ![p] = "loop"] /\ UNCHANGED pidFile
    /\ UNCHANGED <<bStop, signals>>

\* The supervisor itself is killed: its pid file and its daemon stay behind.
Killed(p) ==
    /\ pc[p] \in Supervising
    /\ pc' = [pc EXCEPT ![p] = "killed"]
    /\ UNCHANGED <<pidFile, pQueue, bStop, child, counters, signals>>

-----------------------------------------------------------------------------
(* The daemon's process (main.cpp and MSGQueue::Run, as far as they matter). *)

ChildTo(p, state) ==
    /\ child' = [child EXCEPT ![p] = state]
    /\ UNCHANGED <<pidFile, pc, pQueue, bStop, counters, signals>>

Exec(p)       == child[p] = "forked" /\ ChildTo(p, "execed")
ExecFails(p)  == child[p] = "forked" /\ ChildTo(p, "launchError")
\* MSGQueue::Run sets its signal handlers ...
HandlersSet(p) == child[p] = "execed" /\ ChildTo(p, "running")
\* ... unless no database is there.
StartFails(p) == child[p] = "execed" /\ ChildTo(p, "exited")
Crash(p)      == child[p] \in {"execed", "running", "quitting"} /\ ChildTo(p, "crashed")
\* restart_msgqueue, or a control thread that ended.
QuitsItself(p) == child[p] = "running" /\ ChildTo(p, "quitting")
Finish(p)     == child[p] = "quitting" /\ ChildTo(p, "exited")

-----------------------------------------------------------------------------
(* Signals, sent to the process in the pid file.                           *)

\* What SIGINT does to the daemon's process: before execl it runs the handler
\* inherited from the supervisor, which does nothing there; before the daemon
\* sets its handlers it kills; then it is the request to quit.
Interrupted(state) ==
    CASE state = "execed"  -> "interrupted"
      [] state = "running" -> "quitting"
      [] OTHER             -> state

\* SignalHandler: SIGTERM and SIGINT set bStop, SIGHUP clears it; all of them
\* interrupt the daemon if its pid is known.
SendSignal(p, stop) ==
    /\ pidFile = p /\ pc[p] \in Supervising
    /\ signals < MaxSignals
    /\ signals' = signals + 1
    /\ bStop' = [bStop EXCEPT ![p] = stop]
    /\ child' = [child EXCEPT ![p] = IF pQueue[p] = "daemon" THEN Interrupted(@) ELSE @]
    /\ UNCHANGED <<pidFile, pc, pQueue, counters>>

-----------------------------------------------------------------------------
SupervisorStep(p) ==
    \/ AlreadyRunning(p) \/ NotRunning(p) \/ StorePid(p)
    \/ Continue(p) \/ Stop(p) \/ Fork(p) \/ ForkFails(p) \/ Assign(p)
    \/ WaitFails(p) \/ ReapLast(p) \/ Reap(p)

\* What a daemon that was asked to end, or that is starting, does by itself.
ChildProgress(p) == Exec(p) \/ HandlersSet(p) \/ Finish(p)

ChildStep(p) == ChildProgress(p) \/ ExecFails(p) \/ StartFails(p) \/ Crash(p) \/ QuitsItself(p)

SupervisorNext ==
    \E p \in Starts :
        \/ SupervisorStep(p) \/ ChildStep(p) \/ Killed(p)
        \/ SendSignal(p, TRUE) \/ SendSignal(p, FALSE)

SupervisorSpec == SupervisorInit /\ [][SupervisorNext]_supervisorVars

\* Processes are scheduled; a daemon that quits gets there (see DaemonThreads,
\* StopsOnceUp, also for the three waits that may keep it).
SupervisorFairSpec ==
    /\ SupervisorSpec
    /\ \A p \in Starts : WF_supervisorVars(SupervisorStep(p)) /\ WF_supervisorVars(ChildProgress(p))

-----------------------------------------------------------------------------
SupervisorTypeOK ==
    /\ pidFile \in Starts \cup {None}
    /\ pc \in [Starts -> {"start", "refused", "detach", "ended", "killed"} \cup Supervising]
    /\ pQueue \in [Starts -> {"zero", "daemon", "gone"}]
    /\ bStop \in [Starts -> BOOLEAN]
    /\ child \in [Starts -> Dead \cup {"forked", "execed", "running", "quitting"}]
    /\ failCounter \in [Starts -> 0..GiveUpAfter]
    /\ firstStart \in [Starts -> BOOLEAN] /\ firstStartSucceeded \in [Starts -> BOOLEAN]
    /\ signals \in 0..MaxSignals

\* A supervisor never has two daemons and never leaves one behind: when it is
\* about to fork, or has ended, its last daemon is gone.
NoOrphan == \A p \in Starts : pc[p] \in {"ended", "fork", "loop"} => child[p] = "none"

\* A stop request that the daemon has got is carried out, unless a SIGHUP
\* revokes it.
StopIsCarriedOut ==
    \A p \in Starts :
        (bStop[p] /\ child[p] = "quitting") ~> (pc[p] \in {"ended", "killed"} \/ ~bStop[p])
=============================================================================
