--------------------------- MODULE LifecycleProofs ---------------------------
(***************************************************************************)
(* What holds of the processes and threads of the queue in every behaviour *)
(* of Supervisor and of DaemonThreads: of bms-queue for any number of      *)
(* invocations, signals and restarts; of the daemon's loop (QueueLoop) for *)
(* any limits and any number of rows, and of the end of its threads.       *)
(*                                                                         *)
(* NoOrphan speaks of the places where a daemon that is left would be      *)
(* lost.  That it is so there depends on every place before: a process has *)
(* no daemon until it forks (Childless), and a daemon whose process is     *)
(* gone does not come back to life by itself or by a signal.               *)
(*                                                                         *)
(* For the loop the invariant is Told: whenever rows are left and the loop *)
(* is not on its way to read them, something will lead it there.  It holds *)
(* because the file is watched except between the renewal's two calls, and *)
(* the rows are read after them.  For the end it is Joined: how far the    *)
(* main thread can be while each of the others is where it is.             *)
(***************************************************************************)
EXTENDS Supervisor, DaemonThreads, TLAPS

-----------------------------------------------------------------------------
\* bms-queue.

\* A process that has not forked, or has reaped, has no daemon.
Childless == {"start", "refused", "detach", "loop", "fork", "ended"}

HasNoChild == \A p \in Starts : pc[p] \in Childless => child[p] = "none"

SupervisorInv == SupervisorTypeOK /\ HasNoChild

\* failCounter does not go beyond what is compared.
LEMMA FailuresCount ==
    ASSUME SupervisorTypeOK, NEW p \in Starts, NEW short \in BOOLEAN
    PROVE  Failures(p, short) \in 0..GiveUpAfter
BY SupervisorAssumption DEF SupervisorTypeOK, Failures

\* A signal makes no daemon of a process that is none.
LEMMA InterruptedStates ==
    ASSUME NEW state \in Dead \cup {"forked", "execed", "running", "quitting"}
    PROVE  /\ Interrupted(state) \in Dead \cup {"forked", "execed", "running", "quitting"}
           /\ state = "none" <=> Interrupted(state) = "none"
BY DEF Dead, Interrupted

\* Types.
LEMMA TypesKept == SupervisorTypeOK /\ SupervisorNext => SupervisorTypeOK'
<1>. SUFFICES ASSUME SupervisorTypeOK, NEW p \in Starts,
                     SupervisorStep(p) \/ ChildStep(p) \/ Killed(p)
                        \/ SendSignal(p, TRUE) \/ SendSignal(p, FALSE)
              PROVE  SupervisorTypeOK'
  BY DEF SupervisorNext
<1>. USE DEF SupervisorTypeOK
<1>1. CASE AlreadyRunning(p) \/ NotRunning(p) \/ StorePid(p)
  BY <1>1 DEF AlreadyRunning, NotRunning, StorePid, counters, Supervising
<1>2. CASE Continue(p) \/ Stop(p)
  BY <1>2 DEF Continue, Stop, End, counters, Supervising
<1>3. CASE Fork(p) \/ ForkFails(p) \/ Assign(p)
  BY <1>3 DEF Fork, ForkFails, Assign, counters, Supervising
<1>4. CASE ReapLast(p) \/ WaitFails(p)
  BY <1>4 DEF ReapLast, WaitFails, End, counters, Supervising, Dead
<1>5. CASE Reap(p)
  <2>1. PICK short \in BOOLEAN :
           /\ failCounter' = [failCounter EXCEPT ![p] = Failures(p, short)]
           /\ firstStartSucceeded' = [firstStartSucceeded EXCEPT ![p] = @ \/ (~short /\ firstStart[p])]
    BY <1>5 DEF Reap
  <2>2. failCounter' \in [Starts -> 0..GiveUpAfter]
    BY <2>1, FailuresCount
  <2>3. firstStartSucceeded' \in [Starts -> BOOLEAN]
    BY <2>1
  <2>4. /\ child' = [child EXCEPT ![p] = "none"] /\ pQueue' = [pQueue EXCEPT ![p] = "gone"]
        /\ firstStart' = [firstStart EXCEPT ![p] = FALSE]
        /\ UNCHANGED <<bStop, signals>>
    BY <1>5 DEF Reap
  <2>5. \/ End(p)
        \/ pc' = [pc EXCEPT ![p] = "loop"] /\ UNCHANGED pidFile
    BY <1>5 DEF Reap
  <2>6. /\ pidFile' \in Starts \cup {None}
        /\ pc' \in [Starts -> {"start", "refused", "detach", "ended", "killed"} \cup Supervising]
    BY <2>5 DEF End, Supervising
  <2>. QED
    BY <2>2, <2>3, <2>4, <2>6 DEF Dead
<1>6. CASE Killed(p)
  BY <1>6 DEF Killed, counters
<1>7. CASE ChildStep(p)
  <2>1. PICK state \in {"execed", "launchError", "running", "exited", "crashed", "quitting"} :
           ChildTo(p, state)
    BY <1>7 DEF ChildStep, ChildProgress, Exec, HandlersSet, Finish, ExecFails, StartFails, Crash,
                QuitsItself
  <2>. QED
    BY <2>1 DEF ChildTo, counters, Dead
<1>8. ASSUME NEW stop \in BOOLEAN, SendSignal(p, stop) PROVE SupervisorTypeOK'
  <2>1. child' \in [Starts -> Dead \cup {"forked", "execed", "running", "quitting"}]
    <3>1. Interrupted(child[p]) \in Dead \cup {"forked", "execed", "running", "quitting"}
      BY InterruptedStates
    <3>. QED
      BY <1>8, <3>1 DEF SendSignal
  <2>2. signals' \in 0..MaxSignals
    BY <1>8, SupervisorAssumption DEF SendSignal
  <2>. QED
    BY <1>8, <2>1, <2>2 DEF SendSignal, counters
<1>. QED
  BY <1>1, <1>2, <1>3, <1>4, <1>5, <1>6, <1>7, <1>8 DEF SupervisorStep

\* Only fork() gives a process a daemon, and what is done after it is done with
\* the daemon or after it was reaped.
LEMMA NoChildKept == SupervisorInv /\ SupervisorNext => HasNoChild'
<1>. SUFFICES ASSUME SupervisorTypeOK, HasNoChild, NEW p \in Starts,
                     SupervisorStep(p) \/ ChildStep(p) \/ Killed(p)
                        \/ SendSignal(p, TRUE) \/ SendSignal(p, FALSE)
              PROVE  HasNoChild'
  BY DEF SupervisorInv, SupervisorNext
<1>0. /\ pc \in [Starts -> {"start", "refused", "detach", "ended", "killed"} \cup Supervising]
      /\ child \in [Starts -> Dead \cup {"forked", "execed", "running", "quitting"}]
  BY DEF SupervisorTypeOK
<1>. USE DEF HasNoChild, Childless
<1>1. CASE AlreadyRunning(p) \/ NotRunning(p) \/ StorePid(p)
  BY <1>0, <1>1 DEF AlreadyRunning, NotRunning, StorePid
<1>2. CASE Continue(p) \/ Stop(p)
  BY <1>0, <1>2 DEF Continue, Stop, End
<1>3. CASE Fork(p)
  BY <1>0, <1>3 DEF Fork
<1>4. CASE ForkFails(p) \/ Assign(p)
  BY <1>0, <1>4 DEF ForkFails, Assign
<1>5. CASE ReapLast(p) \/ Reap(p) \/ WaitFails(p)
  <2>1. /\ child' = [child EXCEPT ![p] = "none"]
        /\ \E place : pc' = [pc EXCEPT ![p] = place]
    BY <1>5 DEF ReapLast, Reap, WaitFails, End
  <2>. QED
    BY <1>0, <2>1
<1>6. CASE Killed(p)
  BY <1>0, <1>6 DEF Killed
<1>7. CASE ChildStep(p)
  <2>1. child[p] # "none" /\ \E state : ChildTo(p, state)
    BY <1>7 DEF ChildStep, ChildProgress, Exec, HandlersSet, Finish, ExecFails, StartFails, Crash,
                QuitsItself
  <2>. QED
    BY <1>0, <2>1 DEF ChildTo
<1>8. ASSUME NEW stop \in BOOLEAN, SendSignal(p, stop) PROVE HasNoChild'
  <2>1. /\ pc' = pc
        /\ child' = [child EXCEPT ![p] = IF pQueue[p] = "daemon" THEN Interrupted(child[p]) ELSE child[p]]
    BY <1>8 DEF SendSignal
  <2>2. child[p] = "none" <=> Interrupted(child[p]) = "none"
    BY <1>0, InterruptedStates
  <2>. QED
    BY <1>0, <2>1, <2>2
<1>. QED
  BY <1>1, <1>2, <1>3, <1>4, <1>5, <1>6, <1>7, <1>8 DEF SupervisorStep

\* The invariant holds always.
LEMMA SupervisorInvariant == SupervisorSpec => []SupervisorInv
<1>1. SupervisorInit => SupervisorInv
  BY SupervisorAssumption DEF SupervisorInit, SupervisorInv, SupervisorTypeOK, HasNoChild, Dead
<1>2. SupervisorInv /\ [SupervisorNext]_supervisorVars => SupervisorInv'
  <2>1. CASE SupervisorNext
    BY <2>1, TypesKept, NoChildKept DEF SupervisorInv
  <2>2. CASE UNCHANGED supervisorVars
    BY <2>2 DEF SupervisorInv, SupervisorTypeOK, HasNoChild, supervisorVars, counters
  <2>. QED
    BY <2>1, <2>2
<1>. QED
  BY <1>1, <1>2, PTL DEF SupervisorSpec

\* The variables of bms-queue and what is known of its daemon keep to their types.
THEOREM SupervisorTypes == SupervisorSpec => []SupervisorTypeOK
BY SupervisorInvariant, PTL DEF SupervisorInv

\* bms-queue never forks while it has a daemon, and never ends and leaves one:
\* it waits for each before it looks at bStop or counts a failure.
THEOREM SupervisorNoOrphan == SupervisorSpec => []NoOrphan
<1>1. SupervisorInv => NoOrphan
  BY DEF SupervisorInv, HasNoChild, NoOrphan, Childless
<1>. QED
  BY <1>1, SupervisorInvariant, PTL

-----------------------------------------------------------------------------
\* The daemon's loop.

\* rows are counted once: not yet dispatched, in the pool or done.
Counted == rows + inPool <= enqueued /\ untouched <= enqueued /\ enqueued <= MaxRows

LoopTypes ==
    /\ loopPc \in {"round", "wait", "woken", "drain", "check", "unwatch", "watch", "process",
                   "results", "left"}
    /\ bQuit \in BOOLEAN /\ bQueueUpdated \in BOOLEAN /\ moreQueueEntries \in BOOLEAN
    /\ resultsWaiting \in BOOLEAN /\ watching \in BOOLEAN /\ newer \in BOOLEAN
    /\ fdSet \in {"garbage", "clear", "set"}
    /\ events \subseteq {"attrib", "ignored"}
    /\ rows \in Nat /\ enqueued \in Nat /\ untouched \in Nat /\ inPool \in Nat

\* Something makes the loop read the queue.
Informed == untouched > 0 \/ "attrib" \in events \/ newer \/ moreQueueEntries \/ bQueueUpdated

Told ==
    /\ loopPc # "watch" => watching
    /\ loopPc \in {"wait", "woken", "drain"} => ~bQueueUpdated
    /\ loopPc \notin {"unwatch", "watch", "process"} /\ rows > 0 => Informed

LoopInv == LoopTypes /\ Counted /\ Told

-----------------------------------------------------------------------------
\* The loop.

\* A touch of the watched file is an event.
LEMMA TouchedTells ==
    ASSUME LoopInv, NEW n \in {0, 1}, Touched(n), loopPc # "watch"
    PROVE  /\ "attrib" \in events' /\ events' \subseteq {"attrib", "ignored"}
           /\ newer' \in BOOLEAN /\ enqueued' = enqueued + n
<1>1. watching /\ newer \in BOOLEAN /\ events \subseteq {"attrib", "ignored"}
  BY DEF LoopInv, LoopTypes, Told
<1>. QED
  BY <1>1 DEF Touched

\* ProcessQueue leaves no rows, or knows that there are more.
LEMMA ProcessQueueKeeps == LoopInv /\ ProcessQueue => LoopInv'
<1>. SUFFICES ASSUME LoopInv, ProcessQueue PROVE LoopInv'
  OBVIOUS
<1>. DEFINE items == ItemsToRead
            read == IF rows > items THEN items ELSE rows
<1>1. rows \in Nat /\ inPool \in Nat /\ enqueued \in Nat
  BY DEF LoopInv, LoopTypes
<1>2. items \in Nat
  BY <1>1, LoopAssumption DEF ItemsToRead
<1>3. /\ loopPc' = "results" /\ moreQueueEntries' = (rows > items)
      /\ rows' = rows - read /\ inPool' = inPool + read
      /\ UNCHANGED <<bQuit, bQueueUpdated, resultsWaiting, fdSet, watching, events, newer, enqueued,
                     untouched>>
  BY DEF ProcessQueue
<1>. HIDE DEF items
<1>4. rows' \in Nat /\ inPool' \in Nat /\ rows' + inPool' = rows + inPool
  <2>1. read \in Nat /\ rows - read \in Nat
    BY <1>1, <1>2
  <2>. HIDE DEF read
  <2>. QED
    BY <1>1, <1>3, <2>1
<1>5. rows' > 0 => moreQueueEntries'
  <2>1. CASE rows > items
    BY <1>3, <2>1
  <2>2. CASE ~(rows > items)
    BY <1>1, <1>3, <2>2
  <2>. QED
    BY <2>1, <2>2
<1>6. watching
  BY DEF ProcessQueue, LoopInv, Told
<1>7. LoopTypes'
  BY <1>3, <1>4 DEF LoopInv, LoopTypes
<1>8. Counted'
  BY <1>3, <1>4 DEF LoopInv, Counted
<1>9. Told'
  BY <1>3, <1>5, <1>6 DEF Told, Informed
<1>. QED
  BY <1>7, <1>8, <1>9 DEF LoopInv

\* A bounce sets bQueueUpdated.
LEMMA ProcessResultsKeeps == LoopInv /\ ProcessResults => LoopInv'
<1>. SUFFICES ASSUME LoopInv, ProcessResults PROVE LoopInv'
  OBVIOUS
<1>1. /\ loopPc = "results" /\ loopPc' = "round" /\ resultsWaiting' = FALSE
      /\ UNCHANGED <<bQuit, moreQueueEntries, fdSet, watching, untouched, inPool>>
  BY DEF ProcessResults
<1>2. CASE UNCHANGED <<bQueueUpdated, events, newer, rows, enqueued>>
  BY <1>1, <1>2 DEF LoopInv, LoopTypes, Counted, Told, Informed
<1>3. CASE /\ enqueued < MaxRows /\ rows' = rows + 1 /\ Touched(1) /\ bQueueUpdated' = TRUE
  <2>1. /\ events' \subseteq {"attrib", "ignored"} /\ newer' \in BOOLEAN /\ enqueued' = enqueued + 1
    BY <1>1, <1>3, TouchedTells
  <2>2. /\ rows \in Nat /\ enqueued \in Nat /\ inPool \in Nat /\ untouched \in Nat /\ MaxRows \in Nat
    BY LoopAssumption DEF LoopInv, LoopTypes
  <2>3. rows' \in Nat /\ enqueued' \in Nat
    BY <1>3, <2>1, <2>2
  <2>4. LoopTypes'
    BY <1>1, <1>3, <2>1, <2>3 DEF LoopInv, LoopTypes
  <2>5. Counted'
    BY <1>1, <1>3, <2>1, <2>2 DEF LoopInv, Counted
  <2>6. Told'
    BY <1>1, <1>3 DEF LoopInv, Told, Informed
  <2>. QED
    BY <2>4, <2>5, <2>6 DEF LoopInv
<1>. QED
  BY <1>2, <1>3 DEF ProcessResults

\* The waiting: what the loop is told is read, not lost.
LEMMA WaitKeeps ==
    LoopInv /\ (Round \/ Select \/ SelectFails \/ LeaveWait \/ Woken \/ Drain) => LoopInv'
<1>. SUFFICES ASSUME LoopInv, Round \/ Select \/ SelectFails \/ LeaveWait \/ Woken \/ Drain PROVE LoopInv'
  OBVIOUS
<1>. USE DEF LoopInv, LoopTypes, Counted, Told, Informed, queueVars
<1>1. CASE Round
  BY <1>1 DEF Round
<1>2. CASE Select
  <2>1. fdSet' \in {"clear", "set"} /\ (loopPc' = "woken" \/ loopPc' = loopPc) /\ loopPc = "wait"
    BY <1>2 DEF Select
  <2>2. UNCHANGED <<bQuit, bQueueUpdated, moreQueueEntries, resultsWaiting, watching, events, newer,
                    queueVars>>
    BY <1>2 DEF Select
  <2>. QED
    BY <2>1, <2>2
<1>3. CASE SelectFails
  BY <1>3 DEF SelectFails
<1>4. CASE LeaveWait
  BY <1>4 DEF LeaveWait
<1>5. CASE Woken
  BY <1>5 DEF Woken
<1>6. CASE Drain
  BY <1>6 DEF Drain
<1>. QED
  BY <1>1, <1>2, <1>3, <1>4, <1>5, <1>6

\* The renewal of the watch, once there is a reason to read the queue.
LEMMA RenewKeeps ==
    LoopInv /\ (Check \/ Unwatch \/ Watch) => LoopInv'
<1>. SUFFICES ASSUME LoopInv, Check \/ Unwatch \/ Watch PROVE LoopInv'
  OBVIOUS
<1>. USE DEF LoopInv, LoopTypes, Counted, Told, Informed, queueVars
<1>1. CASE Check
  <2>. DEFINE refill == moreQueueEntries /\ inPool <= RefillBelow
  <2>1. refill \in BOOLEAN
    OBVIOUS
  <2>2. /\ loopPc = "check" /\ bQueueUpdated' = (bQueueUpdated \/ refill)
        /\ moreQueueEntries' = (moreQueueEntries /\ ~refill)
        /\ loopPc' = IF (bQueueUpdated \/ refill) \/ newer THEN "unwatch" ELSE "results"
        /\ UNCHANGED <<bQuit, resultsWaiting, fdSet, watching, events, newer, queueVars>>
    BY <1>1 DEF Check
  <2>. HIDE DEF refill
  <2>. QED
    BY <2>1, <2>2
<1>2. CASE Unwatch
  BY <1>2 DEF Unwatch
<1>3. CASE Watch
  BY <1>3 DEF Watch
<1>. QED
  BY <1>1, <1>2, <1>3

\* Workers and other processes: a row is released before the file is touched.
LEMMA OthersKeep == LoopInv /\ Others => LoopInv'
<1>. SUFFICES ASSUME LoopInv, Others PROVE LoopInv'
  OBVIOUS
<1>0. /\ rows \in Nat /\ enqueued \in Nat /\ untouched \in Nat /\ inPool \in Nat
      /\ MaxRows \in Nat
  BY LoopAssumption DEF LoopInv, LoopTypes
<1>1. CASE Work
  <2>1. /\ inPool' = inPool - 1 /\ inPool' \in Nat /\ resultsWaiting' = TRUE
    BY <1>0, <1>1 DEF Work
  <2>. QED
    BY <1>0, <1>1, <2>1 DEF Work, LoopInv, LoopTypes, Counted, Told, Informed
<1>2. CASE ReleaseRow
  <2>1. /\ rows' \in Nat /\ enqueued' \in Nat /\ untouched' \in Nat /\ untouched' > 0
    BY <1>0, <1>2 DEF ReleaseRow
  <2>2. Counted'
    BY <1>0, <1>2 DEF ReleaseRow, LoopInv, Counted
  <2>3. LoopTypes' /\ Told'
    BY <1>2, <2>1 DEF ReleaseRow, LoopInv, LoopTypes, Told, Informed
  <2>. QED
    BY <2>2, <2>3 DEF LoopInv
<1>3. CASE TouchFile
  <2>1. /\ untouched > 0 /\ untouched' = untouched - 1 /\ untouched' \in Nat /\ Touched(0)
        /\ UNCHANGED <<bQuit, loopPc, bQueueUpdated, moreQueueEntries, resultsWaiting, fdSet, watching,
                       rows, inPool>>
    BY <1>0, <1>3 DEF TouchFile
  <2>2. enqueued' = enqueued /\ events' \subseteq {"attrib", "ignored"} /\ newer' \in BOOLEAN
    <3>1. enqueued' = enqueued + 0 /\ newer' \in {newer, TRUE}
          /\ (events' = events \cup {"attrib"} \/ events' = events)
      BY <2>1 DEF Touched
    <3>2. events \subseteq {"attrib", "ignored"} /\ newer \in BOOLEAN
      BY DEF LoopInv, LoopTypes
    <3>3. enqueued' = enqueued
      BY <1>0, <3>1
    <3>. QED
      BY <3>1, <3>2, <3>3
  <2>3. LoopTypes'
    BY <2>1, <2>2 DEF LoopInv, LoopTypes
  <2>4. Counted'
    BY <1>0, <2>1, <2>2 DEF LoopInv, Counted
  <2>5. loopPc # "watch" => "attrib" \in events'
    BY <2>1, TouchedTells
  <2>6. Told'
    BY <2>1, <2>5 DEF LoopInv, Told, Informed
  <2>. QED
    BY <2>3, <2>4, <2>6 DEF LoopInv
<1>. QED
  BY <1>1, <1>2, <1>3 DEF Others

\* The loop and all around it.
LEMMA LoopKeeps == LoopInv /\ (LoopStep \/ Others) => LoopInv'
BY ProcessQueueKeeps, ProcessResultsKeeps, WaitKeeps, RenewKeeps, OthersKeep DEF LoopStep

-----------------------------------------------------------------------------
\* The threads.

ThreadTypes ==
    /\ mainPc \in {"start", "startControl", "loop", "quitApns", "joinApns", "quitControl", "setQuit",
                   "joinControl", "gone", "crashed"}
    /\ controlPc \in {"none", "begin", "construct", "serve", "connection", "delete", "forget", "tell", "ended"}
    /\ apnsPc \in {"none", "begin", "run", "call", "delete", "ended"}
    /\ bQuit \in BOOLEAN /\ controlQuit \in BOOLEAN /\ isRunning \in BOOLEAN
    /\ control \in {"null", "object", "gone"} /\ dispatcher \in {"null", "object"}
    /\ given \in BOOLEAN /\ stale \in BOOLEAN

\* The dispatcher has been told to stop.
ApnsStopped == {"joinApns", "quitControl", "setQuit", "joinControl", "gone", "crashed"}

Joined ==
    /\ dispatcher = "object" <=> apnsPc \in {"begin", "run", "call", "delete"}
    /\ mainPc = "start" => apnsPc = "none"
    /\ apnsPc \in {"begin", "run", "call"} /\ mainPc \notin ApnsStopped => isRunning
    /\ apnsPc \in {"delete", "ended"} => mainPc \in ApnsStopped
    /\ mainPc \in {"quitControl", "setQuit", "joinControl", "gone"} => apnsPc \in {"none", "ended"}
    /\ given => apnsPc # "none"
    /\ controlPc \in {"tell", "ended"} => control = "null"
    /\ mainPc = "gone" => controlPc = "ended"
    /\ stale => mainPc \in ApnsStopped

Inv == LoopInv /\ ThreadTypes /\ Joined

\* The main thread goes on when the others are where it waits for them.
LEMMA MainKeeps == ThreadTypes /\ Joined /\ Main => ThreadTypes' /\ Joined'
<1>. SUFFICES ASSUME ThreadTypes, Joined, Main PROVE ThreadTypes' /\ Joined'
  OBVIOUS
<1>. USE DEF ThreadTypes, Joined, ApnsStopped, MainTo
<1>1. CASE StartDispatcher
  BY <1>1 DEF StartDispatcher
<1>2. CASE StartControl
  BY <1>2 DEF StartControl
<1>3. CASE LeaveLoop
  BY <1>3 DEF LeaveLoop
<1>4. CASE QuitApns
  BY <1>4 DEF QuitApns
<1>5. CASE JoinApns
  BY <1>5 DEF JoinApns
<1>6. CASE QuitControl
  BY <1>6 DEF QuitControl
<1>7. CASE SetQuit
  BY <1>7 DEF SetQuit
<1>8. CASE JoinControl
  BY <1>8 DEF JoinControl
<1>. QED
  BY <1>1, <1>2, <1>3, <1>4, <1>5, <1>6, <1>7, <1>8 DEF Main

\* The control thread, its clients, the push service, and signals.
LEMMA ControlKeeps == ThreadTypes /\ Joined /\ (Control \/ Environment) => ThreadTypes' /\ Joined'
<1>. SUFFICES ASSUME ThreadTypes, Joined, Control \/ Environment PROVE ThreadTypes' /\ Joined'
  OBVIOUS
<1>. USE DEF ThreadTypes, Joined, ApnsStopped, ControlTo, Alive
<1>1. CASE ControlBegin
  BY <1>1 DEF ControlBegin
<1>2. CASE Construct
  BY <1>2 DEF Construct
<1>3. CASE ConstructFails
  BY <1>3 DEF ConstructFails
<1>4. CASE ServeEnds
  BY <1>4 DEF ServeEnds
<1>5. CASE DeleteControl
  BY <1>5 DEF DeleteControl
<1>6. CASE ForgetControl
  BY <1>6 DEF ForgetControl
<1>7. CASE TellMain
  BY <1>7 DEF TellMain
<1>8. CASE RestartCommand
  BY <1>8 DEF RestartCommand
<1>9. CASE Signal
  BY <1>9 DEF Signal
<1>10. CASE NotifyCommand
  <2>1. stale' => mainPc \in ApnsStopped
    BY <1>10 DEF NotifyCommand
  <2>. QED
    BY <1>10, <2>1 DEF NotifyCommand
<1>11. CASE AcceptConnection
  BY <1>11 DEF AcceptConnection
<1>12. CASE ConnectionEnds
  BY <1>12 DEF ConnectionEnds
<1>13. CASE ApnsCall
  BY <1>13 DEF ApnsCall, ApnsTo
<1>14. CASE ApnsReturns
  BY <1>14 DEF ApnsReturns, ApnsTo
<1>. QED
  BY <1>1, <1>2, <1>3, <1>4, <1>5, <1>6, <1>7, <1>8, <1>9, <1>10, <1>11, <1>12, <1>13, <1>14
     DEF Control, Environment

\* The dispatcher thread ends when it is told to.
LEMMA ApnsKeeps == ThreadTypes /\ Joined /\ Apns => ThreadTypes' /\ Joined'
<1>. SUFFICES ASSUME ThreadTypes, Joined, Apns PROVE ThreadTypes' /\ Joined'
  OBVIOUS
<1>. USE DEF ThreadTypes, Joined, ApnsStopped, ApnsTo, Alive
<1>1. CASE ApnsBegin
  BY <1>1 DEF ApnsBegin
<1>2. CASE ApnsEnds
  BY <1>2 DEF ApnsEnds
<1>3. CASE ApnsDelete
  BY <1>3 DEF ApnsDelete
<1>. QED
  BY <1>1, <1>2, <1>3 DEF Apns

\* The invariant holds always.
LEMMA Invariant == Spec => []Inv
<1>1. Init => Inv
  <2>. SUFFICES ASSUME Init PROVE Inv
    OBVIOUS
  <2>1. LoopTypes
    BY DEF Init, LoopInit, LoopTypes
  <2>2. Counted
    BY LoopAssumption DEF Init, LoopInit, Counted
  <2>3. ThreadTypes
    BY DEF Init, ThreadTypes
  <2>4. Joined
    BY DEF Init, Joined
  <2>5. Told
    BY DEF Init, LoopInit, Told, Informed
  <2>. QED
    BY <2>1, <2>2, <2>3, <2>4, <2>5 DEF Inv, LoopInv
<1>2. Inv /\ [Next]_vars => Inv'
  <2>. SUFFICES ASSUME LoopInv, ThreadTypes, Joined, [Next]_vars PROVE Inv'
    BY DEF Inv
  <2>1. CASE Loop
    <3>1. LoopInv'
      BY <2>1, LoopKeeps DEF Loop, InLoop
    <3>2. /\ UNCHANGED <<mainPc, controlPc, apnsPc, control, controlQuit, dispatcher, given, isRunning,
                         stale>>
      BY <2>1 DEF Loop, InLoop
    <3>3. bQuit' \in BOOLEAN
      BY <3>1 DEF LoopInv, LoopTypes
    <3>4. ThreadTypes' /\ Joined'
      BY <3>2, <3>3 DEF ThreadTypes, Joined, ApnsStopped
    <3>. QED
      BY <3>1, <3>4 DEF Inv
  <2>2. CASE Main \/ Control \/ Apns \/ Environment
    <3>1. ThreadTypes' /\ Joined'
      BY <2>2, MainKeeps, ControlKeeps, ApnsKeeps
    <3>2. UNCHANGED loopVars
      BY <2>2 DEF Main, Control, Apns, Environment
    <3>3. bQuit' \in BOOLEAN
      BY <3>1 DEF ThreadTypes
    <3>4. LoopInv'
      BY <3>2, <3>3 DEF LoopInv, LoopTypes, Counted, Told, Informed, loopVars
    <3>. QED
      BY <3>1, <3>4 DEF Inv
  <2>3. CASE UNCHANGED vars
    BY <2>3 DEF Inv, LoopInv, LoopTypes, Counted, Told, Informed, ThreadTypes, Joined, ApnsStopped,
                vars, loopVars
  <2>. QED
    BY <2>1, <2>2, <2>3 DEF Next
<1>. QED
  BY <1>1, <1>2, PTL DEF Spec

-----------------------------------------------------------------------------
\* Flags, pointers and counters keep to their types, and no row is counted twice.
THEOREM DaemonTypes == Spec => []TypeOK
<1>1. Inv => TypeOK
  <2>. SUFFICES ASSUME Inv PROVE TypeOK
    OBVIOUS
  <2>1. {rows, enqueued, untouched, inPool} \subseteq 0..MaxRows
    BY LoopAssumption DEF Inv, LoopInv, LoopTypes, Counted
  <2>. QED
    BY <2>1 DEF Inv, LoopInv, LoopTypes, ThreadTypes, TypeOK, LoopTypeOK
<1>. QED
  BY <1>1, Invariant, PTL

\* MSGQueue::Run deletes the pools after both other threads have ended and left
\* no object behind, in whichever order they end; and until it stops the
\* dispatcher no APNS_NOTIFY uses one that is gone.
THEOREM DaemonGoneMeansAlone == Spec => []GoneMeansAlone
<1>1. Inv => GoneMeansAlone
  BY DEF Inv, ThreadTypes, Joined, ApnsStopped, GoneMeansAlone
<1>. QED
  BY <1>1, Invariant, PTL

\* The loop does not wait while rows are left that it has not been told of, and
\* will not be, although others enqueue at any step of the watch's renewal.
THEOREM DaemonNoLostNotification == Spec => []NoLostNotification
<1>1. Inv => NoLostNotification
  BY DEF Inv, LoopInv, Told, Informed, NoLostNotification
<1>. QED
  BY <1>1, Invariant, PTL
=============================================================================
