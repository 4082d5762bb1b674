------------------------------ MODULE ThreadPool ------------------------------
(***************************************************************************)
(* The worker pool of the message queue daemon, core/threadpool.cpp: one   *)
(* owner thread (MSGQueue's main thread) that starts the pool, queues      *)
(* items, grows, shrinks and stops it, and the worker threads that run     *)
(* threadMain / popJob.                                                    *)
(*                                                                         *)
(* One step of a worker is one of its critical sections under queueLock    *)
(* (or the work between two of them).  A condition wait is two steps: the  *)
(* one that releases the lock and sleeps, and the one that reacquires it   *)
(* after a signal, a timeout or a spurious wake-up.                        *)
(***************************************************************************)
EXTENDS Integers, Sequences, FiniteSets

CONSTANTS
    Static,     \* the threadCount threads created by start()
    Dynamic,    \* slots for the maxGrow - threadCount threads created by grow()
    Jobs,       \* the items the owner may queue; every item is a fresh pointer
    NoJob       \* popJob's NULL

ASSUME PoolAssumption ==
    /\ IsFiniteSet(Static) /\ Static # {}
    /\ IsFiniteSet(Dynamic) /\ Static \cap Dynamic = {}
    /\ NoJob \notin Jobs

VARIABLES
    run,             \* ThreadPool::run
    queue,           \* ThreadPool::queue
    queueLocked,     \* the owner holds queueLock between lockQueue and unlockQueue
    threads,         \* ThreadPool::threads, pthread ids not yet joined or erased
    finished,        \* ThreadPool::finishedDynamicThreads
    createdThreads,  \* ThreadPool::createdThreads
    busyThreads,     \* ThreadPool::busyThreads
    ownerPc,         \* where the owner is in the pool's life
    pc,              \* where each worker is in threadMain / popJob
    skipWait,        \* threadMain's local variable
    isBusy,          \* ThreadInfo::isBusy
    job,             \* the item a worker holds
    added,           \* ghost: items passed to addToQueue
    done             \* ghost: items whose workProcessor call has returned

ownerVars  == <<run, threads, createdThreads, ownerPc>>
workerVars == <<skipWait, isBusy, job>>
vars == <<run, queue, queueLocked, threads, finished, createdThreads, busyThreads,
          ownerPc, pc, skipWait, isBusy, job, added, done>>

Threads   == Static \cup Dynamic
MaxGrow   == Cardinality(Threads)
WorkerPcs == {"none", "pop", "waiting", "woken", "work", "check", "ending", "exited"}

Queued(j) == \E i \in 1..Len(queue) : queue[i] = j
Busy      == {t \in Threads : isBusy[t]}

-----------------------------------------------------------------------------
(***************************************************************************)
(* Condition variable workAvailable.                                       *)
(***************************************************************************)

\* pthread_cond_signal: one of the sleeping threads, if any, has to reacquire
\* the lock.  The result is the set of program counters the call may leave.
Signalled(pcs) ==
    LET sleeping == {t \in Threads : pcs[t] = "waiting"}
    IN  IF sleeping = {} THEN {pcs}
        ELSE {[pcs EXCEPT ![t] = "woken"] : t \in sleeping}

\* pthread_cond_broadcast.
Broadcast(pcs) ==
    [t \in Threads |-> IF pcs[t] = "waiting" THEN "woken" ELSE pcs[t]]

-----------------------------------------------------------------------------
(***************************************************************************)
(* The owner.                                                              *)
(***************************************************************************)

Init ==
    /\ run = FALSE
    /\ queue = << >>
    /\ queueLocked = FALSE
    /\ threads = {} /\ finished = {}
    /\ createdThreads = 0 /\ busyThreads = 0
    /\ ownerPc = "new"
    /\ pc       = [t \in Threads |-> "none"]
    /\ skipWait = [t \in Threads |-> TRUE]
    /\ isBusy   = [t \in Threads |-> FALSE]
    /\ job      = [t \in Threads |-> NoJob]
    /\ added = {} /\ done = {}

\* start(): run is set before the first pthread_create.
Start ==
    /\ ownerPc = "new"
    /\ run' = TRUE
    /\ ownerPc' = "starting"
    /\ UNCHANGED <<queue, queueLocked, threads, finished, createdThreads,
                   busyThreads, pc, workerVars, added, done>>

\* The bookkeeping start() and grow() share once pthread_create succeeded: the
\* new thread has a fresh ThreadInfo and enters threadMain with skipWait set.
Create(t) ==
    /\ pc[t] = "none"
    /\ threads' = threads \cup {t}
    /\ createdThreads' = createdThreads + 1
    /\ skipWait' = [skipWait EXCEPT ![t] = TRUE]
    /\ isBusy' = [isBusy EXCEPT ![t] = FALSE]
    /\ job' = [job EXCEPT ![t] = NoJob]

\* One iteration of start()'s loop.
StartThread(t) ==
    /\ ownerPc = "starting"
    /\ Create(t)
    /\ pc' = [pc EXCEPT ![t] = "pop"]
    /\ ownerPc' = IF createdThreads' = Cardinality(Static) THEN "running" ELSE "starting"
    /\ UNCHANGED <<run, queue, queueLocked, finished, busyThreads, added, done>>

LockQueue ==
    /\ ownerPc = "running" /\ ~queueLocked
    /\ queueLocked' = TRUE
    /\ UNCHANGED <<ownerVars, queue, finished, busyThreads, pc, workerVars, added, done>>

UnlockQueue ==
    /\ queueLocked
    /\ queueLocked' = FALSE
    /\ UNCHANGED <<ownerVars, queue, finished, busyThreads, pc, workerVars, added, done>>

\* addToQueue's test, evaluated after the push_back.
WantsGrow ==
    /\ busyThreads >= createdThreads \/ Len(queue) + 1 > createdThreads
    /\ createdThreads < MaxGrow

\* addToQueue(item), which takes the lock itself when the owner does not hold
\* it; either way no worker runs a critical section during the call.
AddToQueue(j) ==
    /\ ownerPc = "running"
    /\ j \notin added
    /\ added' = added \cup {j}
    /\ queue' = Append(queue, j)
    /\ \/ /\ WantsGrow
          /\ \E d \in Dynamic :
                /\ Create(d)
                /\ pc' \in Signalled([pc EXCEPT ![d] = "pop"])
       \/ /\ ~WantsGrow
          /\ pc' \in Signalled(pc)
          /\ UNCHANGED <<threads, createdThreads, workerVars>>
    /\ UNCHANGED <<run, queueLocked, finished, busyThreads, ownerPc, done>>

\* Mutant of Shrink: erases the joined threads but forgets --createdThreads.
Shrink_KeepsCount ==
    /\ ownerPc = "running" /\ ~queueLocked
    /\ finished # {}
    /\ threads' = threads \ finished
    /\ pc' = [t \in Threads |-> IF t \in finished THEN "none" ELSE pc[t]]
    /\ finished' = {}
    /\ UNCHANGED <<run, queue, queueLocked, createdThreads, busyThreads, ownerPc,
                   workerVars, added, done>>

\* shrink(): finishedDynamicThreadsLock is held throughout, so the set it
\* empties is fixed; a pthread_join only waits for the thread's last return.
Shrink ==
    /\ ownerPc = "running" /\ ~queueLocked
    /\ finished # {}
    /\ threads' = threads \ finished
    /\ createdThreads' = createdThreads - Cardinality(finished)
    /\ pc' = [t \in Threads |-> IF t \in finished THEN "none" ELSE pc[t]]
    /\ finished' = {}
    /\ UNCHANGED <<run, queue, queueLocked, busyThreads, ownerPc, workerVars, added, done>>

\* Mutant of Stop: run is cleared but the sleeping threads are not woken.
Stop_NoBroadcast ==
    /\ ownerPc = "running" /\ ~queueLocked
    /\ run' = FALSE
    /\ ownerPc' = "stopping"
    /\ UNCHANGED <<queue, queueLocked, threads, finished, createdThreads,
                   busyThreads, pc, workerVars, added, done>>

\* stop() up to its loop.
Stop ==
    /\ ownerPc = "running" /\ ~queueLocked
    /\ run' = FALSE
    /\ pc' = Broadcast(pc)
    /\ ownerPc' = "stopping"
    /\ UNCHANGED <<queue, queueLocked, threads, finished, createdThreads,
                   busyThreads, workerVars, added, done>>

\* Mutant of Join: the thread is taken off the list without pthread_join.
Join_NoWait(t) ==
    /\ ownerPc = "stopping"
    /\ t \in threads
    /\ threads' = threads \ {t}
    /\ UNCHANGED <<run, queue, queueLocked, finished, createdThreads, busyThreads,
                   ownerPc, pc, workerVars, added, done>>

\* One iteration of stop()'s loop.  createdThreads is left alone.
Join(t) ==
    /\ ownerPc = "stopping"
    /\ t \in threads /\ pc[t] = "exited"
    /\ threads' = threads \ {t}
    /\ pc' = [pc EXCEPT ![t] = "none"]
    /\ UNCHANGED <<run, queue, queueLocked, finished, createdThreads, busyThreads,
                   ownerPc, workerVars, added, done>>

\* stop() returns.
Stopped ==
    /\ ownerPc = "stopping" /\ threads = {}
    /\ ownerPc' = "stopped"
    /\ UNCHANGED <<run, queue, queueLocked, threads, finished, createdThreads,
                   busyThreads, pc, workerVars, added, done>>

-----------------------------------------------------------------------------
(***************************************************************************)
(* A worker.                                                               *)
(***************************************************************************)

AtPop(t) == pc[t] = "pop" /\ ~queueLocked

\* popJob when run was cleared before it got the lock: NULL at once.
PopNotRunning(t) ==
    /\ AtPop(t) /\ ~run
    /\ pc' = [pc EXCEPT ![t] = IF t \in Dynamic THEN "ending" ELSE "check"]
    /\ UNCHANGED <<ownerVars, queue, queueLocked, finished, busyThreads, workerVars, added, done>>

\* popJob without skipWait: the busy mark is dropped and the thread sleeps
\* without looking at the queue.
PopWait(t) ==
    /\ AtPop(t) /\ run /\ ~skipWait[t]
    /\ busyThreads' = IF isBusy[t] THEN busyThreads - 1 ELSE busyThreads
    /\ isBusy' = [isBusy EXCEPT ![t] = FALSE]
    /\ pc' = [pc EXCEPT ![t] = "waiting"]
    /\ UNCHANGED <<ownerVars, queue, queueLocked, finished, skipWait, job, added, done>>

\* The rest of popJob finds the queue empty.
PopEmpty(t) ==
    /\ queue = << >>
    /\ pc' = [pc EXCEPT ![t] = IF t \in Dynamic THEN "ending" ELSE "check"]
    /\ UNCHANGED <<ownerVars, queue, queueLocked, finished, busyThreads, workerVars, added, done>>

\* Mutant of PopItem: the item is read but not popped.
PopItem_NoPopFront(t, slept) ==
    /\ queue # << >>
    /\ job' = [job EXCEPT ![t] = Head(queue)]
    /\ pc' \in Signalled([pc EXCEPT ![t] = "work"])
    /\ UNCHANGED <<ownerVars, queue, queueLocked, finished, busyThreads, skipWait, isBusy, added, done>>

\* The rest of popJob takes the first item and passes the signal on when more
\* are queued.  Only a thread that slept is marked busy.
PopItem(t, slept) ==
    /\ queue # << >>
    /\ job' = [job EXCEPT ![t] = Head(queue)]
    /\ queue' = Tail(queue)
    /\ busyThreads' = IF slept /\ ~isBusy[t] THEN busyThreads + 1 ELSE busyThreads
    /\ isBusy' = [isBusy EXCEPT ![t] = slept \/ isBusy[t]]
    /\ LET working == [pc EXCEPT ![t] = "work"]
       IN  IF Tail(queue) = << >> THEN pc' = working ELSE pc' \in Signalled(working)
    /\ UNCHANGED <<ownerVars, queueLocked, finished, skipWait, added, done>>

PopSkipWait(t) ==
    /\ AtPop(t) /\ run /\ skipWait[t]
    /\ PopEmpty(t) \/ PopItem(t, FALSE)

\* Mutant of PopAfterWait: a dynamic thread that timed out ends without looking
\* at the queue.
PopAfterWait_TimeoutEnds(t) ==
    /\ pc[t] = "woken" /\ ~queueLocked
    /\ \/ PopEmpty(t) \/ PopItem(t, TRUE)
       \/ /\ t \in Dynamic
          /\ pc' = [pc EXCEPT ![t] = "ending"]
          /\ UNCHANGED <<ownerVars, queue, queueLocked, finished, busyThreads, workerVars, added, done>>

\* After the wait run is not looked at again: a thread woken by stop() still
\* takes an item.
PopAfterWait(t) ==
    /\ pc[t] = "woken" /\ ~queueLocked
    /\ PopEmpty(t) \/ PopItem(t, TRUE)

\* pthread_cond_timedwait's 30 seconds (threadTimeout) are over.
TimeOut(d) ==
    /\ pc[d] = "waiting"
    /\ pc' = [pc EXCEPT ![d] = "woken"]
    /\ UNCHANGED <<ownerVars, queue, queueLocked, finished, busyThreads, workerVars, added, done>>

\* POSIX lets any condition wait return without a signal.
SpuriousWakeup(t) == TimeOut(t)

\* workProcessor(job) returns.
Work(t) ==
    /\ pc[t] = "work"
    /\ done' = done \cup {job[t]}
    /\ job' = [job EXCEPT ![t] = NoJob]
    /\ pc' = [pc EXCEPT ![t] = "check"]
    /\ UNCHANGED <<ownerVars, queue, queueLocked, finished, busyThreads, skipWait, isBusy, added>>

\* The end of threadMain's loop body; a thread leaves the loop here when run
\* is cleared.
Check(t) ==
    /\ pc[t] = "check" /\ ~queueLocked
    /\ skipWait' = [skipWait EXCEPT ![t] = queue # << >>]
    /\ pc' = [pc EXCEPT ![t] = IF run THEN "pop"
                               ELSE IF t \in Dynamic THEN "ending" ELSE "exited"]
    /\ UNCHANGED <<ownerVars, queue, queueLocked, finished, busyThreads, isBusy, job, added, done>>

\* A dynamic thread leaves itself to shrink() and ends.
PushFinished(d) ==
    /\ pc[d] = "ending"
    /\ finished' = finished \cup {d}
    /\ pc' = [pc EXCEPT ![d] = "exited"]
    /\ UNCHANGED <<ownerVars, queue, queueLocked, busyThreads, workerVars, added, done>>

-----------------------------------------------------------------------------
\* Everything a worker does by itself, without a signal or a timeout.
WorkerStep(t) ==
    \/ PopNotRunning(t) \/ PopWait(t) \/ PopSkipWait(t) \/ PopAfterWait(t)
    \/ Work(t) \/ Check(t) \/ PushFinished(t)

\* After stop() the owner only destroys the pool.
Terminated == ownerPc = "stopped" /\ UNCHANGED vars

Next ==
    \/ Start \/ LockQueue \/ UnlockQueue \/ Shrink \/ Stop \/ Stopped
    \/ \E t \in Static : StartThread(t)
    \/ \E j \in Jobs : AddToQueue(j)
    \/ \E t \in Threads : Join(t)
    \/ \E t \in Threads : WorkerStep(t)
    \/ \E d \in Dynamic : TimeOut(d)
    \/ \E t \in Static : SpuriousWakeup(t)
    \/ Terminated

Spec == Init /\ [][Next]_vars

\* The operating system schedules every thread that can run, a mutex that is
\* free again and again is eventually acquired by a thread that asks for it, a
\* timed wait times out, and workProcessor returns.  The owner finishes what it
\* has begun (creating the threads, its critical section, the joins) but need
\* not queue, shrink or stop.  Spurious wake-ups are not promised.
Fairness ==
    /\ WF_vars(UnlockQueue) /\ WF_vars(Stopped)
    /\ \A t \in Threads : SF_vars(WorkerStep(t)) /\ WF_vars(Join(t))
    /\ \A d \in Dynamic : WF_vars(TimeOut(d))

FairSpec == Spec /\ Fairness

-----------------------------------------------------------------------------
(***************************************************************************)
(* Properties.                                                             *)
(***************************************************************************)

\* Every field has its type; busyThreads is unsigned in the code, so that it
\* never goes below zero is part of it (popJob, --busyThreads).
TypeOK ==
    /\ run \in BOOLEAN /\ queueLocked \in BOOLEAN
    /\ queue \in Seq(Jobs)
    /\ threads \in SUBSET Threads /\ finished \in SUBSET Dynamic
    /\ createdThreads \in Nat /\ busyThreads \in Nat
    /\ ownerPc \in {"new", "starting", "running", "stopping", "stopped"}
    /\ pc \in [Threads -> WorkerPcs]
    /\ skipWait \in [Threads -> BOOLEAN] /\ isBusy \in [Threads -> BOOLEAN]
    /\ job \in [Threads -> Jobs \cup {NoJob}]
    /\ added \in SUBSET Jobs /\ done \in SUBSET Jobs

\* An item passed to addToQueue is in exactly one place from then on: once in
\* the queue, in the hands of one worker, or processed.  (A queue item processed
\* twice is a mail delivered twice; one in no place is a mail never retried.)
EachItemOnce ==
    /\ added = {j \in Jobs : Queued(j) \/ j \in done \/ \E t \in Threads : job[t] = j}
    /\ \A i, k \in 1..Len(queue) : queue[i] = queue[k] => i = k
    /\ \A t, u \in Threads : job[t] = job[u] /\ job[t] # NoJob => t = u
    /\ \A t \in Threads : job[t] # NoJob => ~Queued(job[t]) /\ job[t] \notin done
    /\ \A j \in done : ~Queued(j)

\* createdThreads, which addToQueue compares with maxGrow, counts the threads
\* that exist until stop() starts to join them; it never passes maxGrow; and a
\* thread waiting for shrink() has left threadMain and was not joined before.
PoolAccounting ==
    /\ ownerPc \in {"new", "starting", "running"} => createdThreads = Cardinality(threads)
    /\ createdThreads <= MaxGrow
    /\ threads = {t \in Threads : pc[t] # "none"}
    /\ ownerPc \in {"new", "starting", "running"} => \A d \in finished : pc[d] = "exited"

\* busyThreads, which makes addToQueue grow the pool, never undercounts the
\* marked threads, so the unsigned decrement in popJob cannot wrap around.
BusyNeverUnderflows == Cardinality(Busy) <= busyThreads

\* Once stop() has cleared run no thread sleeps in popJob: one that checked run
\* before that is woken, a later one does not wait.
NobodySleepsThroughStop ==
    ownerPc \in {"stopping", "stopped"} => \A t \in Threads : pc[t] # "waiting"

\* The pool implements the abstract one: every step takes, finishes or queues an
\* item as that does, closes it, or changes nothing it can see.
Pool == INSTANCE WorkPool WITH
    Item <- Jobs, waiting <- queue, finished <- done,
    working <- {j \in Jobs : \E t \in Threads : job[t] = j},
    phase <- CASE ownerPc = "stopping" -> "closing"
               [] ownerPc = "stopped"  -> "closed"
               [] OTHER                -> "open"

IsWorkPool == Pool!Spec

\* When stop() returns no worker exists and every item is processed or still in
\* the queue, which ClearQueue then reads without the lock.
StopLeavesNoWorker ==
    ownerPc = "stopped" =>
        /\ \A t \in Threads : pc[t] = "none"
        /\ \A j \in added : Queued(j) \/ j \in done

\* stop() returns.
StopReturns == ownerPc = "stopping" ~> ownerPc = "stopped"

\* An item that is queued while a dynamic thread sleeps is taken, at the latest
\* after that thread's timeout, unless the pool is stopped.
SleepingDynamicRescues ==
    \A j \in Jobs : (Queued(j) /\ \E d \in Dynamic : pc[d] = "waiting") ~> (~Queued(j) \/ ~run)

\* threadMain, threadpool.cpp:313: "look for jobs which were signalled while all
\* threads were working", so that a queued item is taken unless the pool stops.
\* It is refuted: a worker sleeps without looking at the queue again.
QueuedItemIsTaken == \A j \in Jobs : Queued(j) ~> (~Queued(j) \/ ~run)
=============================================================================
