------------------------------ MODULE QueueLoop ------------------------------
(***************************************************************************)
(* The main loop of the queue daemon (MSGQueue::Run, msgqueue.cpp) and how *)
(* it learns that there is something to do: the queue state file, watched  *)
(* with inotify and compared by its modification time; the flag the daemon *)
(* sets when it enqueues a bounce; moreQueueEntries; and resultsWaiting,   *)
(* which the workers set.                                                  *)
(*                                                                         *)
(* Times are reduced to what the loop concludes from them.  The wait may   *)
(* be over at any time.  newer is "st_mtime > lastMTime": a touch makes it *)
(* true, unless it falls into the second in which lastMTime was taken.     *)
(* The queue interval never ends here: what is shown holds without it.     *)
(* Rows that only become due as time passes are what the interval is for.  *)
(***************************************************************************)
EXTENDS Integers

CONSTANTS
    QueueRunMax,  \* QUEUE_RUN_MAX
    MaxThreads,   \* queue_maxthreads
    UIntValues,   \* an unsigned int counts modulo this
    MaxRows       \* bound on the messages enqueued, bounces included

ASSUME LoopAssumption ==
    /\ {QueueRunMax, MaxThreads, UIntValues} \subseteq Nat \ {0}
    /\ MaxRows \in Nat

VARIABLES
    loopPc,        \* where the loop is
    bQuit,         \* MSGQueue::bQuit
    bQueueUpdated, \* the daemon itself has enqueued something, or has more to read
    moreQueueEntries,
    resultsWaiting,
    fdSet,         \* the bit of notifyFD in the local fdSet: uninitialised, clear or set
    watching,      \* the state file is being watched
    events,        \* inotify events not yet read: subset of {"attrib", "ignored"}
    newer,         \* the file was touched in a later second than lastMTime
    rows,          \* released rows not yet dispatched
    enqueued,      \* rows so far
    untouched,     \* rows released by processes that have not touched the file yet
    inPool         \* items in the pool's queue

loopVars == <<loopPc, bQueueUpdated, moreQueueEntries, resultsWaiting, fdSet, watching, events,
              newer, rows, enqueued, untouched, inPool>>

\* The loop is entered with bQueueUpdated = true and fdSet as the stack has it.
LoopInit ==
    /\ loopPc = "round" /\ bQueueUpdated = TRUE
    /\ moreQueueEntries = FALSE /\ resultsWaiting = FALSE
    /\ fdSet = "garbage" /\ watching = TRUE /\ events = {} /\ newer = FALSE
    /\ rows = 0 /\ enqueued = 0 /\ untouched = 0 /\ inPool = 0

queueVars == <<rows, enqueued, untouched, inPool>>

-----------------------------------------------------------------------------
(* The loop.                                                               *)

\* while(!bQuit); no wait if the queue is known to be updated.
Round ==
    /\ loopPc = "round"
    /\ loopPc' = IF bQuit THEN "left" ELSE IF bQueueUpdated THEN "check" ELSE "wait"
    /\ UNCHANGED <<bQuit, bQueueUpdated, moreQueueEntries, resultsWaiting, fdSet, watching, events,
                   newer, queueVars>>

\* One select() of 100 ms.  Its condition is tested before each.
Select ==
    /\ loopPc = "wait" /\ ~bQuit /\ ~resultsWaiting
    /\ IF events # {}
       THEN fdSet' = "set" /\ loopPc' = "woken"
       ELSE fdSet' = "clear" /\ UNCHANGED loopPc
    /\ UNCHANGED <<bQuit, bQueueUpdated, moreQueueEntries, resultsWaiting, watching, events, newer,
                   queueVars>>

\* SIGUSR1, or a signal to quit, interrupts select(): its sets are left as they were filled.
SelectFails ==
    /\ loopPc = "wait" /\ ~bQuit /\ ~resultsWaiting
    /\ fdSet' = "set" /\ loopPc' = "woken"
    /\ UNCHANGED <<bQuit, bQueueUpdated, moreQueueEntries, resultsWaiting, watching, events, newer,
                   queueVars>>

\* The wait is over, told to quit, or there are results; maybe before any select().
LeaveWait ==
    /\ loopPc = "wait"
    /\ loopPc' = "woken"
    /\ UNCHANGED <<bQuit, bQueueUpdated, moreQueueEntries, resultsWaiting, fdSet, watching, events,
                   newer, queueVars>>

\* if(!bQuit && FD_ISSET(notifyFD, &fdSet)) ...; if(bQuit) break.
Woken ==
    /\ loopPc = "woken"
    /\ \/ bQuit /\ loopPc' = "left"
       \/ ~bQuit /\ fdSet \in {"set", "garbage"} /\ loopPc' = "drain"
       \/ ~bQuit /\ fdSet \in {"clear", "garbage"} /\ loopPc' = "check"
    /\ UNCHANGED <<bQuit, bQueueUpdated, moreQueueEntries, resultsWaiting, fdSet, watching, events,
                   newer, queueVars>>

\* Mutant: an event is read, its mask is not looked at.
DrainBlindly ==
    /\ loopPc = "drain" /\ events # {}
    /\ events' = {} /\ fdSet' = "clear"
    /\ loopPc' = "check"
    /\ UNCHANGED <<bQuit, bQueueUpdated, moreQueueEntries, resultsWaiting, watching, newer, queueVars>>

\* read() until select() finds nothing more; without an event it blocks.
\* IN_ATTRIB sets lastMTime to 0.
Drain ==
    /\ loopPc = "drain" /\ events # {}
    /\ newer' = (newer \/ "attrib" \in events)
    /\ events' = {} /\ fdSet' = "clear"
    /\ loopPc' = IF bQuit THEN "left" ELSE "check"
    /\ UNCHANGED <<bQuit, bQueueUpdated, moreQueueEntries, resultsWaiting, watching, queueVars>>

\* Mutant: in signed arithmetic, where it may be negative.
RefillBelowSigned == QueueRunMax - 2 * MaxThreads

\* QUEUE_RUN_MAX - maxthreads*2, in unsigned arithmetic.
RefillBelow == (QueueRunMax - 2 * MaxThreads) % UIntValues

\* Is the queue to be processed?
Check ==
    LET refill == moreQueueEntries /\ inPool <= RefillBelow
        updated == bQueueUpdated \/ refill
    IN  /\ loopPc = "check"
        /\ bQueueUpdated' = updated
        /\ moreQueueEntries' = (moreQueueEntries /\ ~refill)
        /\ loopPc' = IF updated \/ newer THEN "unwatch" ELSE "results"
        /\ UNCHANGED <<bQuit, resultsWaiting, fdSet, watching, events, newer, queueVars>>

\* The watch is removed (which is an event, too) and the file touched ...
Unwatch ==
    /\ loopPc = "unwatch"
    /\ watching' = FALSE /\ events' = events \cup {"ignored"}
    /\ loopPc' = "watch"
    /\ UNCHANGED <<bQuit, bQueueUpdated, moreQueueEntries, resultsWaiting, fdSet, newer, queueVars>>

\* ... then it is watched again, and its time noted.
Watch ==
    /\ loopPc = "watch"
    /\ watching' = TRUE
    /\ newer' = FALSE /\ bQueueUpdated' = FALSE
    /\ loopPc' = "process"
    /\ UNCHANGED <<bQuit, moreQueueEntries, resultsWaiting, fdSet, events, queueVars>>

ItemsToRead == IF inPool >= QueueRunMax THEN 0 ELSE QueueRunMax - inPool

\* ProcessQueue: at most ItemsToRead rows go to the workers.
ProcessQueue ==
    LET read == IF rows > ItemsToRead THEN ItemsToRead ELSE rows
    IN  /\ loopPc = "process"
        /\ moreQueueEntries' = (rows > ItemsToRead)
        /\ rows' = rows - read
        /\ inPool' = inPool + read
        /\ loopPc' = "results"
        /\ UNCHANGED <<bQuit, bQueueUpdated, resultsWaiting, fdSet, watching, events, newer, enqueued,
                       untouched>>

Touched(new) ==
    /\ events' = IF watching THEN events \cup {"attrib"} ELSE events
    /\ newer' \in {newer, TRUE}
    /\ enqueued' = enqueued + new

\* ProcessResults; a bounce is enqueued, released and announced at once.
ProcessResults ==
    /\ loopPc = "results"
    /\ resultsWaiting' = FALSE
    /\ \/ UNCHANGED <<bQueueUpdated, events, newer, rows, enqueued>>
       \/ /\ resultsWaiting /\ enqueued < MaxRows
          /\ rows' = rows + 1
          /\ Touched(1)
          /\ bQueueUpdated' = TRUE
    /\ loopPc' = "round"
    /\ UNCHANGED <<bQuit, moreQueueEntries, fdSet, watching, untouched, inPool>>

LoopStep ==
    \/ Round \/ Select \/ SelectFails \/ LeaveWait \/ Woken \/ Drain \/ Check \/ Unwatch \/ Watch
    \/ ProcessQueue \/ ProcessResults

-----------------------------------------------------------------------------
(* Workers and other processes.                                            *)

\* A worker takes an item and stores its result.
Work ==
    /\ inPool > 0
    /\ inPool' = inPool - 1 /\ resultsWaiting' = TRUE
    /\ UNCHANGED <<bQuit, loopPc, bQueueUpdated, moreQueueEntries, fdSet, watching, events, newer,
                   rows, enqueued, untouched>>

\* ReleaseMessages, or an enqueueing with instant release: the row first ...
ReleaseRow ==
    /\ enqueued < MaxRows
    /\ rows' = rows + 1 /\ enqueued' = enqueued + 1 /\ untouched' = untouched + 1
    /\ UNCHANGED <<bQuit, loopPc, bQueueUpdated, moreQueueEntries, resultsWaiting, fdSet, watching,
                   events, newer, inPool>>

\* ... then the state file.
TouchFile ==
    /\ untouched > 0
    /\ untouched' = untouched - 1
    /\ Touched(0)
    /\ UNCHANGED <<bQuit, loopPc, bQueueUpdated, moreQueueEntries, resultsWaiting, fdSet, watching,
                   rows, inPool>>

Others == Work \/ ReleaseRow \/ TouchFile

-----------------------------------------------------------------------------
LoopTypeOK ==
    /\ loopPc \in {"round", "wait", "woken", "drain", "check", "unwatch", "watch", "process",
                   "results", "left"}
    /\ {bQuit, bQueueUpdated, moreQueueEntries, resultsWaiting, watching, newer} \subseteq BOOLEAN
    /\ fdSet \in {"garbage", "clear", "set"}
    /\ events \subseteq {"attrib", "ignored"}
    /\ {rows, enqueued, untouched, inPool} \subseteq 0..MaxRows

\* Blocked in read() without an event: fdSet was never initialised (the first wait
\* found results at once) or select() was interrupted.
Blocked == loopPc = "drain" /\ events = {}

\* A wake-up is never lost between the touch of another process, the renewal of
\* the watch, the time stamp and the SELECT (msgqueue.cpp:398-412): when the loop
\* waits although rows are left, it has been told of them or is going to be.
NoLostNotification ==
    (loopPc = "wait" /\ rows > 0) =>
        untouched > 0 \/ "attrib" \in events \/ newer \/ moreQueueEntries

\* Without the help of the queue interval every released row is dispatched, also
\* beyond QUEUE_RUN_MAX and whatever the unsigned comparison in line 382 says,
\* unless the daemon ends, read() waits for ever for an event that select() has not
\* seen (line 324), or the workers never take what is in the pool.
RowsAreDispatched == []<>(rows = 0 \/ loopPc = "left") \/ <>[]Blocked \/ <>[](inPool > 0)

\* What workers have finished is recorded, unless the loop ends or is blocked for ever.
ResultsAreProcessed == resultsWaiting ~> (~resultsWaiting \/ loopPc = "left" \/ []Blocked)
=============================================================================
