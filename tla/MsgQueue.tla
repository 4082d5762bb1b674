------------------------------- MODULE MsgQueue -------------------------------
(***************************************************************************)
(* The message queue of b1gMailServer: the table bm60_bms_queue, the queue *)
(* files, the daemon that empties it (msgqueue/msgqueue.cpp), the          *)
(* processes that fill it (EnqueueMessage, enqueue.cpp, called by          *)
(* SMTP::ProcessMessage and by BounceMessage) and the control connection.  *)
(*                                                                         *)
(* A step is one SQL statement, one file operation or one critical section *)
(* on the daemon's in-memory queues; anything may happen between two of    *)
(* them, a crash of the daemon or of a sending process included.  Only     *)
(* where a DELETE is directly followed by the unlink of the row's file are *)
(* the two one step: a file without a row is never looked at again.        *)
(*                                                                         *)
(* Time is two flags of a row: it is due when last_attempt is older than   *)
(* attempts * queue_retry, and old when queue_lifetime has passed.         *)
(***************************************************************************)
EXTENDS Integers, FiniteSets

CONSTANTS
    Ids,          \* values of the AUTO_INCREMENT column id
    BounceIds,    \* those kept for rows BounceMessage inserts (a bound on bounces)
    Senders,      \* SMTP server processes, each handing over one message
    NullPath,     \* senders whose message has no return path to bounce to
    Recipients,   \* recipients of each message
    Copies,       \* addresses of MSGQueueItem objects for one id (a bound)
    QueueRunMax,  \* QUEUE_RUN_MAX
    MaxThreads,   \* queue_maxthreads
    MaxRestarts,  \* bound on crashes and stops of the daemon
    DiskFills,    \* may the queue's file system run out of space? (BOOLEAN)
    AnswersLost,  \* may a destination's answer fail to arrive? (BOOLEAN)
    Commands,     \* what administrators ask for: a set of "delete", "flush", "clear", "mark"
    None

ASSUME QueueAssumption ==
    /\ BounceIds \subseteq Ids /\ NullPath \subseteq Senders
    /\ IsFiniteSet(Ids) /\ IsFiniteSet(Copies)
    /\ Recipients \in Nat \ {0} /\ QueueRunMax \in Nat \ {0}
    /\ MaxThreads \in Nat \ {0} /\ MaxRestarts \in Nat
    /\ DiskFills \in BOOLEAN /\ AnswersLost \in BOOLEAN
    /\ Cardinality(Ids \ BounceIds) >= Recipients * Cardinality(Senders)
    /\ None \notin Ids /\ None \notin Ids \X Copies

VARIABLES
    rows,        \* ids of the rows in bm60_bms_queue
    active,      \* ids of rows whose column active is 1
    deleted,     \* ids of rows marked deleted=1 by the administration interface
    due,         \* ids of rows whose retry delay has passed
    old,         \* ids of rows past queue_lifetime
    file,        \* the queue file of each id
    used,        \* ids handed out so far
    bounceable,  \* ids of rows with a usable return path
    lock,        \* holder of LOCK TABLES bm60_bms_queue WRITE
    stage,       \* where each MSGQueueItem object is
    mainPc,      \* the daemon's main thread
    todo,        \* its local list of ids (purge list, or the batch to mark)
    taken,       \* its local resultsQueue
    cur,         \* the result being bounced
    bnc,         \* the id of the bounce being enqueued
    restarts,    \* crashes and stops so far
    sPc,         \* each sender
    sIds,        \* its queueIDs
    sCur,        \* the id its EnqueueMessage call works on
    accepted,    \* ghost: ids the daemon or a 250 reply has promised to handle
    released,    \* ghost: ids whose enqueueing was finished and released
    early,       \* ghost: ids re-animated before that
    delivered,   \* ghost: how often each id was handed to its destination (0, 1, many)
    unrecorded,  \* ghost: ids delivered by an attempt whose success was not recorded
    bounced,     \* ghost: ids for which a bounce was released
    dropped,     \* ghost: ids removed after a failure without a bounce
    removed      \* ghost: ids removed on request of an administrator

tableVars  == <<rows, active, deleted, due, old, file, used, bounceable>>
daemonVars == <<stage, mainPc, todo, taken, cur, bnc, restarts>>
senderVars == <<sPc, sIds, sCur>>
ghostVars  == <<accepted, released, early, delivered, unrecorded, bounced, dropped, removed>>
vars == <<tableVars, lock, daemonVars, senderVars, ghostVars>>

Items      == Ids \X Copies
ResultSt   == {"success", "temp", "fatal"}
Queued     == {x \in Items : stage[x] = "queued"}
Working    == {x \in Items : stage[x] = "working"}
Results    == {x \in Items : stage[x] \in ResultSt}
InFlight(i) == {c \in Copies : stage[<<i, c>>] # "free"}
DaemonUp   == mainPc # "down"

Init ==
    /\ rows = {} /\ active = {} /\ deleted = {} /\ due = {} /\ old = {}
    /\ file = [i \in Ids |-> "none"]
    /\ used = {} /\ bounceable = {}
    /\ lock = "free"
    /\ stage = [x \in Items |-> "free"]
    /\ mainPc = "down" /\ todo = {} /\ taken = {} /\ cur = None /\ bnc = None
    /\ restarts = 0
    /\ sPc  = [s \in Senders |-> "idle"]
    /\ sIds = [s \in Senders |-> {}]
    /\ sCur = [s \in Senders |-> None]
    /\ accepted = {} /\ released = {} /\ early = {}
    /\ delivered = [i \in Ids |-> 0]
    /\ unrecorded = {} /\ bounced = {} /\ dropped = {} /\ removed = {}

-----------------------------------------------------------------------------
(***************************************************************************)
(* Rows.                                                                   *)
(***************************************************************************)

\* INSERT ... active=1, attempts=0, last_attempt=0: a new row is due at once.
InsertActive(i, canBounce) ==
    /\ i \notin used
    /\ rows' = rows \cup {i} /\ active' = active \cup {i} /\ due' = due \cup {i}
    /\ used' = used \cup {i}
    /\ bounceable' = IF canBounce THEN bounceable \cup {i} ELSE bounceable
    /\ UNCHANGED <<deleted, old, file>>

\* DELETE ... WHERE id IN(S); flags are columns, so they go with the row.
DeleteRows(S) ==
    /\ rows' = rows \ S /\ active' = active \ S /\ deleted' = deleted \ S
    /\ due' = due \ S /\ old' = old \ S

\* DELETE of a row followed by the unlink of its file.
RemoveRow(i) ==
    /\ DeleteRows({i})
    /\ file' = [file EXCEPT ![i] = "none"]
    /\ UNCHANGED <<used, bounceable>>

\* UPDATE ... SET active=0 WHERE id IN(S).
Deactivate(S) ==
    /\ active' = active \ S
    /\ UNCHANGED <<rows, deleted, due, old, file, used, bounceable>>

-----------------------------------------------------------------------------
(***************************************************************************)
(* A sender: SMTP::ProcessMessage from the enqueue loop to the reply, with *)
(* EnqueueMessage (bInstantRelease = false) inlined.                       *)
(***************************************************************************)

SenderOnly == UNCHANGED <<lock, daemonVars>>

\* EnqueueMessage for the next recipient: the INSERT.
EnqueueInsert(s) ==
    /\ sPc[s] \in {"idle", "next"}
    /\ Cardinality(sIds[s]) < Recipients
    /\ lock = "free"
    /\ \E i \in Ids \ BounceIds :
          /\ InsertActive(i, s \notin NullPath)
          /\ sCur' = [sCur EXCEPT ![s] = i]
    /\ sPc' = [sPc EXCEPT ![s] = "assemble"]
    /\ UNCHANGED sIds /\ SenderOnly /\ UNCHANGED ghostVars

\* tmpfile() fails: EnqueueMessage returns 0 and leaves its active row behind.
EnqueueNoTmpfile(s) ==
    /\ sPc[s] = "assemble"
    /\ sPc' = [sPc EXCEPT ![s] = "failed"]
    /\ UNCHANGED <<tableVars, sIds, sCur>> /\ SenderOnly /\ UNCHANGED ghostVars

\* The queue file cannot be created: the row is deleted again.
EnqueueNoFile(s) ==
    /\ sPc[s] = "assemble" /\ lock = "free"
    /\ RemoveRow(sCur[s])
    /\ sPc' = [sPc EXCEPT ![s] = "failed"]
    /\ sCur' = [sCur EXCEPT ![s] = None]
    /\ UNCHANGED sIds /\ SenderOnly /\ UNCHANGED ghostVars

\* fopen(..., "wb") creates the queue file.
EnqueueOpen(s) ==
    /\ sPc[s] = "assemble"
    /\ file' = [file EXCEPT ![sCur[s]] = "partial"]
    /\ sPc' = [sPc EXCEPT ![s] = "copy"]
    /\ UNCHANGED <<rows, active, deleted, due, old, used, bounceable, sIds, sCur>>
    /\ SenderOnly /\ UNCHANGED ghostVars

\* What the copy loop leaves in a queue file: it also ends when fwrite is short,
\* and EnqueueMessage goes on as if nothing had happened.
Copied == {"whole"} \cup (IF DiskFills THEN {"truncated"} ELSE {})

\* The message is copied to it; the file is closed.
EnqueueCopy(s) ==
    /\ sPc[s] = "copy"
    /\ \E content \in Copied : file' = [file EXCEPT ![sCur[s]] = content]
    /\ sPc' = [sPc EXCEPT ![s] = "finish"]
    /\ UNCHANGED <<rows, active, deleted, due, old, used, bounceable, sIds, sCur>>
    /\ SenderOnly /\ UNCHANGED ghostVars

\* Mutant: EnqueueMessage releases each instance itself (bInstantRelease = true).
EnqueueFinishReleased(s) ==
    /\ sPc[s] = "finish" /\ lock = "free"
    /\ Deactivate({sCur[s]})
    /\ released' = released \cup {sCur[s]}
    /\ sIds' = [sIds EXCEPT ![s] = @ \cup {sCur[s]}]
    /\ sCur' = [sCur EXCEPT ![s] = None]
    /\ sPc' = [sPc EXCEPT ![s] = "next"]
    /\ UNCHANGED <<accepted, early, delivered, unrecorded, bounced, dropped, removed>>
    /\ SenderOnly

\* UPDATE ... SET active=1, size=...: the row stays active (or becomes active
\* again), EnqueueMessage returns the id.
EnqueueFinish(s) ==
    /\ sPc[s] = "finish" /\ lock = "free"
    /\ active' = active \cup ({sCur[s]} \cap rows)
    /\ sIds' = [sIds EXCEPT ![s] = @ \cup {sCur[s]}]
    /\ sCur' = [sCur EXCEPT ![s] = None]
    /\ sPc' = [sPc EXCEPT ![s] = "next"]
    /\ UNCHANGED <<rows, deleted, due, old, file, used, bounceable>>
    /\ SenderOnly /\ UNCHANGED ghostVars

\* ReleaseMessages: one UPDATE for all recipients.
Release(s) ==
    /\ sPc[s] = "next" /\ Cardinality(sIds[s]) = Recipients
    /\ lock = "free"
    /\ Deactivate(sIds[s])
    /\ released' = released \cup sIds[s]
    /\ sPc' = [sPc EXCEPT ![s] = "reply"]
    /\ UNCHANGED <<sIds, sCur, accepted, early, delivered, unrecorded, bounced, dropped, removed>>
    /\ SenderOnly

\* "250 2.0.0 Message enqueued for delivery".
Reply(s) ==
    /\ sPc[s] = "reply"
    /\ accepted' = accepted \cup sIds[s]
    /\ sPc' = [sPc EXCEPT ![s] = "ok"]
    /\ UNCHANGED <<tableVars, sIds, sCur, released, early, delivered, unrecorded, bounced,
                   dropped, removed>>
    /\ SenderOnly

\* DeleteMessages, first its loop of unlinks ...
DeleteFiles(s) ==
    /\ sPc[s] = "failed"
    /\ file' = [i \in Ids |-> IF i \in sIds[s] THEN "none" ELSE file[i]]
    /\ sPc' = [sPc EXCEPT ![s] = "unlinked"]
    /\ UNCHANGED <<rows, active, deleted, due, old, used, bounceable, sIds, sCur>>
    /\ SenderOnly /\ UNCHANGED ghostVars

\* ... then its DELETE; the reply is 451.
DeleteMessages(s) ==
    /\ sPc[s] = "unlinked" /\ lock = "free"
    /\ DeleteRows(sIds[s])
    /\ sPc' = [sPc EXCEPT ![s] = "rejected"]
    /\ UNCHANGED <<file, used, bounceable, sIds, sCur>> /\ SenderOnly /\ UNCHANGED ghostVars

\* The process dies in the middle.
SenderCrash(s) ==
    /\ sPc[s] \notin {"idle", "ok", "rejected", "dead"}
    /\ sPc' = [sPc EXCEPT ![s] = "dead"]
    /\ UNCHANGED <<tableVars, sIds, sCur>> /\ SenderOnly /\ UNCHANGED ghostVars

SenderStep(s) ==
    \/ EnqueueInsert(s) \/ EnqueueNoTmpfile(s) \/ EnqueueNoFile(s) \/ EnqueueOpen(s)
    \/ EnqueueCopy(s) \/ EnqueueFinish(s) \/ Release(s) \/ Reply(s)
    \/ DeleteFiles(s) \/ DeleteMessages(s)

-----------------------------------------------------------------------------
(***************************************************************************)
(* The daemon's main thread, MSGQueue::Run.                                *)
(***************************************************************************)

TableFree == DaemonUp /\ lock = "free"

\* Mutant: a start without the UPDATE.
StartWithoutReanimate ==
    /\ mainPc = "down" /\ lock = "free"
    /\ mainPc' = "loop"
    /\ UNCHANGED <<tableVars, lock, stage, todo, taken, cur, bnc, restarts, senderVars, ghostVars>>

\* Start: "re-animate jobs" makes every active row of the table inactive and
\* counts an attempt, whoever the row belongs to.
Reanimate ==
    /\ mainPc = "down" /\ lock = "free"
    /\ active' = {}
    /\ due' = due \ active
    /\ early' = early \cup (active \ released)
    /\ mainPc' = "loop"
    /\ UNCHANGED <<rows, deleted, old, file, used, bounceable, lock, stage, todo, taken, cur, bnc,
                   restarts, senderVars, accepted, released, delivered, unrecorded, bounced,
                   dropped, removed>>

\* Mutant: the SELECT without "AND active=0".
BeginRunAnyRow ==
    /\ mainPc = "loop" /\ lock = "free"
    /\ todo' = deleted
    /\ mainPc' = "purge"
    /\ UNCHANGED <<tableVars, lock, stage, taken, cur, bnc, restarts, senderVars, ghostVars>>

\* ProcessQueue, the SELECT of rows marked for deletion.
BeginRun ==
    /\ mainPc = "loop" /\ lock = "free"
    /\ todo' = deleted \ active
    /\ mainPc' = "purge"
    /\ UNCHANGED <<tableVars, lock, stage, taken, cur, bnc, restarts, senderVars, ghostVars>>

\* One iteration of the loop over that result: DELETE and unlink.
PurgeRow(i) ==
    /\ mainPc = "purge" /\ i \in todo /\ lock = "free"
    /\ RemoveRow(i)
    /\ todo' = todo \ {i}
    /\ removed' = removed \cup {i}
    /\ UNCHANGED <<lock, stage, mainPc, taken, cur, bnc, restarts, senderVars, accepted,
                   released, early, delivered, unrecorded, bounced, dropped>>

\* Mutant: what already waits in the thread pool is not subtracted.
ItemsToReadAlways == QueueRunMax

\* itemsToRead.
ItemsToRead ==
    LET queueSize == Cardinality(Queued)
    IN  IF queueSize >= QueueRunMax THEN 0 ELSE QueueRunMax - queueSize

\* deleted=0, the retry delay over, active=0.
Eligible == (rows \cap due) \ (deleted \cup active)

\* The batch the SELECT ... LIMIT yields: all eligible rows or itemsToRead of
\* them (the ORDER BY attempts is left out, any choice is possible).
Batches ==
    IF Cardinality(Eligible) <= ItemsToRead THEN {Eligible}
    ELSE {B \in SUBSET Eligible : Cardinality(B) = ItemsToRead}

\* LOCK TABLES, the SELECT, and the addToQueue calls: a fresh MSGQueueItem for
\* every row goes to the thread pool while the rows are still inactive.
Dispatch ==
    /\ mainPc = "purge" /\ todo = {} /\ lock = "free"
    /\ \E B \in Batches :
          /\ B # {}
          /\ \E addr \in [B -> Copies] :
                /\ \A i \in B : stage[<<i, addr[i]>>] = "free"
                /\ stage' = [x \in Items |-> IF x[1] \in B /\ x[2] = addr[x[1]]
                                             THEN "queued" ELSE stage[x]]
          /\ todo' = B
    /\ lock' = "daemon"
    /\ mainPc' = "mark"
    /\ UNCHANGED <<tableVars, taken, cur, bnc, restarts, senderVars, ghostVars>>

\* The SELECT yields nothing: the table is unlocked again.
DispatchNothing ==
    /\ mainPc = "purge" /\ todo = {} /\ lock = "free"
    /\ {} \in Batches
    /\ mainPc' = "swap"
    /\ UNCHANGED <<tableVars, lock, stage, todo, taken, cur, bnc, restarts, senderVars, ghostVars>>

\* UPDATE ... SET active=1 for the batch, and UNLOCK TABLES.
MarkActive ==
    /\ mainPc = "mark"
    /\ active' = active \cup todo
    /\ todo' = {}
    /\ lock' = "free"
    /\ mainPc' = "swap"
    /\ UNCHANGED <<rows, deleted, due, old, file, used, bounceable, stage, taken, cur, bnc,
                   restarts, senderVars, ghostVars>>

\* No notification and the interval is not over: the loop skips ProcessQueue.
SkipRun ==
    /\ mainPc = "loop"
    /\ mainPc' = "swap"
    /\ UNCHANGED <<tableVars, lock, stage, todo, taken, cur, bnc, restarts, senderVars, ghostVars>>

\* ProcessResults, the critical section that empties the shared results queue;
\* while the daemon stops, all workers have ended before it.
SwapResults ==
    /\ mainPc \in {"swap", "lastSwap"}
    /\ taken' = Results
    /\ mainPc' = IF mainPc = "swap" THEN "results" ELSE "lastResults"
    /\ UNCHANGED <<tableVars, lock, stage, todo, cur, bnc, restarts, senderVars, ghostVars>>

InResults == mainPc \in {"results", "lastResults"} /\ cur = None /\ lock = "free"

\* "delete result->item".
Discard(x) ==
    /\ stage' = [stage EXCEPT ![x] = "free"]
    /\ taken' = taken \ {x}

\* ProcessResult of a delivered item: DELETE and unlink.
ResultSuccess(x) ==
    /\ InResults /\ x \in taken /\ stage[x] = "success"
    /\ RemoveRow(x[1])
    /\ Discard(x)
    /\ UNCHANGED <<lock, mainPc, todo, cur, bnc, restarts, senderVars, ghostVars>>

\* Mutant: the UPDATE counts the attempt and forgets active=0.
ResultDeferredActive(x) ==
    /\ InResults /\ x \in taken /\ stage[x] = "temp" /\ x[1] \notin old
    /\ due' = due \ {x[1]}
    /\ Discard(x)
    /\ UNCHANGED <<rows, active, deleted, old, file, used, bounceable, lock, mainPc, todo, cur,
                   bnc, restarts, senderVars, ghostVars>>

\* Mutant: the unlink stands after the if, for every result.
ResultDeferredUnlink(x) ==
    /\ InResults /\ x \in taken /\ stage[x] = "temp" /\ x[1] \notin old
    /\ active' = active \ {x[1]}
    /\ due' = due \ {x[1]}
    /\ file' = [file EXCEPT ![x[1]] = "none"]
    /\ Discard(x)
    /\ UNCHANGED <<rows, deleted, old, used, bounceable, lock, mainPc, todo, cur, bnc, restarts,
                   senderVars, ghostVars>>

\* A temporary error within queue_lifetime: the row waits for its next attempt.
ResultDeferred(x) ==
    /\ InResults /\ x \in taken /\ stage[x] = "temp" /\ x[1] \notin old
    /\ active' = active \ {x[1]}
    /\ due' = due \ {x[1]}
    /\ Discard(x)
    /\ UNCHANGED <<rows, deleted, old, file, used, bounceable, lock, mainPc, todo, cur, bnc,
                   restarts, senderVars, ghostVars>>

\* A fatal error, or a temporary one after queue_lifetime.
Failed(x) == x \in taken /\ (stage[x] = "fatal" \/ (stage[x] = "temp" /\ x[1] \in old))

\* ... of an item that cannot be bounced: DELETE and unlink.
ResultDropped(x) ==
    /\ InResults /\ Failed(x)
    /\ x[1] \notin bounceable
    /\ RemoveRow(x[1])
    /\ Discard(x)
    /\ dropped' = dropped \cup {x[1]}
    /\ UNCHANGED <<lock, mainPc, todo, cur, bnc, restarts, senderVars, accepted, released, early,
                   delivered, unrecorded, bounced, removed>>

\* Mutant: the original's row is deleted before BounceMessage is called.
DeleteThenBounce(x) ==
    /\ InResults /\ Failed(x)
    /\ x[1] \in bounceable
    /\ \E b \in BounceIds \ used :
          /\ rows' = (rows \ {x[1]}) \cup {b}
          /\ active' = (active \ {x[1]}) \cup {b}
          /\ due' = (due \ {x[1]}) \cup {b}
          /\ used' = used \cup {b}
          /\ bnc' = b
    /\ deleted' = deleted \ {x[1]} /\ old' = old \ {x[1]}
    /\ cur' = x
    /\ UNCHANGED <<file, bounceable, lock, stage, mainPc, todo, taken, restarts, senderVars,
                   ghostVars>>

\* BounceMessage: EnqueueMessage's INSERT for the bounce.
BounceInsert(x) ==
    /\ InResults /\ Failed(x)
    /\ x[1] \in bounceable
    /\ \E b \in BounceIds :
          /\ InsertActive(b, FALSE)
          /\ bnc' = b
    /\ cur' = x
    /\ UNCHANGED <<lock, stage, mainPc, todo, taken, restarts, senderVars, ghostVars>>

\* The bounce's file is opened and written ...
BounceWrite ==
    /\ cur # None /\ bnc # None
    /\ \/ file[bnc] = "none" /\ file' = [file EXCEPT ![bnc] = "partial"]
       \/ file[bnc] = "partial" /\ \E content \in Copied : file' = [file EXCEPT ![bnc] = content]
    /\ UNCHANGED <<rows, active, deleted, due, old, used, bounceable, lock, daemonVars,
                   senderVars, ghostVars>>

\* ... and the bounce is released at once (bInstantRelease = true).
BounceRelease ==
    /\ cur # None /\ bnc # None /\ lock = "free"
    /\ file[bnc] \in Copied
    /\ Deactivate({bnc})
    /\ released' = released \cup {bnc}
    /\ accepted' = accepted \cup {bnc}
    /\ bounced' = bounced \cup {cur[1]}
    /\ bnc' = None
    /\ UNCHANGED <<lock, stage, mainPc, todo, taken, cur, restarts, senderVars, early, delivered,
                   unrecorded, dropped, removed>>

\* EnqueueMessage fails: without a temporary file its active row stays behind,
\* without a queue file the row is deleted again.  BounceMessage returns false.
BounceFails ==
    /\ cur # None /\ bnc # None /\ lock = "free"
    /\ file[bnc] = "none"
    /\ UNCHANGED tableVars \/ RemoveRow(bnc)
    /\ dropped' = dropped \cup {cur[1]}
    /\ bnc' = None
    /\ UNCHANGED <<lock, stage, mainPc, todo, taken, cur, restarts, senderVars, accepted, released,
                   early, delivered, unrecorded, bounced, removed>>

\* The bounce ids of the model are used up: the enqueueing counts as failed.
NoBounceId(x) ==
    /\ InResults /\ Failed(x)
    /\ x[1] \in bounceable /\ BounceIds \subseteq used
    /\ cur' = x
    /\ dropped' = dropped \cup {x[1]}
    /\ UNCHANGED <<tableVars, lock, stage, mainPc, todo, taken, bnc, restarts, senderVars,
                   accepted, released, early, delivered, unrecorded, bounced, removed>>

\* After BounceMessage the original's row and file go.
BounceDone ==
    /\ cur # None /\ bnc = None /\ lock = "free"
    /\ RemoveRow(cur[1])
    /\ Discard(cur)
    /\ cur' = None
    /\ UNCHANGED <<lock, mainPc, todo, bnc, restarts, senderVars, ghostVars>>

\* ProcessResults returns; the main loop starts over.
ResultsDone ==
    /\ mainPc = "results" /\ taken = {}
    /\ mainPc' = "loop"
    /\ UNCHANGED <<tableVars, lock, stage, todo, taken, cur, bnc, restarts, senderVars, ghostVars>>

\* bQuit is set by a signal or the control connection; the main loop ends.
Quit ==
    /\ mainPc = "loop" /\ restarts < MaxRestarts
    /\ mainPc' = "stopping"
    /\ restarts' = restarts + 1
    /\ UNCHANGED <<tableVars, lock, stage, todo, taken, cur, bnc, senderVars, ghostVars>>

\* Mutant: the last results are read while workers are still delivering.
StopWithoutJoin ==
    /\ mainPc = "stopping"
    /\ mainPc' = "lastSwap"
    /\ UNCHANGED <<tableVars, lock, stage, todo, taken, cur, bnc, restarts, senderVars, ghostVars>>

\* threadPool->stop() has joined the workers.
WorkersStopped ==
    /\ mainPc = "stopping" /\ Working = {}
    /\ mainPc' = "lastSwap"
    /\ UNCHANGED <<tableVars, lock, stage, todo, taken, cur, bnc, restarts, senderVars, ghostVars>>

\* Mutant: the list is emptied, the rows are left as they are.
ClearQueueOnly ==
    /\ mainPc = "lastResults" /\ taken = {} /\ lock = "free"
    /\ stage' = [x \in Items |-> "free"]
    /\ mainPc' = "down"
    /\ UNCHANGED <<tableVars, lock, todo, taken, cur, bnc, restarts, senderVars, ghostVars>>

\* ClearQueue, then the process ends.
ClearQueue ==
    /\ mainPc = "lastResults" /\ taken = {} /\ lock = "free"
    /\ stage' = [x \in Items |-> "free"]
    /\ Deactivate({x[1] : x \in Queued})
    /\ mainPc' = "down"
    /\ UNCHANGED <<lock, todo, taken, cur, bnc, restarts, senderVars, ghostVars>>

\* The process dies; the server releases the table locks it held.
Crash ==
    /\ DaemonUp /\ restarts < MaxRestarts
    /\ restarts' = restarts + 1
    /\ unrecorded' = unrecorded \cup {x[1] : x \in {y \in Items : stage[y] = "success"}}
    /\ stage' = [x \in Items |-> "free"]
    /\ mainPc' = "down" /\ todo' = {} /\ taken' = {} /\ cur' = None /\ bnc' = None
    /\ lock' = "free"
    /\ UNCHANGED <<tableVars, senderVars, accepted, released, early, delivered, bounced, dropped,
                   removed>>

-----------------------------------------------------------------------------
(***************************************************************************)
(* The worker threads, WorkProcessor.                                      *)
(***************************************************************************)

WorkerOnly == UNCHANGED <<tableVars, lock, mainPc, todo, taken, cur, bnc, restarts, senderVars>>

\* A free worker pops an item; when the pool stops, one that was asleep still
\* does.
Pop(x) ==
    /\ DaemonUp /\ mainPc \notin {"lastSwap", "lastResults"}
    /\ stage[x] = "queued" /\ Cardinality(Working) < MaxThreads
    /\ stage' = [stage EXCEPT ![x] = "working"]
    /\ WorkerOnly /\ UNCHANGED ghostVars

\* The destination accepts what the queue file holds; WorkProcessor pushes the
\* result.
Deliver(x) ==
    /\ stage[x] = "working" /\ file[x[1]] # "none"
    /\ stage' = [stage EXCEPT ![x] = "success"]
    /\ delivered' = [delivered EXCEPT ![x[1]] = IF @ = 0 THEN 1 ELSE 2]
    /\ WorkerOnly
    /\ UNCHANGED <<accepted, released, early, unrecorded, bounced, dropped, removed>>

\* It accepts, but its answer does not arrive: the attempt counts as failed for
\* the time being.
DeliverUnanswered(x) ==
    /\ AnswersLost
    /\ stage[x] = "working" /\ file[x[1]] # "none"
    /\ stage' = [stage EXCEPT ![x] = "temp"]
    /\ delivered' = [delivered EXCEPT ![x[1]] = IF @ = 0 THEN 1 ELSE 2]
    /\ unrecorded' = unrecorded \cup {x[1]}
    /\ WorkerOnly
    /\ UNCHANGED <<accepted, released, early, bounced, dropped, removed>>

\* The attempt fails: for the time being (the only outcome when the file cannot
\* be opened before the destination is asked), or for good.
Fail(x, status) ==
    /\ stage[x] = "working"
    /\ stage' = [stage EXCEPT ![x] = status]
    /\ WorkerOnly /\ UNCHANGED ghostVars

-----------------------------------------------------------------------------
(***************************************************************************)
(* The control connection (a thread of the daemon), the administration     *)
(* interface and the clock.                                                *)
(***************************************************************************)

\* DELETE_QUEUEITEM, under its table lock.
ControlDelete(i) ==
    /\ "delete" \in Commands
    /\ TableFree /\ i \in rows \ active
    /\ RemoveRow(i)
    /\ removed' = removed \cup {i}
    /\ UNCHANGED <<lock, daemonVars, senderVars, accepted, released, early, delivered, unrecorded,
                   bounced, dropped>>

\* FLUSH_MSGQUEUE.
ControlFlush ==
    /\ "flush" \in Commands
    /\ TableFree
    /\ due' = due \cup (rows \ deleted)
    /\ UNCHANGED <<rows, active, deleted, old, file, used, bounceable, lock, daemonVars,
                   senderVars, ghostVars>>

\* CLEAR_MSGQUEUE: the files of the inactive rows go first ...
ControlClearFiles ==
    /\ "clear" \in Commands
    /\ TableFree
    /\ lock' = "control"
    /\ file' = [i \in Ids |-> IF i \in rows \ active THEN "none" ELSE file[i]]
    /\ removed' = removed \cup (rows \ active)
    /\ UNCHANGED <<rows, active, deleted, due, old, used, bounceable, daemonVars, senderVars,
                   accepted, released, early, delivered, unrecorded, bounced, dropped>>

\* ... then the rows.
ControlClearRows ==
    /\ lock = "control"
    /\ DeleteRows(rows \ active)
    /\ lock' = "free"
    /\ UNCHANGED <<file, used, bounceable, daemonVars, senderVars, ghostVars>>

\* The administration interface (not in this repository) marks a row.
AdminMark(i) ==
    /\ "mark" \in Commands
    /\ i \in rows \ deleted /\ lock = "free"
    /\ deleted' = deleted \cup {i}
    /\ UNCHANGED <<rows, active, due, old, file, used, bounceable, lock, daemonVars, senderVars,
                   ghostVars>>

\* attempts * queue_retry seconds pass.
BackOffOver(i) ==
    /\ i \in rows \ due
    /\ due' = due \cup {i}
    /\ UNCHANGED <<rows, active, deleted, old, file, used, bounceable, lock, daemonVars,
                   senderVars, ghostVars>>

\* queue_lifetime passes.
LifetimeOver(i) ==
    /\ i \in rows \ old
    /\ old' = old \cup {i}
    /\ UNCHANGED <<rows, active, deleted, due, file, used, bounceable, lock, daemonVars,
                   senderVars, ghostVars>>

-----------------------------------------------------------------------------
ProcessQueue == BeginRun \/ (\E i \in Ids : PurgeRow(i)) \/ Dispatch \/ DispatchNothing \/ MarkActive

ProcessResult(x) ==
    \/ ResultSuccess(x) \/ ResultDeferred(x) \/ ResultDropped(x) \/ BounceInsert(x) \/ NoBounceId(x)

ProcessResults ==
    \/ SwapResults \/ (\E x \in Items : ProcessResult(x))
    \/ BounceWrite \/ BounceRelease \/ BounceFails \/ BounceDone \/ ResultsDone

\* Every step of the main thread it takes by itself once it runs.
MainStep == ProcessQueue \/ SkipRun \/ ProcessResults \/ WorkersStopped \/ ClearQueue

WorkerStep(x) ==
    Pop(x) \/ Deliver(x) \/ DeliverUnanswered(x) \/ Fail(x, "temp") \/ Fail(x, "fatal")

Control == (\E i \in Ids : ControlDelete(i)) \/ ControlFlush \/ ControlClearFiles \/ ControlClearRows

Next ==
    \/ \E s \in Senders : SenderStep(s) \/ SenderCrash(s)
    \/ Reanimate \/ MainStep \/ Quit \/ Crash
    \/ \E x \in Items : WorkerStep(x)
    \/ Control
    \/ \E i \in Ids : AdminMark(i) \/ BackOffOver(i) \/ LifetimeOver(i)

Spec == Init /\ [][Next]_vars

\* The supervisor starts the daemon again; the main thread and the workers are
\* scheduled and get the table lock in turn with the other processes; the queue
\* interval makes ProcessQueue run again and again; attempts that were begun end;
\* time passes; a command of the control connection that was begun ends.  Nothing
\* makes the pool take an item: see QueuedItemIsTaken of ThreadPool.
Fairness ==
    /\ WF_vars(Reanimate) /\ SF_vars(MainStep) /\ SF_vars(BeginRun)
    /\ WF_vars(ControlClearRows)
    /\ \A x \in Items : SF_vars(stage[x] = "working" /\ WorkerStep(x))
    /\ \A i \in Ids : WF_vars(BackOffOver(i)) /\ WF_vars(LifetimeOver(i))

FairSpec == Spec /\ Fairness

-----------------------------------------------------------------------------
(***************************************************************************)
(* Properties.  A row re-animated before its enqueueing was released (see  *)
(* Reanimate) is excepted where early is mentioned.                        *)
(***************************************************************************)

TypeOK ==
    /\ rows \subseteq used /\ used \subseteq Ids
    /\ active \subseteq rows /\ deleted \subseteq rows /\ due \subseteq rows /\ old \subseteq rows
    /\ file \in [Ids -> {"none", "partial", "whole", "truncated"}]
    /\ bounceable \subseteq used
    /\ lock \in {"free", "daemon", "control"}
    /\ stage \in [Items -> {"free", "queued", "working"} \cup ResultSt]
    /\ mainPc \in {"down", "loop", "purge", "mark", "swap", "results",
                   "stopping", "lastSwap", "lastResults"}
    /\ todo \subseteq Ids /\ taken \subseteq Items
    /\ cur \in Items \cup {None} /\ bnc \in BounceIds \cup {None}
    /\ restarts \in 0..MaxRestarts
    /\ sPc \in [Senders -> {"idle", "assemble", "copy", "finish", "next", "reply", "ok",
                            "failed", "unlinked", "rejected", "dead"}]
    /\ sIds \in [Senders -> SUBSET Ids] /\ sCur \in [Senders -> Ids \cup {None}]
    /\ accepted \subseteq released /\ released \subseteq used /\ early \subseteq used
    /\ delivered \in [Ids -> 0..2]
    /\ unrecorded \subseteq Ids /\ bounced \subseteq Ids
    /\ dropped \subseteq Ids /\ removed \subseteq Ids

\* ProcessQueue locks the table "to avoid double processing": there is never
\* more than one MSGQueueItem for a row; its row exists and is active, or about
\* to be marked by the thread that holds the lock, so that neither the control
\* connection nor the purge loop may remove it; and it had been released.
InFlightOnce ==
    \A i \in Ids \ early : InFlight(i) # {} =>
        /\ \A c, d \in InFlight(i) : c = d
        /\ i \in active \/ (mainPc = "mark" /\ i \in todo)
        /\ i \in rows /\ i \in released

\* A message that was accepted stays in the table until it was delivered, its
\* bounce released, its failure reported in the log, or it was removed by an
\* administrator, whatever crashes in between.
NeverLost ==
    \A i \in accepted \ rows :
        delivered[i] > 0 \/ i \in bounced \cup dropped \cup removed

\* An accepted message that is still queued has its queue file, written to the
\* end, unless an administrator asked for its removal: no crash between the
\* unlink and the DELETE of one row, and no bounce, takes it away.
AcceptedHasFile == \A i \in (accepted \cap rows) \ removed : file[i] \in Copied

\* While the daemon runs, an accepted message whose row is active is in flight:
\* no message is left behind in a state ProcessQueue never selects.
ActiveIsInFlight == DaemonUp => \A i \in accepted \cap active : InFlight(i) # {}

\* A message is delivered more than once only when the daemon could not know of
\* an attempt that had succeeded: a crash lost its result, or the destination's
\* answer never arrived.
DeliveredOnceUnlessUnrecorded == \A i \in Ids \ early : delivered[i] = 2 => i \in unrecorded

\* When the client is told 451, none of the message's instances is delivered
\* and none stays in the queue.  (The row that EnqueueNoTmpfile leaves behind is
\* none of them: its id was not kept.)
AllOrNothing ==
    \A s \in Senders : sPc[s] = "rejected" =>
        \A i \in sIds[s] \ early : delivered[i] = 0 /\ i \notin rows

\* The thread pool never holds more than QUEUE_RUN_MAX waiting items.
QueueBounded == Cardinality(Queued) <= QueueRunMax

\* A daemon that stops in order leaves no accepted message active: what was in
\* flight is recorded or marked as waiting again.  (Only ClearQueue goes down
\* without counting a restart; Crash counts one.)
CleanStop ==
    [][DaemonUp /\ mainPc' = "down" /\ restarts' = restarts => active' \cap accepted' = {}]_vars

\* The queue implements the store-and-forward promise: every step is one of
\* StoreAndForward or changes nothing it can see.
Promise == INSTANCE StoreAndForward WITH
    Mail <- Ids, stored <- rows, promised <- accepted,
    delivered <- {i \in Ids : delivered[i] > 0},
    returned <- bounced \cup dropped, withdrawn <- removed

KeepsPromise == Promise!Spec

\* An item waits in the pool's queue for ever: the broadcast for it came while all
\* static threads were between threadMain's unlock and popJob's wait
\* (threadpool.cpp:228, 313), and nothing wakes them again.
ItemIsStuck == \E x \in Items : [](stage[x] = "queued")

\* Every accepted message eventually leaves the queue, through crashes, restarts
\* and failing attempts, unless the pool is stuck with it or with another one,
\* which may keep the row from being read.
AcceptedLeaves == \A i \in Ids : i \in accepted ~> (i \notin rows \/ ItemIsStuck)

=============================================================================
