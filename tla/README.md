# b1gMailServer in TLA+

TLA+ modules, TLC configurations and TLAPS proofs kept beside the source of
b1gMailServer (C++, `src/src/`).  Paths below are relative to `src/src/` unless
they begin with `src/`.  `PROJECT.json` holds the same information for tools:
components, runs, mutants, the lines each definition models, findings, hazards
and theorems.

## 1. The system

b1gMailServer is a set of processes around one MySQL database:

* `bms-queue` (`msgqueue-supervise/main.cpp`) is started by the init script; it
  starts `b1gmailserver --msgqueue`, the **queue daemon**, and restarts it.
* The daemon (`msgqueue/`) has a main thread, a **pool of worker threads**
  (`core/threadpool.cpp`), a **control thread** that serves a local TCP port
  (`control.cpp`), and a thread for push notifications (`apnsdispatcher.cpp`).
* **SMTP, POP3, IMAP and HTTP servers** are processes, one per connection,
  started by an inetd-like super server.  SMTP servers (and the daemon itself,
  for bounces) fill the table `bm60_bms_queue` and the queue files.
* The web front end shares the same tables; it marks rows `deleted=1`.

The processes meet in the database (rows, `LOCK TABLES`), in the file system
(queue files, blobs, the pid file) and on the control port.  Inside the daemon
the threads meet in `queueLock`, the results queue, and a few plain flags.

### 1.1 Components

| component (source) | state | operations | talks to | hard behaviour | what makes it correct |
|---|---|---|---|---|---|
| Thread pool (`core/threadpool.cpp`) | queue, thread lists, `busyThreads`, `createdThreads`, `run` | start, addToQueue, grow, shrink, stop, popJob | queue daemon | condition waits, time-outs, threads that end while the owner counts them | an item runs once; counters are right; stop ends and leaves nobody |
| Queue daemon (`msgqueue/msgqueue.cpp`) | rows, files, results queue | ProcessQueue, ProcessResults, WorkProcessor, ClearQueue | pool, table, enqueueing processes | crash anywhere, other writers of the table, order of delivery and record | nothing accepted is lost; nothing is in flight twice; all leaves the queue |
| Enqueueing (`msgqueue/enqueue.cpp`) | row, temporary file, queue file | EnqueueMessage, ReleaseMessages, DeleteMessages | SMTP server, bounces | failure after each step, daemon starting meanwhile | all recipients or none |
| Bounces (`msgqueue/bounce.cpp`) | the bounce's row and file | BounceMessage | daemon | crash between bounce and removal of the original | original not removed before the bounce is released |
| Control connection (`msgqueue/control.cpp`) | connection, `bQuit` | delete, flush, clear, restart, APNS notify | daemon, table | works on the table beside the daemon | never touches a message in flight |
| APNS dispatcher (`msgqueue/apnsdispatcher.cpp`) | send queue, sent buffer, ids | enqueue, run, reenqueueAfterError | push service | one late error for an earlier message | what was discarded is sent again, what was settled is not |
| Daemon threads (`msgqueue.cpp`, `control.cpp`) | `bQuit`, `control`, `apnsDispatcher`, `isRunning` | start, quit, join | signals | flags and pointers without locks | a stopping daemon stops; no use of a deleted object |
| Supervisor (`msgqueue-supervise/main.cpp`) | pid file, `bStop`, `pQueue`, counters | fork, wait, restart, signals | daemon, init script | a signal between any two statements | no daemon without supervisor; a stop is carried out |
| Outbound delivery, SMTP client sessions (`msgqueue_outbound.cpp`, `smtpsession*.cpp`) | pooled sessions, dialogue | deliver, put back, clean up | remote servers | late answers on a reused session | success only if that message was accepted |
| Inbound delivery (`msgqueue_inbound.cpp`, `inboundprocess*.cpp`, `core/process.cpp`) | pipe processes | feed, reuse, close | b1gMail's CLI | a child that hangs or is gone | every attempt ends; success means it was stored; no zombie, no stray signal |
| SMTP server (`smtp/`) | session state, recipients, limits, `today_sent` | commands, DATA, logout | clients, table, other sessions | parallel sessions and limits; commands in any order | limits hold; a message goes to its recipients only |
| Milter, SPF (`smtp/milter.cpp`, `smtp/spf.cpp`) | protocol state; lookups | filter; evaluate | milters; DNS | partial answers; recursion limits | verdict applied once; result as in RFC 4408 |
| POP3 server (`pop3/`) | list of the session, marks, totals | USER, PASS, DELE, RSET, QUIT | mailbox tables, blobs | other sessions delete the same messages; killed in QUIT | space refunded once; totals are those of what is listed |
| IMAP server (`imap/`) | list, flags, generation read, folders | SELECT, STORE, EXPUNGE, COPY, APPEND, DELETE, IDLE ... | mailbox tables, blobs | works on a list that other sessions make stale | sequence numbers mean the same to client and server; no change goes unnoticed; only what was asked for is deleted |
| Blob storage (`core/blobstorage.cpp`) | open SQLite files, transaction counter | store, delete, beginTx, endTx | servers | failed BEGIN or COMMIT | counter matches the database |
| Mail parser, DNS, HTTP, plug-ins, configuration, sockets, sendmail, Windows parts, installers, vendored code | - | - | - | little or no shared state | not modelled, reasons in section 7 |

## 2. Modules

| module | models | composed with |
|---|---|---|
| `WorkPool` | abstract: what a pool of workers promises its owner | - |
| `ThreadPool` | `ThreadPool`'s owner and workers | implements `WorkPool` |
| `ThreadPoolProofs` | theorems about it | extends `ThreadPool` |
| `StoreAndForward` | abstract: what a queue promises for a message | - |
| `MsgQueue` | table, files, daemon, senders, control connection, administration | implements `StoreAndForward` |
| `MsgQueueProofs` | theorems about it | extends `MsgQueue` |
| `Supervisor` | `bms-queue` processes, their daemons, signals | - |
| `QueueLoop` | the daemon's main loop: what makes it look at the queue and at results | - |
| `DaemonThreads` | start, stop and join of the daemon's threads, with the main loop as one of them | extends `QueueLoop` |
| `LifecycleProofs` | theorems about the supervisor, the loop and the threads | extends `Supervisor`, `DaemonThreads` |
| `SmtpClient` | `DeliverOutbound`, sessions and their pool, remote servers | - |
| `InboundPipe` | `ProcessInbound`, pipe processes and their pool, pids | - |
| `Delivery` | a daemon that delivers by one or the other | extends both |
| `DeliveryProofs` | theorems about both sides, for every behaviour of `Delivery` | extends `Delivery` |
| `SmtpServer` | SMTP server processes, limits, milters | - |
| `SmtpServerProofs` | theorems about it | extends `SmtpServer` |
| `Apns` | the dispatcher, one connection at a time, and the push service | - |
| `ApnsProofs` | theorems about it | extends `Apns` |
| `Mailbox` | rows, bodies, account and generation of one user; the statements on them | - |
| `Pop3`, `Imap` | server processes on that mailbox | extend `Mailbox` |
| `MailServers` | both and the rest of b1gMail side by side | extends `Pop3`, `Imap` |
| `MailServersProofs` | theorems about them | extends `MailServers` |
| `FoldTheorems` | lemmas about sums over sets and folds over lists | used by `SmtpServerProofs`, `MailServersProofs` |
| `MC...` | TLC instances (symmetry sets) of each | extend the module |

**ThreadPool.**  The owner is `MSGQueue`'s main thread: `Start`, `LockQueue`,
`AddToQueue` (which may grow), `UnlockQueue`, `Shrink`, `Stop` (the broadcast),
`Join`, `Stopped`.  A worker goes around `threadMain`: `AtPop`/`Pop...`
(`popJob`), `Work`, `Check`, and `PushFinished` for a dynamic thread that ends.
A critical section under `queueLock` is one step; `pthread_cond_wait` is two,
the sleep and the wake-up by a signal, a time-out or for no reason.  `skipWait`,
`isBusy` and the counters are those of the code.  Items are fresh pointers.

**WorkPool** says only: an item waits, is worked on, is finished; the oldest one is
taken next, each once; a closed pool has nobody at work.  `ThreadPool` is shown to
implement it under the mapping `Pool`; growing, shrinking, sleeping and every wake-up are
stutters.

**MsgQueue.**  One step is one SQL statement, one file operation or one critical
section.  A row is an id in `rows`, its columns are sets (`active`, `deleted`),
time is two flags (`due`: the retry delay is over; `old`: past
`queue_lifetime`).  `stage` says where each `MSGQueueItem` object is: in the
pool's queue, with a worker, or in the results with an outcome.  The daemon's
main thread is `Reanimate` (start), `BeginRun`, `PurgeRow`, `Dispatch`,
`MarkActive` (ProcessQueue, with the table lock), `SwapResults`,
`Result...`, `Bounce...`, `ResultsDone` (ProcessResults), `Quit`,
`WorkersStopped`, `ClearQueue`; `Crash` may happen anywhere.  Workers are
`Pop`, `Deliver`, `DeliverUnanswered` (the destination took the message, its
answer never came) and `Fail`.  Senders are SMTP servers between the start of
their enqueue loop and the reply: `EnqueueInsert`, `EnqueueNoTmpfile`,
`EnqueueOpen`, `EnqueueNoFile`, `EnqueueCopy`, `EnqueueFinish`, `Release`,
`DeleteFiles`, `DeleteMessages`, `Reply`, `SenderCrash`.  The daemon enqueues a
bounce by the same function, in the actions `Bounce...`.  The delivery itself
is abstracted to its outcome.

**StoreAndForward** says only: a message is stored, promised (by a 250 reply or by
releasing a bounce), delivered, returned or withdrawn, and a promised message
leaves the store only when one of the last three has happened.  `MsgQueue`
is shown to implement it under the mapping `Promise`; a crash, a restart and
every step of the enqueueing protocol are stutters or promised steps.

**Supervisor.**  One process per invocation, several side by side; `SendSignal` runs
the handler between any two steps, so a signal can come between the test of
`bStop`, the fork and the assignment of `pQueue`.  `fork()` may fail (`ForkFails`), and
`waitpid()` with it, or because SIGCHLD was ignored at the start and the daemon was
reaped by the system (`WaitFails`); both end the supervisor.  The daemon is a child that
advances from `forked` to `running`, quits, crashes or fails to start.  How long
it ran is a choice made when it is reaped (`Reap`), as the code only compares it
with five seconds.

**QueueLoop.**  `MSGQueue::Run` between two conditions of its loop: `Round`,
`Select`, `SelectFails`, `LeaveWait` (the wait of 100 ms slices), `Woken` and `Drain`
(`FD_ISSET` and the reading of inotify events), `Check` (the three reasons to process
the queue), `Unwatch` and `Watch` (the watch is removed, the file touched, watched again
and its time noted), `ProcessQueue`, `ProcessResults`.  Workers (`Work`) and other
processes (`ReleaseRow`, then `TouchFile`) run beside it.  Time stamps are reduced to
what the loop concludes from them: `newer`; a touch in the second in which the time was
noted does not make it true.  `fdSet` starts as garbage, as it does on the stack.

**DaemonThreads.**  One step is one access to a shared flag or pointer; the main
thread's loop is that of `QueueLoop`.  While the control thread has a connection
(`AcceptConnection` until `ConnectionEnds` or `RestartCommand`) it looks at no flag of the
daemon's, and neither does the dispatcher while it talks to the push service (`ApnsCall` until
`ApnsReturns`).

**SmtpClient.**  A worker goes through `DeliverOutbound`: `StartMail`, `GetSession`,
`BeginSession` or `BeginFails` (next MX server), `OpenFails`, then one command a step,
`Rset`, `MailFrom`, `RcptTo`, `Data`, `EndOfData`, all by `Command`: it is sent, the
server answers at once or not at all, and the worker reads the next answer or gives up.
An answer nobody read stays in `link.answers` for the next reader, as in the socket.
`throwError`'s choice between a final and a temporary error is `FinalCodes`; after a
temporary one the session goes back to the pool (`PutBack`), dirty.  `CleanUp` and
`CleanedUp` are `cleanUp`, which holds the pool's lock while the session says QUIT.
`WriteTimesOut` is the exception nobody catches: the process ends.  The server is an SMTP
server that takes commands in their place and refuses others; ghosts note
which text it took for whom (`taken`) and how many answers were outstanding
when a session was put back (`lag`).

**InboundPipe.**  A worker goes through `ProcessInbound`: `StartParcel`, `BeginChild` and
`BeginAgain` (the two calls of `IsRunning`), `Open`, `HandOver`, `ReadReply`, and
`Process::Close`: `CloseInput`, `WaitOver` or `WaitTimesOut`, `SendTerm`, `TermReap`,
`TermGone`, `SendKill`, `FinalWait`.  Each system call is a step.  The kernel's side is
part of the model: a pid belongs to a child until `waitpid` takes it, then to
anybody (`Stranger`) or to the next child; a child sees the end of its input when nobody
holds the other end, and children forked meanwhile inherit that end (`writers`).

**Delivery** lets a daemon have items of one kind; the two kinds share nothing
but the thread.

**SmtpServer.**  `smtp[s]` is one process.  `Helo`, `Auth`, `Mail`, `Rcpt`, `Rset`,
`Data` are the commands as far as they are accepted; a refused command changes nothing
in the session but its error counter, and the counter's effect is `Leave` (with the
saving of `today_sent`).  ProcessMessage is `RefuseData`, `CheckLimit`, `Count` (two
statements), the milters one after the other (`NextFilter`, `FilterDecides`,
`FilterContinues`, `FilterChanges`, `FilterFails`), and `Enqueue`, after which
`AfterRset` is the silent RSET.  `Kill` may come anywhere.  `sendStats` and `dayLimit`
are the configuration, chosen in `Init`: both tables of the limit are modelled.  What
the queue does with an enqueued message is `MsgQueue`'s.

**Apns.**  The dispatcher's `run` loop (`Connect`, `Take`, `CheckError`,
`CheckIdle`, `CheckNone`, `Send`, `SendFails`) against a service that accepts
in order, or rejects one notification with its id and discards what follows;
connections end at any time.  With a connection goes what was on the wire (`lost`) and a
rejection nobody has read (`Unheard`): what the service discarded behind it is `unread`, unless
it waits in the queue.  `IdModulus` is what `htons`/`ntohs` leave of
an id, `SentCapacity` the size of the sent buffer.

**Mailbox.**  A row of `bm60_mails` is an id with its folder, its size and two flags:
`flagged` is FLAG_DELETED, `recent` the lack of FLAG_SEEN; other flags are not
told apart.  `used` is `mailspace_used`, `gen` is `mailbox_generation`.  Nothing
is locked: each operator is one statement and each statement one step.
What the web front end and the delivery pipe do meanwhile is `Delivered` and `Moved`.
Several ghosts keep the books of what the tables cannot tell: what clients wanted
deleted (`wanted`, `ordered`), and by what the account may be off and why (`unpaid`
and `lost` by killed processes, `clamped` by LEAST, `overpaid` and `lost` by the
DELETE of a folder).

**Pop3.**  `pop[p]` is one process.  Its commands only work on the list of its
PASS; QUIT is `QuitBlob` and `QuitRow` for each marked message, `QuitRefund`,
`QuitGeneration`, and the process may be killed between any two of them.

**Imap.**  `imap[s]` is one process.  `Begin` is `ProcessLine` for a command
that refreshes the list first, if the generation has changed; `Refresh` is
`FetchMessages` and `ReportDelta`, `WriteBack` the flags FetchMessages writes.  STORE
(and the \Seen of FETCH), LOGOUT and the start of IDLE do not refresh, as in the
code.  ReportDelta walks along the old list with an index into the new one
(`WalkOn`, a fold) and says EXPUNGE for what it does not meet (`Expunges`).  `client` is
what the untagged lines have told the client, who removes what an EXPUNGE names (`Without`)
and takes what EXISTS adds (`Told`); it is compared with the list of the server.  A UID is the
id of its message, and a list is sorted by it (`InOrder`).

### 2.1 How they fit together

`MsgQueue` takes from the pool what `WorkPool` promises (an item is taken at most
once; nobody works after `stop()`) and treats it as a set of queued
items of which a worker takes any.  `QueueLoop` says when `BeginRun` and
`SwapResults` happen: whenever there is something to do, the queue interval aside.
`DaemonThreads` puts that loop among the other threads and gives the order in which
the threads of the process `MsgQueue` calls "the daemon" are joined.  `Delivery` is
what stands behind `Deliver`, `DeliverUnanswered` and `Fail`: a success means that the
destination took the message, and an attempt ends, with the exceptions of section 4.
`SmtpServer` ends where `MsgQueue`'s sender begins.  `Supervisor`
is why `Reanimate` is fair: an ended daemon is started again.

Each module has a type invariant (`TypeOK`, `LoopTypeOK`) that documents its variables or
a comment at each variable.  Types are theorems (section 5), and no run spends its time on them.
The exception is `MailServers`: its `TypeOK` holds on the instances of both its runs; proved
are the parts of it the other theorems need (that records keep their fields, that counters of
octets and messages are numbers, that lists are sequences of messages in order).

## 3. Runs

Five minutes is the limit we set for one run.  All passing runs of `MsgQueue` and
`ThreadPool` check for deadlock; the others end (all processes or sessions have
ended, all notifications or messages are sent), so `CHECK_DEADLOCK` is off there.

| run (cfg) | bounds | shows |
|---|---|---|
| `pool` (MCThreadPool) | 1 static, 2 dynamic threads, 4 items | `EachItemOnce`, `PoolAccounting`, the refinement `IsWorkPool` and, under fairness, `StopReturns` and `SleepingDynamicRescues` |
| `pool_lost` (MCThreadPoolLost) | 2 static threads, 2 items | violation: `QueuedItemIsTaken` |
| `queue` (MCMsgQueue) | one message, one bounce, one worker, one crash or stop, QUEUE_RUN_MAX 1, answers may be lost, delete/flush/clear commands | `NeverLost`, `AcceptedHasFile`, `ActiveIsInFlight`, `DeliveredOnceUnlessUnrecorded`, `CleanStop`, and the refinement `KeepsPromise` |
| `queue_rows` (MCMsgQueueRows) | a message to two recipients, two workers, QUEUE_RUN_MAX 1, full disk, rows marked deleted or deleted by command | `InFlightOnce`, `AllOrNothing`, `QueueBounded` |
| `queue_live` (MCMsgQueueLive) | one message, two crashes or stops, full disk, clear commands | `AcceptedLeaves` |
| `supervisor` (MCSupervisor) | two invocations, two signals, two short runs to give up | `NoOrphan`, `StopIsCarriedOut` |
| `apns` (MCApns) | 4 notifications, one malformed, 4 connections, room for 3 in the buffer | `RestIsReenqueued`, `SettledIsNotResent` |
| `daemon` (MCDaemonThreads) | APNS enabled, any number of connections, commands and calls of the push service, QUEUE_RUN_MAX 1 with 1 worker (so that line 382 wraps, at 16), 2 rows | `GoneMeansAlone`, `NoLostNotification`, `StopsOnceUp`, `ControlEndsDaemon`, `LoopServes` |
| `mailbox` (MCMailbox) | one POP3 and one IMAP session, two commands of IMAP, imap_autoexpunge, two messages of two sizes, one delivery or move from outside, one killed session | `SpaceAccounted`, `BodyKept` |
| `imap_lists` (MCImapLists) | two IMAP sessions, three commands, three messages, imap_limit 2 | `OnlyWantedGo`, `ClientInSync`, `ListCurrent` |
| `delivery` (MCDelivery) | two workers, two messages; by SMTP: two sessions, two MX servers, three attempts, two late answers; by pipe: two processes, two pids, with and without keep-alive and queue_timeout | `OwnedOnce`, `SuccessIsTaken`, `FatalIsOwn`, `DeliveredIsStored`, `NoZombieLeft`, `StraySignals`, `CarriersReturn` |
| `smtp` (MCSmtpServer) | two sessions of a user, a local and a remote recipient, limit 3, two milter tables, one message past the limit check each | `LimitKept`, `TodayCounts`, `SentAsAsked`, `FiltersObeyed` |

Why the bounds suffice.  A missed wake-up needs one sleeper and one item in
flight between check and wait; a wrong counter needs a dynamic thread that ends
while another grows: two dynamic
threads beside a static one, and more items than threads.  The queue's hazards are about one row:
its insertion, flight, record, bounce and removal, each interrupted by a crash and
a restart; the objects of two attempts for one id are told apart by two
addresses (`Copies`).  Two rows come in where one must not stand for
another: `AllOrNothing`, `QueueBounded` and the purge of marked rows.  For
the supervisor, two invocations are what a race on the pid file needs, and two
signals what "stop, then reload" needs; that it gives up after six short runs in the code and two
here changes how long it takes, not what can happen.  An answer that gets lost is for
the row a temporary failure, so `queue_live` leaves it to `queue`.  For Apns, a rejected notification with
one before and two behind it covers every branch of `reenqueueAfterError`.
In a mailbox the hazards are about one message that two parties delete, move
or copy; the flags it may start with stand for earlier sessions, so that two
commands are enough to delete it from either side, and the LOGOUT that
expunges comes on top of them.  A stale list needs two sessions, one command to select in
each and one to change the mailbox; three messages against a limit of two make
the window of visible messages slide.  The loop's hazards need one row released while
another run is under way, and one more than QUEUE_RUN_MAX.  A late answer needs two messages on
one session; with two late reads an answer can be taken for that to a command two
places later, which is what the permanent errors of `FatalIsOwn` need; four, which a wrong success
needs, are beyond this bound, and the condition `lag < 4` of `SuccessIsTaken` is what larger
instances have shown to be the limit.  A pid that is used again needs
two workers and two pids.  Two sessions are what a limit that is checked and counted in two
statements needs, and two recipients what tells a recipient from those left by another
transaction; a transaction that is refused or broken off does not count against the one
message, so that a second one follows.

Every property of a passing run is refuted by a mutant: an operator kept next
to the definition it changes ("Mutant:" in its comment), for example `Join`
without waiting, `Reanimate` left out, `DELETE` before the bounce, an unanswered
end of DATA taken for success, the limit not checked again.

### 3.1 Fairness

* ThreadPool: weak fairness of each worker and of the owner's stop; wake-ups
  from a timed wait happen (`TimeOut`), because `pthread_cond_timedwait`
  returns.  No fairness among items.
* MsgQueue: weak fairness of the start (the supervisor restarts a daemon that
  ended), of time passing for a row (`BackOffOver`, `LifetimeOver`) and of
  the second half of a clear command; strong fairness of the main thread and of
  workers at an item, whose steps need the table lock that other processes take and
  release again and again, and of `BeginRun`, which the queue interval makes the
  main thread take again and again.  That an attempt ends is part of a worker's
  fairness; `CarriersReturn` shows it of inbound pipes, with the exception it names.
  That the pool takes an item is not assumed (`pool_lost`): `AcceptedLeaves` excepts a pool
  that is stuck with one (`ItemIsStuck`).
  Crashes are bounded by `MaxRestarts`: a daemon that crashes for ever delivers
  nothing.
* Supervisor: processes are scheduled; a daemon that is quitting ends.  `DaemonThreads` shows
  that (`StopsOnceUp`) of one whose threads are up and none of which waits for ever; a daemon that
  does wait keeps its supervisor waiting too.
* QueueLoop, DaemonThreads: the three threads are scheduled, and a process that has released a
  row touches the file.  Nothing makes a signal or a command come, a client end its
  connection, the push service answer, or the pool take an item, and the queue interval never
  ends.  `StopsOnceUp` and `LoopServes` name what that leaves: a thread that waits for ever
  (`WaitsForEver`), items that stay in the pool.  `LeaveLoop` includes the join of the
  workers: they end once `stop()` is called (`StopReturns`) if their attempts do
  (`CarriersReturn`).
* InboundPipe (`PipeFairness`): a worker is scheduled (`Carry`); the 5 s after SIGTERM end
  (`TermOver`); a child that has its whole input stores it, answers or ends (`Works`), as
  `pipe.php`, which is not part of the repository, has a time-out of its own.  Without
  that time-out a worker would wait for ever for an answer, or, without queue_timeout, for the
  end (`inboundprocess.cpp:107`).
* Nothing of SmtpClient or SmtpServer is assumed to happen; only safety is stated of them.

## 4. What the code does otherwise than it says

Shown by a run that must fail:

* `pool_lost`: `threadMain` looks for more jobs under the lock, releases it, and
  `popJob` waits without looking again.  An item signalled in between wakes
  nobody and stays until the next `addToQueue`, in a pool of static threads.  Its row stays
  active meanwhile and is not selected again, for ever if nothing else is queued, or if the
  pool's queue is full of such items: excepted in `AcceptedLeaves` (`ItemIsStuck`), and in
  `LoopServes` (`inPool > 0` for ever).

Part of the models, without a run of their own.  Queue and daemon:

* The start of the daemon makes every `active=1` row inactive, also one another process is
  still writing (`msgqueue.cpp:215`).
* A short `fwrite` ends the copy and nobody is told (`enqueue.cpp:572`); the message is
  released and answered with 250.
* `fdSet` is tested although no `select()` may have filled it, or one that was interrupted
  (`msgqueue.cpp:324`); then `read` waits for an event that need not come (`Blocked`, excepted in
  the liveness properties).
* The test of line 382 is unsigned and always true when more than half of QUEUE_RUN_MAX
  workers are configured; the effect is that the rest of the queue is read too early, not
  too late.
* `ProcessResults` asks the greylist for the literal `%d` (`msgqueue.cpp:561`), so that no row
  is found.  (Greylisting is not modelled.)
* Without a temporary file `EnqueueMessage` returns 0 and leaves its row behind
  (`enqueue.cpp:304`), which the next start of the daemon turns into a message,
  although the client was told 451 (`smtp_data.cpp:398`).
* 32-bit ids go through `htons`/`ntohs` (`apnsdispatcher.cpp:251`); with more
  notifications than 16 bits can tell apart an error names the wrong one.
* A dynamic worker can end without having timed out (`threadpool.cpp:308`
  takes every NULL of `popJob` for a time-out); no item is lost by it.
* A SIGTERM handled between the test of `bStop` and the assignment of the daemon's pid
  (`msgqueue-supervise/main.cpp:95-97`) stops no daemon, and `waitpid` waits for it.
* Two invocations of `bms-queue` that check the pid file (line 52) before either
  writes it (line 86) both become supervisors.
* A daemon told to quit before its control thread has stored `control`
  (`msgqueue.cpp:454`) does not tell that thread and joins it for ever; the
  same for a dispatcher whose `run()` sets `isRunning` after `quit()`
  (`apnsdispatcher.cpp:385`).  `StopsOnceUp` therefore speaks of a daemon whose
  threads are up.
* An open control connection looks at a flag of its own only (`control.cpp:50`): a client that
  sends a line within every `MSGQUEUE_CONTROL_TIMEOUT` keeps the control thread, and so the main
  thread that joins it, from ending.  The dispatcher's `connect`, handshake, `SSL_write` and
  `SSL_read` have no time-out (`apnsdispatcher.cpp:189`, 205, 272, 302) and keep the join of its
  thread waiting (line 450 of `msgqueue.cpp`).  Both are excepted in `StopsOnceUp`
  (`WaitsForEver`).
* When `sendMessage` fails (`apnsdispatcher.cpp:510-517`), for a malformed token or because the
  service has closed the connection after `checkForErrors` found nothing, the connection is
  given up without reading a rejection that has come meanwhile: what the service discarded
  behind it is not sent again, against the comment of line 369 (`unread`, excepted in
  `RestIsReenqueued`).

Delivery:

* A session goes back to the pool with answers outstanding (`smtpsession.cpp:61`).  Two late
  answers are enough for a message to fail for good on another's answer, four for a
  message to be taken for delivered, or for texts to be mixed (`lag` in `FatalIsOwn` and
  `SuccessIsTaken`).
* `Socket::Write` throws an exception that `DeliverOutbound` does not catch: a write that times
  out ends the daemon (`WriteTimesOut`).
* `cleanUp` waits for the answer to QUIT with the pool's lock held; a dead session goes back
  to the pool like any other; `sess->useTLSA` is read after the session was put back
  (`msgqueue_outbound.cpp:469`); a short read of the queue file ends the text and the dot is sent
  all the same (`smtpsession.cpp:238`).  The last two are not in the model.
* `InboundProcess::beginSession` asks `IsRunning` twice; if the child ends in between, the
  `Process` object is lost (`inboundprocess.cpp:44`).
* `IsRunning` takes the child's exit status; the `Close` that follows waits 5 s for, and signals,
  whoever has the pid now, and its last `waitpid` may wait for, or take, another worker's
  child (`process.cpp`; ghosts `stray` and `stolen`, excepted in `StraySignals`,
  `DeliveredIsStored` and `CarriersReturn`).
* Children inherit the write ends of the pipes of children that were started before them, and these
  see the end of their input only when both have been closed (`utils.cpp`, POpen).

SMTP server:

* The limit is checked and counted in two statements (`smtp_data.cpp:98-150`), although
  the comment above them is about parallel sessions; it is not checked at all while the
  table has no row of the user (SUM is NULL), and RCPT allows one recipient more than DATA.
  `LimitKept` says how far it is exceeded by that.
* `today_sent` is overwritten by sessions that logged in before the day's first save
  (`smtp.cpp:448`), and always without a `send_limit`; instances that were deleted again
  are counted.
* HELO in the middle of a transaction keeps the recipients (`smtp.cpp:516`); RSET before HELO
  permits MAIL.
* The silent `Rset` at the end of DATA undoes the decision of an error limit or a milter to close
  the connection (`smtp_data.cpp:426`).
* A milter's CONTINUE as its first answer to the end of the body makes `process` wait for another
  one, and the default action decides; a milter that fails with the default "accept" leaves
  what it has changed so far; one that removes all recipients gets a 250 and nothing is queued.

The other components:

* A sent buffer shorter than what is in flight behind a rejected notification
  (`apnsdispatcher.cpp:362,505`) re-sends nothing.
* APPEND reads the list of the selected mailbox anew and tells the client nothing
  (`imap/auth.cpp:245`); from then on the two may disagree about sequence numbers
  (ghost `untold`, excepted in `ClientInSync`) until the next SELECT.
* SELECT reads the messages first and the generation after them (`imap/auth.cpp:321-322`): what
  changes in between stays unseen until the next change (ghost `raced`, excepted in
  `ListCurrent`).
* `DeleteFolder` adds up sizes first and deletes whatever is in the folder later
  (`imap/imaphelper.cpp:1196-1236`): messages that leave or enter in between are refunded
  although they stay or are refunded twice, or not at all (ghosts `overpaid`, `lost`).  It also
  deletes attachments whose mail id is the id of the folder (line 1228).
* STATUS before the first SELECT uses `bReadonly` uninitialised.
* `FetchMessages` leaves one message less than the limit when it cuts (line 727).
* STORE, FETCH and `FetchMessages` write the whole column of flags from the session's
  list and undo what another session has set meanwhile; EXAMINE does not keep STORE
  and EXPUNGE from working; LOGOUT expunges by a list that was not refreshed.
* LEAST keeps `mailspace_used` from going below zero when a copy is deleted before it
  was charged; the later charge then stays for good (ghost `clamped`).
* RENAME of INBOX has a branch of its own (line 817 of `imap/auth.cpp`) that the
  check in line 751 makes unreachable.

The properties of the passing runs state what holds beside these: rows
re-animated too early are excepted where `early` is mentioned, a file may be
`truncated` but not `partial` in `AcceptedHasFile`, `AllOrNothing` does not
count the instance `EnqueueMessage` forgot, what was discarded behind an `unread` rejection is
excepted in `RestIsReenqueued`, a stuck item and a thread that waits for ever are in the
liveness properties of queue and daemon, the `apns` run has room for ids
and messages, and the ghosts above say by how much and why an account or a limit may be off.

## 5. Proofs

`tlapm <module>.tla` proves the theorems of each of `ThreadPoolProofs`, `MsgQueueProofs`,
`DeliveryProofs`, `LifecycleProofs`, `SmtpServerProofs`, `ApnsProofs`, `MailServersProofs`
and `FoldTheorems`, from the named assumptions on the constants alone.  All safety properties
of the passing runs are theorems, for every value of the constants.

| assumption | says | left arbitrary |
|---|---|---|
| `PoolAssumption` | the sets of threads are finite and disjoint, no item is `NoJob` | how many threads and items |
| `QueueAssumption` | ids, messages, senders and workers are what their names say; each sender has ids for its recipients | their numbers, `QUEUE_RUN_MAX`, the bound on restarts, the sets of commands |
| `PipeAssumption` | there is a process object for each worker | workers, messages, pids, and whether processes are kept and waits limited |
| `SmtpAssumption` | messages and sessions are finite sets, at least one MX server | their numbers, the codes a server refuses with, time-outs, attempts |
| `SupervisorAssumption` | it gives up after some number of failures; no process is `None` | invocations, signals, that number |
| `DaemonAssumption`, `LoopAssumption` | APNS is enabled or not, the limits are positive | rows, workers, the width of `unsigned int` |
| `ServerAssumption` | the sessions are a finite set, the limit is positive; filters have an address rule and a default; a recipient is local or remote | sessions, recipients, filters, the limit |
| `ApnsAssumption` | positive buffer size and modulus | both, and notifications and connections |
| `MailboxAssumption`, `Pop3Assumption`, `ImapAssumption` | there is an inbox; the sessions are finite sets; sizes and limits are numbers; the marks `new`, `gone` and `none` are no folders | sessions, folders, messages, sizes, limits, commands, kills |

Each of the inductive invariants was first checked by TLC as an invariant of the module's
run; a property that a run checks under a bound is proved without it.

**FoldTheorems.**  The library defines sums over a set by a fold, and says nothing about what a fold
computes.  The lemmas say it: a sum is the number of the element the fold begins with plus the sum of the
rest (`SumFirst`), whichever element that is (`SumRemove`), hence what adding, changing or
splitting a set does to its sum (`SumAdd`, `SumChange`, `SumUnion`, `SumSplit`, `SumSubset`).
The fold over a list goes along it from its first member to its last (`FoldsExist` and what follows it in
`MailServersProofs`).  The inductions are over sets of numbers or of
subsets: `NatSet` and `FiniteSubsets` say that a set which contains the first one and, with each, the next
contains all.  That a fold's defining recursion has a solution at all is such an induction, too.

**ThreadPoolProofs.**  The inductive invariant is `TypeInv /\ ControlInv`:
`TypeOK`, `BusyNeverUnderflows`, `PoolAccounting`, `NobodySleepsThroughStop`
and, added to make it inductive, `FlagsMatchPcs`: `run` is set exactly while the
owner has not stopped, and a worker holds an item exactly while it works.
Without it nothing says that a worker which goes to sleep has seen `run` set.
`busyThreads` is tied to the cardinality of the threads marked busy; the lemmas
`ClearMark` and `SetMark` are that arithmetic.  `EachItemOnce` needs the
sequence lemmas `TailDropsHead` and `AppendAddsItem`: an item that is queued
once and taken from the head is queued no more.

| theorem | says |
|---|---|
| `PoolTypeOK`, `PoolBusyNeverUnderflows`, `PoolAccountingHolds` | types, and counters that agree with the threads there are |
| `PoolEachItemOnce` | no item is lost or run twice |
| `PoolNobodySleepsThroughStop`, `PoolStopLeavesNoWorker` | a stopped pool has no worker asleep, and in the end none at all |
| `PoolIsWorkPool` | `ThreadPool` implements `WorkPool` |

For the refinement, a step of the code is a step of `WorkPool` by what it does to `queue`,
`done` and the items in the workers' hands.  That `stop()` may return when it has joined every thread in
its list (`Drained`) needs the accounting: a worker in no list has ended, and holds no item (`NobodyWorks`).

**MsgQueueProofs.**  `NeverLost` is not inductive: a sender promises ids at
its reply that it collected over many steps, during which the daemon may have
started, delivered, bounced or purged them.  `QueueInv` adds to `TypeOK`,
`NeverLost` and `AcceptedHasFile`:

* `LockInv`: the table lock keeps the dispatched batch in the table until it is
  marked active;
* `UsedInv`: only ids that were handed out are worked on or dealt with;
* `ResultInv`: a success stands for a delivery, and the item being bounced is
  dealt with once its bounce is released or has failed;
* `SenderInv`: a sender's ids are its own; until its reply each of them is in the
  table or dealt with (`Kept`), and has its file once `EnqueueMessage` has
  returned it (`Filed`).

The proof that a step keeps it is split by who takes the step and whose
conjunct it could disturb.  A step of the daemon, a worker, the control
connection or an administrator leaves every sender alone except for a few ways to
touch an id (`OtherStepFrame`), and those keep `Kept` and `Filed`
(`OtherKeepsSenderInv`); a step of a sender touches its own ids only
(`SenderStepFrame`).  Types are proved first, action by action (`SenderTypes`,
`OtherTypes`).

The refinement (`QueueKeepsPromise`) maps a message to the abstract sets of
`Promise`.  There is one lemma per action of `StoreAndForward` that says
which changes of the mapped variables amount to it, and `SenderRefines` and
`OtherRefines` assign one of them to each action of the code; what maps to no
change is `Stutters`.

| theorem | says |
|---|---|
| `QueueTypeOK` | types |
| `QueueNeverLost` | over any crashes and commands an accepted message is in the table until it was delivered, bounced, reported or removed |
| `QueueAcceptedHasFile` | its file is there as long as its row |
| `QueueKeepsPromise` | `MsgQueue` implements `StoreAndForward` |
| `QueueInFlightOnce`, `QueueActiveIsInFlight` | a row is in flight once, and an active one is in flight |
| `QueueDeliveredOnce`, `QueueAllOrNothing` | delivered once unless the record of it was lost; not at all when the client was told 451 |
| `QueueCleanStop` | a stop in order leaves no accepted message active |
| `QueueStaysBounded` | never more than `QUEUE_RUN_MAX` items wait |

What is in flight needs more than `QueueInv`: `InFlightOnce` says that a row with an object is
active, but the table is written by many.  `FlightInv` says how a row can be inactive at
all (`Inactive`: released, or re-animated too early), that an id being enqueued is not released
(`Unreleased`), so that a sender's `DELETE` or release never meets a row in flight, that
objects stand for rows that are marked or about to be under the lock (`FlightHeld`), one for
each row (`OneFlight`), and that a daemon that is down has none (`DownEmpty`).
`QueueActiveIsInFlight` adds the rows that a
refused or failed step leaves active; `QueueStaysBounded` counts the batch that `Dispatch` takes.

**DeliveryProofs.**  One module with a part for each side, since both share the workers.

*Local children.*  A worker knows its child by its pid only, and `waitpid` and `kill` take
any process with that number.  `PipeCore` ties the two: a child that exists has one owner, a
worker or the list of idle ones (`ChildOwned`); a process nobody has waited for has a pid
that neither a stranger nor another such process has (`PidsUnique`); one that ended well, or said
250, has stored what its worker gave it (`StoredFirst`, which is so as long as no worker took
another's status).  The steps of a worker are sorted by what they do to it and its child, and
there is one lemma for each sort.

| theorem | says |
|---|---|
| `DeliveryIsStored` | reported delivered means stored, unless `stolen` |
| `DeliveryNoZombieLeft` | who is not owned has been waited for |
| `DeliveryStraySignals` | a foreign process is signalled in the three known cases only |

*SMTP sessions.*  What a late answer does is a matter of order: a worker that reads an
answer too early is one command ahead of the server.  `OrderOK` says how far the two can be
apart: with no answer on its way they are in step, or the server takes what comes for text;
otherwise what will be read after DATA is an answer to MAIL, RCPT or RSET, never a 354, as long as
less than four were outstanding when the session was put back.  So whoever sends a
text is in step with the server, for any number of sessions; `SuccessIsTaken` and `FatalIsOwn`
follow with the numbers 4 and 2 that TLC suggested.

| theorem | says |
|---|---|
| `DeliveryOwnedOnce` | a session is with one worker, in the pool once, or with `cleanUp` |
| `DeliverySuccessIsTaken` | a success is a text the server took for this recipient, if `lag < 4` |
| `DeliveryFatalIsOwn` | a final failure is an answer to a command of the message's own, if `lag < 2` |

**LifecycleProofs.**  *The supervisor.*  `NoOrphan` names three places; it is inductive with all
places before the fork and after the reaping (`HasNoChild`).  `SupervisorTypes`, `SupervisorNoOrphan`.

*The daemon.*  For the loop the invariant is `Told`: the file is watched except
between the two calls that renew the watch, and while rows are left, and the loop is not on its way to
read them, something will lead it there.  `Counted` and the types bound the numbers it
compares.  For the end it is `Joined`: how far the main thread can be while each of the others
is where it is, and which pointers are there then.  `DaemonTypes`, `DaemonNoLostNotification`,
`DaemonGoneMeansAlone`.

**SmtpServerProofs.**  The recipients of a message go from the session's list to a filter's
copy of it and back, and a session may begin again in several places.  `ServerInv` says that
neither list ever holds who was not asked for, and that a filter whose turn goes on has said
CONTINUE or nothing final.

`LimitKept` excuses the rows that were late or free; so `LimitInv` is about the others
(`Checked`): together they are within the limit, and a session between its SELECT SUM and its
UPDATE had room for its recipients in the rows it saw (`Allowed`).  When it counts, either the rows are
still those, and the sum grows to what was allowed, or its row is late.  `TodayCounts` is an equation with
`today_sent`, what each session has not saved and what was enqueued; a session saves what it
has added to what it found, so it needs that all of them found the same row.  That is `KeysAgree`:
who found none is the only one logged in.

| theorem | says |
|---|---|
| `ServerInvariant` | types, and recipients' lists that hold only who was asked for |
| `ServerSentAsAsked`, `ServerFiltersObeyed` | a message goes to its recipients, and as its filters said |
| `ServerLimitKept` | how far parallel sessions may exceed the limit: by late and free rows |
| `ServerTodayCounts` | nothing sent is missing from `today_sent`, the named cases excepted |

**ApnsProofs.**  `RestIsReenqueued` is false of a buffer that is too small (section 4), as
is `SettledIsNotResent` of ids that repeat, so both are proved under `Room`: the
notifications given so far fit the buffer, and are fewer than the ids that can be told apart.  The run has
states with that room and so does any start of the dispatcher.  The invariant then says that
the buffer ends with what the service has not read (`WireIsLast`), and after its answer
with the one it rejected and those it discarded (`RejectedAt`); an id that
comes back is enough to find the rest.  If `sendMessage` fails before the rejection was read, its
connection and the id are gone, and what was discarded is not sent again, with
room or without: the theorem names that case (`unread`; `UnheardFates`).  That a notification is in one place is proved with or
without room.

| theorem | says |
|---|---|
| `ApnsInvariant`, `ApnsOnePlace` | types, ids in order; a notification waits, is in hand, or was sent |
| `ApnsRestIsReenqueued`, `ApnsSettledIsNotResent` | with room, what was discarded behind a rejection that was read is sent again, and what was settled is not |

**MailServersProofs.**  Rows, bodies and flags are shared, and every session works by a list that may
be stale.  None of the properties is inductive, and each has an invariant of its own.

* `OnlyWantedGo` is about rows that have gone; what will go is in the sessions.  `WantInv` says of
  every session that the messages its list has marked, and the flags it is about to write
  back, were marked by a client (`WishesOK`), and that QUIT works on messages that were ordered to go
  (`OrdersOK`).  A flag that comes back from a stale list, which another session may have taken
  away, so still stands for a wish.
* `BodyKept` excuses messages that somebody wanted gone.  `BodyInv` does not need that excuse: a row without
  a body was ordered to go, is listed in the ghost `hollow`, or is in the hands of a session that
  will delete the row or store the body next (`Bodiless`).
* `ListCurrent` speaks of sessions at rest with the current generation.  `CurrentInv` says for every
  step of a command which generation goes with the list (`UpToDate`), that what a session has
  read is never ahead of the account, and that a POP3 session with deletions is still in
  QUIT.  `Announced` sorts the steps of all processes: one increments the generation, leaves a change
  that its session will still announce, or changes no row and takes no announcement back.  Each of
  the three keeps the list of every other session up to date (`StaysUpToDate`).
* `SpaceAccounted` is one equation between the account, the rows and everything that sessions have still to
  charge or refund.  `AccountInv` adds whose octets these are: what a session will refund it has deleted,
  what it will charge is a row that was inserted (`LedgerOK`, `PopLedgerOK`).  A row keeps
  its size and one that was deleted does not come back (`Lasting`), so a step changes the sums of its own
  session only; the lemmas then balance both sides for each kind of step: an insertion,
  a charge, a deletion, a refund, a kill, and the sizes `DeleteFolder` adds up too early.
* `ClientInSync`: `SyncInv` says that lists ascend, and when the client's is the server's.
  The step is `AllTold`: whatever the two lists, a client that has the old one and does what the EXPUNGE
  lines and EXISTS say has the new one.  It is an induction along the old list (`Halfway`): after its first
  messages the client has those of the new list that were met, then the rest of the old one.  That lists
  ascend, so that the walk misses nothing, is `InOrderSorts`: the list of a set of UIDs is ascending
  and has each of them once.
* `TotalsAgree`: `TotalsInv` ties the counters of a POP3 session, which DELE changes one by one and RSET
  resets, to the marks and the rows' sizes.  It lasts because the sizes do (`StepLasts`), also of
  messages other sessions have deleted meanwhile.

`ImapAlone` and `PopAlone` say that a step changes no session but its own; each invariant then has one
lemma for the commands, one for refreshed lists and one for the steps that write rows.  That the position
`FirstDeleted` finds is marked needs a least element in a set of numbers (`LeastIsOne`).

| theorem | says |
|---|---|
| `MailOnlyWantedGo` | what goes was marked by a client, or a command ordered it, however stale the list was |
| `MailBodyKept` | a row keeps its body, kills and copies of vanished messages excepted |
| `MailSpaceAccounted` | `mailspace_used` is the size of the rows, but for what is still to be charged or refunded and the named errors |
| `MailClientInSync`, `AllTold` | the client's list is the server's, unless the server read it anew without a word |
| `MailListsAscend`, `InOrderSorts` | UIDs ascend with sequence numbers, always; what is fetched is sorted and complete |
| `MailTotalsAgree` | STAT counts what LIST lists |
| `MailListCurrent` | who has the generation has the list, but for a change still to be announced and the late read of SELECT |

**Only model-checked.**

* Liveness (`StopReturns`, `SleepingDynamicRescues`, `AcceptedLeaves`, `StopIsCarriedOut`,
  `StopsOnceUp`, `ControlEndsDaemon`, `LoopServes`, `CarriersReturn`): out of the prover's
  reach under fairness.
* `QueuedItemIsTaken`, which the code violates (section 4).
* `TypeOK` of `MailServers`, except for the parts named in section 2.1.

## 6. Hazards

`PROJECT.json` lists, at its line, what is hard to test in this code: the
interleavings, crashes, stale lists, partial failures and limits, each with the
properties that would catch it going wrong, or with the reason why none does yet.
What has a note instead of a property happens in the code (section 4) or is left out (section 7).

## 7. What is not modelled, and why

* *Within modelled components.*  MsgQueue: greylist cleaning, local domains,
  delivery status and abuse points.
  IMAP: SEARCH, the data of FETCH, LIST and the quota commands read only; CREATE
  increments the structure generation only; child and intelligent folders, the
  attachments table, the event table and a failing blob write are left out.  That
  sessions which check the quota at the same time may exceed it is possible in the
  model, but no property bounds it yet.
  SmtpClient: relay and sendmail delivery, delivery rules, STARTTLS, DANE, AUTH, the lines of a
  text.  SmtpServer: greylisting, the classes of peers, failban, STARTTLS and abuse points, which
  only refuse commands or end a session; headers and body as milters change them.
  Supervisor: that a signal handled between a failed `fork()` and the failing `waitpid()` is sent on to
  pid -1, which is every process of the user.
* *SPF*: a recursive function of DNS answers without state of its own.
* *Blob storage*: storing and deleting a blob is one statement, a step of `Mailbox`'s users; `beginTx`
  and `endTx` have no caller.
* *Mail parser, DNS decoding, MIME and string helpers, HTTP pages*: functions of their
  input or plain reports, without state that others share.
* *Sockets, terminal I/O, configuration, database wrappers, exceptions*: wrappers; what can
  fail in them (a time-out, a broken connection, a short write) is a step of the models that
  use them.
* *Init scripts, installers, desktop manager, Windows service and thread emulation,
  sendmail replacement, plug-ins*: start-up and set-up programs, another platform, or
  short sequential programs.
* *SQLite, MD5 and other vendored code*: third party.

## 8. Plan

Left to model:

1. Mailbox: liveness of IDLE (a session that idles sees the current list in the
   end), a bound on exceeding the quota.
2. SmtpServer: greylisting with its table, which the daemon cleans (`ProcessResults`).
3. SmtpClient: the choice between relay, rules and MX.

Abstract specifications: `StoreAndForward` and `WorkPool` (done); worth stating is an `Account` that
holds the size of what is stored, for `MailServers`.

Left to prove: what is missing of `TypeOK` of `MailServers`.
