---------------------------- MODULE DaemonThreads ----------------------------
(***************************************************************************)
(* The life of the queue daemon's threads (MSGQueue::Run, ControlThread,   *)
(* APNSDispatcherThread in msgqueue.cpp; MSGQueue_Control in control.cpp;  *)
(* APNSDispatcher::run and quit): how they start, tell each other to stop, *)
(* and are joined.  The main thread's loop is QueueLoop; what the threads  *)
(* work on is in MsgQueue, Apns and ThreadPool.                            *)
(*                                                                         *)
(* A step is one access to a shared flag or pointer.  The flags are plain  *)
(* bools; every write is taken to be seen by the next read.                *)
(***************************************************************************)
EXTENDS QueueLoop

CONSTANTS
    ApnsEnabled \* apns_enable (BOOLEAN)

ASSUME DaemonAssumption == ApnsEnabled \in BOOLEAN

VARIABLES
    mainPc,       \* MSGQueue::Run
    controlPc,    \* the control thread
    apnsPc,       \* the dispatcher thread
    control,      \* MSGQueue::control: NULL, an object, or an object that is gone
    controlQuit,  \* control->bQuit
    dispatcher,   \* MSGQueue::apnsDispatcher: NULL or an object
    given,        \* the pointer handed to MSGQueue_Control's constructor was not NULL
    isRunning,    \* apnsDispatcher->isRunning
    stale         \* ghost: an APNS_NOTIFY has used a dispatcher that was deleted

vars == <<mainPc, controlPc, apnsPc, bQuit, control, controlQuit, dispatcher, given, isRunning,
          stale, loopVars>>

Init ==
    /\ mainPc = "start" /\ controlPc = "none" /\ apnsPc = "none"
    /\ bQuit = FALSE
    /\ control = "null" /\ controlQuit = FALSE
    /\ dispatcher = "null" /\ given = FALSE /\ isRunning = FALSE
    /\ stale = FALSE
    /\ LoopInit

\* A process that is gone or has crashed has no threads any more.
Alive == mainPc \notin {"gone", "crashed"}

MainTo(label)    == mainPc' = label /\ UNCHANGED <<controlPc, apnsPc, stale, given>>
ControlTo(label) == Alive /\ controlPc' = label /\ UNCHANGED <<mainPc, apnsPc>>
ApnsTo(label)    == Alive /\ apnsPc' = label /\ UNCHANGED <<mainPc, controlPc, control, controlQuit,
                                                            bQuit, given, stale>>

-----------------------------------------------------------------------------
(* The main thread.                                                        *)

\* The dispatcher and its thread, if enabled and if both can be created.
StartDispatcher ==
    /\ mainPc = "start"
    /\ \/ UNCHANGED <<apnsPc, dispatcher, isRunning>>
       \/ ApnsEnabled /\ apnsPc' = "begin" /\ dispatcher' = "object" /\ isRunning' = TRUE
    /\ mainPc' = "startControl"
    /\ UNCHANGED <<controlPc, bQuit, control, controlQuit, given, stale>>

\* The control thread, the pools, the workers.
StartControl ==
    /\ mainPc = "startControl"
    /\ mainPc' = "loop" /\ controlPc' = "begin"
    /\ UNCHANGED <<apnsPc, bQuit, control, controlQuit, dispatcher, given, isRunning, stale>>

\* A step of the loop, or of the workers and processes around it.
InLoop(step) ==
    /\ mainPc = "loop" /\ step
    /\ UNCHANGED <<mainPc, controlPc, apnsPc, control, controlQuit, dispatcher, given, isRunning,
                   stale>>

\* The loop has seen bQuit; the workers are stopped and the last results processed.
LeaveLoop ==
    /\ mainPc = "loop" /\ loopPc = "left"
    /\ MainTo("quitApns")
    /\ UNCHANGED <<bQuit, control, controlQuit, dispatcher, isRunning>>

\* Mutant: the dispatcher thread is not told to stop.
QuitApnsNot ==
    /\ mainPc = "quitApns"
    /\ MainTo("joinApns")
    /\ UNCHANGED <<bQuit, control, controlQuit, dispatcher, isRunning>>

\* if(apnsDispatcher != NULL) apnsDispatcher->quit()
QuitApns ==
    /\ mainPc = "quitApns"
    /\ isRunning' = IF dispatcher = "object" THEN FALSE ELSE isRunning
    /\ MainTo("joinApns")
    /\ UNCHANGED <<bQuit, control, controlQuit, dispatcher>>

JoinApns ==
    /\ mainPc = "joinApns" /\ apnsPc \in {"none", "ended"}
    /\ MainTo("quitControl")
    /\ UNCHANGED <<bQuit, control, controlQuit, dispatcher, isRunning>>

\* if(control != NULL) ...
QuitControl ==
    /\ mainPc = "quitControl"
    /\ MainTo(IF control # "null" THEN "setQuit" ELSE "joinControl")
    /\ UNCHANGED <<bQuit, control, controlQuit, dispatcher, isRunning>>

\* ... control->bQuit = true.  The pointer is read again: it may be NULL by now
\* (a crash) or point to an object that is gone (a crash or a stray write).
SetQuit ==
    /\ mainPc = "setQuit"
    /\ \/ control # "null" /\ MainTo("joinControl")
       \/ control # "object" /\ MainTo("crashed")
    /\ controlQuit' = (control = "object" \/ controlQuit)
    /\ UNCHANGED <<bQuit, control, dispatcher, isRunning>>

\* Mutant: the control thread is told to stop, not joined.
JoinControlNot ==
    /\ mainPc = "joinControl"
    /\ MainTo("gone")
    /\ UNCHANGED <<bQuit, control, controlQuit, dispatcher, isRunning>>

JoinControl ==
    /\ mainPc = "joinControl" /\ controlPc = "ended"
    /\ MainTo("gone")
    /\ UNCHANGED <<bQuit, control, controlQuit, dispatcher, isRunning>>

-----------------------------------------------------------------------------
(* The control thread.                                                     *)

ControlBegin ==
    /\ controlPc = "begin"
    /\ control' = "null"
    /\ ControlTo("construct")
    /\ UNCHANGED <<bQuit, controlQuit, dispatcher, given, isRunning, stale>>

\* control = new MSGQueue_Control(apnsDispatcher), with a database connection of
\* its own; the object starts with bQuit = false.
Construct ==
    /\ controlPc = "construct"
    /\ control' = "object" /\ controlQuit' = FALSE
    /\ given' = (dispatcher = "object")
    /\ ControlTo("serve")
    /\ UNCHANGED <<bQuit, dispatcher, isRunning, stale>>

ConstructFails ==
    /\ controlPc = "construct"
    /\ ControlTo("delete")
    /\ UNCHANGED <<bQuit, control, controlQuit, dispatcher, given, isRunning, stale>>

\* Run accepts a connection; until that ends it is Process that loops, on a flag
\* of its own.  (Between the test of bQuit and accept() nothing shared is read: one
\* step.)
AcceptConnection ==
    /\ controlPc = "serve" /\ ~controlQuit
    /\ ControlTo("connection")
    /\ UNCHANGED <<bQuit, control, controlQuit, dispatcher, given, isRunning, stale>>

\* The client quits, is gone, or sends nothing for MSGQUEUE_CONTROL_TIMEOUT.
ConnectionEnds ==
    /\ controlPc = "connection"
    /\ ControlTo("serve")
    /\ UNCHANGED <<bQuit, control, controlQuit, dispatcher, given, isRunning, stale>>

\* RESTART_MSGQUEUE ends the connection, too.
RestartCommand ==
    /\ controlPc = "connection"
    /\ controlQuit' = TRUE
    /\ ControlTo("serve")
    /\ UNCHANGED <<bQuit, control, dispatcher, given, isRunning, stale>>

\* APNS_NOTIFY, through the pointer the constructor was given.
NotifyCommand ==
    /\ Alive /\ controlPc = "connection" /\ given
    /\ stale' = (stale \/ dispatcher # "object")
    /\ UNCHANGED <<mainPc, controlPc, apnsPc, bQuit, control, controlQuit, dispatcher, given,
                   isRunning>>

\* Run ends: bQuit, no port, or a select() that a signal interrupts.
ServeEnds ==
    /\ controlPc = "serve"
    /\ ControlTo("delete")
    /\ UNCHANGED <<bQuit, control, controlQuit, dispatcher, given, isRunning, stale>>

\* if(control != NULL) delete control, ...
DeleteControl ==
    /\ controlPc = "delete"
    /\ control' = IF control = "object" THEN "gone" ELSE control
    /\ ControlTo("forget")
    /\ UNCHANGED <<bQuit, controlQuit, dispatcher, given, isRunning, stale>>

\* ... control = NULL; and the daemon is to quit.
ForgetControl ==
    /\ controlPc = "forget"
    /\ control' = "null"
    /\ ControlTo("tell")
    /\ UNCHANGED <<bQuit, controlQuit, dispatcher, given, isRunning, stale>>

\* Mutant: the thread ends without "this->bQuit = true".
TellMainNot ==
    /\ controlPc = "tell"
    /\ ControlTo("ended")
    /\ UNCHANGED <<bQuit, control, controlQuit, dispatcher, given, isRunning, stale>>

TellMain ==
    /\ controlPc = "tell"
    /\ bQuit' = TRUE
    /\ ControlTo("ended")
    /\ UNCHANGED <<control, controlQuit, dispatcher, given, isRunning, stale>>

-----------------------------------------------------------------------------
(* The dispatcher thread.                                                  *)

\* run() starts with isRunning = true.
ApnsBegin ==
    /\ apnsPc = "begin"
    /\ isRunning' = TRUE
    /\ ApnsTo("run")
    /\ UNCHANGED dispatcher

\* The dispatcher talks to the push service (connect(), checkForErrors(),
\* sendMessage()), which may keep it waiting as long as it likes: no call has a
\* time-out.
ApnsCall ==
    /\ apnsPc = "run" /\ isRunning
    /\ ApnsTo("call")
    /\ UNCHANGED <<dispatcher, isRunning>>

ApnsReturns ==
    /\ apnsPc = "call"
    /\ ApnsTo("run")
    /\ UNCHANGED <<dispatcher, isRunning>>

\* while(isRunning)
ApnsEnds ==
    /\ apnsPc = "run" /\ ~isRunning
    /\ ApnsTo("delete")
    /\ UNCHANGED <<dispatcher, isRunning>>

ApnsDelete ==
    /\ apnsPc = "delete"
    /\ dispatcher' = "null"
    /\ ApnsTo("ended")
    /\ UNCHANGED isRunning

-----------------------------------------------------------------------------
\* SIGINT, SIGTERM or SIGHUP: MSGQueue_SignalHandler.
Signal ==
    /\ Alive /\ ~bQuit
    /\ bQuit' = TRUE
    /\ UNCHANGED <<mainPc, controlPc, apnsPc, control, controlQuit, dispatcher, given, isRunning,
                   stale>>

Main ==
    /\ \/ StartDispatcher \/ StartControl \/ LeaveLoop \/ QuitApns \/ JoinApns
       \/ QuitControl \/ SetQuit \/ JoinControl
    /\ UNCHANGED loopVars

\* What the control thread does by itself; it serves until it is told to quit, and
\* sees that only between two connections.
Control ==
    /\ \/ ControlBegin \/ Construct \/ (controlQuit /\ ServeEnds)
       \/ DeleteControl \/ ForgetControl \/ TellMain
    /\ UNCHANGED loopVars

Apns == (ApnsBegin \/ ApnsEnds \/ ApnsDelete) /\ UNCHANGED loopVars

\* What happens to the daemon from outside: clients, the push service, signals.
Environment ==
    /\ \/ ConstructFails \/ AcceptConnection \/ ConnectionEnds \/ RestartCommand \/ NotifyCommand
       \/ ServeEnds \/ ApnsCall \/ ApnsReturns \/ Signal
    /\ UNCHANGED loopVars

Loop == InLoop(LoopStep \/ Others)

Next == Main \/ Loop \/ Control \/ Apns \/ Environment

Spec == Init /\ [][Next]_vars

\* The three threads are scheduled, and a process that released a row touches the
\* file.  Nothing makes a client end its connection, the push service answer, or the
\* pool take an item (see QueuedItemIsTaken of ThreadPool).
FairSpec ==
    /\ Spec /\ WF_vars(Main) /\ WF_vars(Control) /\ WF_vars(Apns)
    /\ WF_vars(InLoop(LoopStep)) /\ SF_vars(InLoop(Select))
    /\ WF_vars(InLoop(TouchFile))

-----------------------------------------------------------------------------
TypeOK ==
    /\ mainPc \in {"start", "startControl", "loop", "quitApns", "joinApns", "quitControl", "setQuit",
                   "joinControl", "gone", "crashed"}
    /\ controlPc \in {"none", "begin", "construct", "serve", "connection", "delete", "forget", "tell", "ended"}
    /\ apnsPc \in {"none", "begin", "run", "call", "delete", "ended"}
    /\ bQuit \in BOOLEAN /\ controlQuit \in BOOLEAN /\ isRunning \in BOOLEAN
    /\ control \in {"null", "object", "gone"} /\ dispatcher \in {"null", "object"}
    /\ given \in BOOLEAN /\ stale \in BOOLEAN
    /\ LoopTypeOK

\* The pools and the rules are deleted after both threads have ended, and no
\* dispatcher or control object is left then.  Until the main thread stops them
\* nobody has lost what it works with either: the control connection uses the
\* dispatcher after its deletion (control.cpp:115) only while the main thread is
\* on its way from joining the dispatcher to joining the control thread.
GoneMeansAlone ==
    /\ mainPc = "gone" => /\ controlPc = "ended" /\ apnsPc \in {"none", "ended"}
                          /\ control = "null" /\ dispatcher = "null"
    /\ stale => mainPc \in {"joinApns", "quitControl", "setQuit", "joinControl", "gone", "crashed"}

\* A thread waits for ever: read() for an event that does not come (msgqueue.cpp:330),
\* the control thread for a client that goes on sending lines (control.cpp:50), or
\* the dispatcher for the push service (apnsdispatcher.cpp:189, 205, 272, 302).
WaitsForEver == []Blocked \/ [](controlPc = "connection") \/ [](apnsPc = "call")

\* A daemon whose threads are up when it is told to quit ends, wherever its loop
\* and its threads are, unless one of them waits for ever.
StopsOnceUp ==
    (bQuit /\ controlPc \notin {"none", "begin", "construct"} /\ apnsPc # "begin"
           /\ mainPc \in {"loop", "quitApns"})
        ~> (mainPc \in {"gone", "crashed"} \/ WaitsForEver)

\* The daemon does not go on without its control thread.
ControlEndsDaemon == (controlPc = "ended") ~> (mainPc # "loop" \/ []Blocked)

\* The rows that processes release and the results that workers leave are dealt
\* with, whatever the other threads do meanwhile.
LoopServes == RowsAreDispatched /\ ResultsAreProcessed
=============================================================================
