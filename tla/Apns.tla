--------------------------------- MODULE Apns ---------------------------------
(***************************************************************************)
(* The dispatcher of push notifications (msgqueue/apnsdispatcher.cpp): the *)
(* control thread enqueues, the dispatcher thread sends over one           *)
(* connection at a time, and the push service answers nothing but, at      *)
(* most, one error: the id of a notification it rejects, after which it    *)
(* discards what it received later and closes the connection.              *)
(***************************************************************************)
EXTENDS Integers, Sequences, SequencesExt

CONSTANTS
    Notes,        \* notifications the control thread may enqueue, one job each
    Malformed,    \* those whose device token has an odd length: never written
    SentCapacity, \* APNS_SENT_BUFFER_SIZE
    IdModulus,    \* what htons and ntohs leave of an id: 2^16
    MaxConnections, \* bound on connections
    None

ASSUME ApnsAssumption ==
    /\ Malformed \subseteq Notes /\ None \notin Notes
    /\ SentCapacity \in Nat \ {0} /\ IdModulus \in Nat \ {0} /\ MaxConnections \in Nat

VARIABLES
    given,        \* notifications enqueued so far
    id,           \* job.id of each notification, 0 before it is first sent
    idCounter,
    sendQueue,    \* notifications to send
    sent,         \* sentMessages
    job,          \* the notification the dispatcher thread holds
    pc,           \* the dispatcher thread
    connections,  \* connections made so far
    wire,         \* written on this connection, not yet read by the service
    answer,       \* what the service sent on this connection, and the id in it
    fate          \* ghost: what became of each notification that was written

vars == <<given, id, idCounter, sendQueue, sent, job, pc, connections, wire, answer, fate>>

Quiet == [kind |-> "quiet", id |-> 0]

Init ==
    /\ given = {}
    /\ id = [n \in Notes |-> 0] /\ idCounter = 0
    /\ sendQueue = <<>> /\ sent = <<>> /\ job = None
    /\ pc = "connect" /\ connections = 0
    /\ wire = <<>> /\ answer = Quiet
    /\ fate = [n \in Notes |-> "none"]

-----------------------------------------------------------------------------
\* The control thread, APNS_NOTIFY: enqueue.
Enqueue(n) ==
    /\ n \notin given
    /\ given' = given \cup {n}
    /\ sendQueue' = Append(sendQueue, n)
    /\ UNCHANGED <<id, idCounter, sent, job, pc, connections, wire, answer, fate>>

-----------------------------------------------------------------------------
(* The dispatcher thread, run().                                           *)

\* connect() succeeds, at first or after some delays.
Connect ==
    /\ pc = "connect" /\ connections < MaxConnections
    /\ connections' = connections + 1
    /\ pc' = "take"
    /\ UNCHANGED <<given, id, idCounter, sendQueue, sent, job, wire, answer, fate>>

\* The critical section: the head of the queue, or nothing after 10 ms.
Take ==
    /\ pc = "take"
    /\ IF sendQueue = <<>>
       THEN UNCHANGED <<sendQueue, job>>
       ELSE job' = Head(sendQueue) /\ sendQueue' = Tail(sendQueue)
    /\ pc' = "check"
    /\ UNCHANGED <<given, id, idCounter, sent, connections, wire, answer, fate>>

\* enqueue(job), if the thread holds one.
Requeued == IF job = None THEN sendQueue ELSE Append(sendQueue, job)

\* Mutant: the failed notification is sent again with the rest.
RestAndFailed(failedId) ==
    LET found == {i \in DOMAIN sent : id[sent[i]] = failedId}
    IN  IF found = {} THEN <<>>
        ELSE LET first == CHOOSE i \in found : \A j \in found : i <= j
             IN  SubSeq(sent, first, Len(sent))

\* reenqueueAfterError: entries are removed up to the one with this id, all of
\* them if there is none; these are left to be sent again.
Rest(failedId) ==
    LET found == {i \in DOMAIN sent : id[sent[i]] = failedId}
    IN  IF found = {} THEN <<>>
        ELSE LET first == CHOOSE i \in found : \A j \in found : i <= j
             IN  SubSeq(sent, first + 1, Len(sent))

\* disconnect(), and the way back to connect(): what is on the wire and what the
\* service has answered will not be read.
Disconnect ==
    /\ pc' = "connect" /\ job' = None
    /\ wire' = <<>> /\ answer' = Quiet

\* checkForErrors finds the service's answer or the end of the connection.
CheckError ==
    /\ pc = "check" /\ answer # Quiet
    /\ IF answer.id > 0
       THEN sendQueue' = Requeued \o Rest(answer.id) /\ sent' = <<>>
       ELSE sendQueue' = Requeued /\ UNCHANGED sent
    /\ Disconnect
    /\ UNCHANGED <<given, id, idCounter, connections, fate>>

\* It finds none, and there is nothing to send.
CheckIdle ==
    /\ pc = "check" /\ answer = Quiet /\ job = None
    /\ pc' = "take"
    /\ UNCHANGED <<given, id, idCounter, sendQueue, sent, job, connections, wire, answer, fate>>

\* It finds none: a job that was never sent gets its id.
CheckNone ==
    /\ pc = "check" /\ answer = Quiet /\ job # None
    /\ IF id[job] = 0
       THEN idCounter' = idCounter + 1 /\ id' = [id EXCEPT ![job] = idCounter + 1]
       ELSE UNCHANGED <<idCounter, id>>
    /\ pc' = "send"
    /\ UNCHANGED <<given, sendQueue, sent, job, connections, wire, answer, fate>>

\* sentMessages after push_back, and pop_front beyond its capacity.
Remembered ==
    IF Len(sent) < SentCapacity THEN Append(sent, job) ELSE Append(Tail(sent), job)

\* sendMessage succeeds; SSL_write may still do so after the service has
\* answered, and then nobody reads what was written.
Send ==
    /\ pc = "send" /\ job \notin Malformed
    /\ sent' = Remembered
    /\ wire' = IF answer = Quiet THEN Append(wire, job) ELSE wire
    /\ fate' = [fate EXCEPT ![job] = CASE answer = Quiet          -> "wire"
                                       [] answer.kind = "rejects" -> "behind"
                                       [] OTHER                   -> "lost"]
    /\ job' = None
    /\ pc' = "take"
    /\ UNCHANGED <<given, id, idCounter, sendQueue, connections, answer>>

\* A connection is given up without a look at what the service may have answered:
\* what it has not read is lost, what it discarded behind a rejected notification
\* and is not waiting to be sent stays unsent, as the rejection is unread.
Unheard(waiting) ==
    [n \in Notes |->
        IF n \in ToSet(wire) THEN "lost"
        ELSE IF fate[n] = "behind" /\ n \notin ToSet(waiting) THEN "unread" ELSE fate[n]]

\* Mutant: a job that could not be sent is not enqueued again.
SendFailsDropped ==
    /\ pc = "send"
    /\ job \in Malformed \/ answer # Quiet
    /\ fate' = Unheard(Requeued)
    /\ Disconnect
    /\ UNCHANGED <<given, id, idCounter, sendQueue, sent, connections>>

\* sendMessage fails, for a malformed token or on a connection the service has
\* left: the job is enqueued again, an answer is not looked for.
SendFails ==
    /\ pc = "send"
    /\ job \in Malformed \/ answer # Quiet
    /\ sendQueue' = Requeued
    /\ fate' = Unheard(Requeued)
    /\ Disconnect
    /\ UNCHANGED <<given, id, idCounter, sent, connections>>

-----------------------------------------------------------------------------
(* The push service.                                                       *)

DispatcherOnly == UNCHANGED <<given, id, idCounter, sendQueue, sent, job, pc, connections>>

ServiceAccepts ==
    /\ answer = Quiet /\ wire # <<>>
    /\ fate' = [fate EXCEPT ![Head(wire)] = "pushed"]
    /\ wire' = Tail(wire)
    /\ DispatcherOnly /\ UNCHANGED answer

\* The id comes back as htons and ntohs leave it.
ServiceRejects ==
    /\ answer = Quiet /\ wire # <<>>
    /\ answer' = [kind |-> "rejects", id |-> id[Head(wire)] % IdModulus]
    /\ fate' = [n \in Notes |-> CASE n = Head(wire)             -> "rejected"
                                  [] n \in ToSet(Tail(wire))    -> "behind"
                                  [] OTHER                      -> fate[n]]
    /\ wire' = <<>>
    /\ DispatcherOnly

ConnectionBreaks ==
    /\ answer = Quiet /\ pc # "connect"
    /\ answer' = [kind |-> "broken", id |-> 0]
    /\ fate' = [n \in Notes |-> IF n \in ToSet(wire) THEN "lost" ELSE fate[n]]
    /\ wire' = <<>>
    /\ DispatcherOnly

-----------------------------------------------------------------------------
Dispatcher == Connect \/ Take \/ CheckError \/ CheckIdle \/ CheckNone \/ Send \/ SendFails

Next ==
    \/ \E n \in Notes : Enqueue(n)
    \/ Dispatcher
    \/ ServiceAccepts \/ ServiceRejects \/ ConnectionBreaks

Spec == Init /\ [][Next]_vars

-----------------------------------------------------------------------------
(***************************************************************************)
(* Properties.  The runs that must pass have room for all notifications in *)
(* sentMessages and ids below IdModulus.                                   *)
(***************************************************************************)

TypeOK ==
    /\ given \subseteq Notes
    /\ id \in [Notes -> Nat] /\ idCounter \in Nat
    /\ sendQueue \in Seq(Notes) /\ sent \in Seq(Notes) /\ Len(sent) <= SentCapacity
    /\ job \in Notes \cup {None}
    /\ pc \in {"connect", "take", "check", "send"}
    /\ connections \in 0..MaxConnections
    /\ wire \in Seq(Notes)
    /\ answer \in [kind : {"quiet", "rejects", "broken"}, id : 0..(IdModulus - 1)]
    /\ fate \in [Notes -> {"none", "wire", "pushed", "rejected", "behind", "lost", "unread"}]

\* apnsdispatcher.cpp:369: "now re-enqueue the rest".  What the service
\* discarded behind a rejected notification is in the queue again once the
\* dispatcher has read the rejection, and until then the rejection is there to
\* be read; nothing else vanishes but what was written to a connection that
\* ended before the service had read it.  The exception: when sendMessage fails
\* first (apnsdispatcher.cpp:510-517), the rejection is never read, and what was
\* discarded behind it is not sent again ("unread").
RestIsReenqueued ==
    \A n \in given :
        \/ n \in ToSet(sendQueue) \cup {job}
        \/ fate[n] \in {"wire", "pushed", "rejected", "lost", "unread"}
        \/ fate[n] = "behind" /\ answer.kind = "rejects"

\* apnsdispatcher.cpp:361: "remove all sent entries up to including the failed
\* one": what the service has accepted or rejected is not sent again.
SettledIsNotResent ==
    \A n \in ToSet(sendQueue) \cup ({job} \ {None}) : fate[n] \notin {"wire", "pushed", "rejected"}
=============================================================================
