----------------------------- MODULE ApnsProofs -----------------------------
(***************************************************************************)
(* What holds of the dispatcher of push notifications in every behaviour   *)
(* of Apns, for any notifications, any size of sentMessages, any number of *)
(* ids and of connections.                                                 *)
(*                                                                         *)
(* A notification goes round the send queue, the dispatcher's hands and    *)
(* sentMessages, and is in one of them at most (OnePlace); this is so      *)
(* whatever happens.  While there was room for all (Room), sentMessages    *)
(* ends with what the service has not read yet (WireIsLast), or, once it   *)
(* has answered, with the notification it rejected and those it discarded  *)
(* (RejectedFirst); so an id that comes back is enough to find what is to  *)
(* be sent again.                                                          *)
(***************************************************************************)
EXTENDS Apns, FiniteSetTheorems, SequenceTheorems, TLAPS

\* sentMessages holds all that were given and may be written, and an id is all
\* that comes back of it.
Room == Cardinality(given \ Malformed) <= SentCapacity /\ Cardinality(given) < IdModulus

\* Where the notifications to be sent are.
ToSend == ToSet(sendQueue) \cup ({job} \ {None})

Distinct(q) == \A i, j \in DOMAIN q : q[i] = q[j] => i = j

NoteTypes ==
    /\ given \in SUBSET Notes /\ IsFiniteSet(given)
    /\ id \in [Notes -> Nat] /\ idCounter \in Nat
    /\ sendQueue \in Seq(Notes) /\ sent \in Seq(Notes) /\ wire \in Seq(Notes)
    /\ job \in Notes \cup {None}
    /\ pc \in {"connect", "take", "check", "send"}
    /\ answer \in [kind : {"quiet", "rejects", "broken"}, id : Nat]
    /\ fate \in [Notes -> {"none", "wire", "pushed", "rejected", "behind", "lost", "unread"}]

\* Ids are handed out in order, once.
Numbered == {n \in Notes : id[n] # 0}

IdsOK ==
    /\ Numbered \subseteq given /\ idCounter = Cardinality(Numbered)
    /\ \A n \in Notes : id[n] <= idCounter
    /\ \A m, n \in Numbered : id[m] = id[n] => m = n

\* The dispatcher holds a job only where the code uses it.
HandsOK ==
    /\ pc \in {"connect", "take"} => job = None
    /\ pc = "send" => job \in Numbered

OnePlace ==
    /\ ToSend \cup ToSet(sent) \cup ToSet(wire) \subseteq given
    /\ Distinct(sendQueue) /\ Distinct(sent) /\ Distinct(wire)
    /\ job \notin ToSet(sendQueue)
    /\ ToSet(sent) \cap ToSend = {} /\ ToSet(wire) \cap ToSend = {}
    /\ ToSet(sent) \subseteq Numbered \ Malformed
    /\ Len(sent) = Cardinality(ToSet(sent))

AnswerOK ==
    /\ answer.kind \in {"quiet", "broken"} => answer.id = 0
    /\ answer.kind # "quiet" => wire = <<>>

NotesOK == NoteTypes /\ IdsOK /\ HandsOK /\ OnePlace /\ AnswerOK

\* The last of sent are those on the wire.
WireIsLast ==
    /\ Len(wire) <= Len(sent)
    /\ \A i \in 1..Len(wire) : wire[i] = sent[Len(sent) - Len(wire) + i]

\* The p-th of sent was rejected, what follows discarded.
RejectedAt(p) ==
    /\ p \in DOMAIN sent /\ answer.id = id[sent[p]]
    /\ \A i \in DOMAIN sent : i > p => fate[sent[i]] = "behind"
    /\ \A n \in Notes : fate[n] = "behind" => n \in ToSend \/ \E i \in DOMAIN sent : i > p /\ sent[i] = n

FateOK ==
    /\ WireIsLast
    /\ \A n \in Notes \ given : fate[n] = "none"
    /\ \A n \in given : fate[n] = "none" => n \in ToSend
    /\ \A n \in ToSend : fate[n] \in {"none", "behind"}
    /\ answer.kind = "rejects" => \E p \in DOMAIN sent : RejectedAt(p)
    /\ answer.kind # "rejects" => \A n \in Notes : fate[n] = "behind" => n \in ToSend

ApnsInv == NotesOK /\ (Room => FateOK)

-----------------------------------------------------------------------------
\* Sequences without repetition: the first is taken off, ...
LEMMA TailSet ==
    ASSUME NEW S, NEW q \in Seq(S), q # <<>>, Distinct(q)
    PROVE  /\ Head(q) \in S /\ Head(q) \in ToSet(q)
           /\ Tail(q) \in Seq(S) /\ Distinct(Tail(q))
           /\ ToSet(Tail(q)) = ToSet(q) \ {Head(q)}
<1>1. /\ Len(q) \in Nat /\ Len(q) > 0 /\ DOMAIN q = 1..Len(q) /\ Head(q) = q[1]
      /\ \A i \in 1..Len(q) : q[i] \in S
  OBVIOUS
<1>2. /\ Tail(q) \in Seq(S) /\ DOMAIN Tail(q) = 1..(Len(q) - 1)
      /\ \A i \in 1..(Len(q) - 1) : Tail(q)[i] = q[i + 1]
  OBVIOUS
<1>3. Distinct(Tail(q))
  BY <1>1, <1>2 DEF Distinct
<1>4. ToSet(Tail(q)) \subseteq ToSet(q) \ {Head(q)}
  BY <1>1, <1>2 DEF Distinct, ToSet
<1>5. ASSUME NEW e \in ToSet(q) \ {Head(q)} PROVE e \in ToSet(Tail(q))
  <2>1. PICK i \in 1..Len(q) : e = q[i]
    BY <1>1 DEF ToSet
  <2>2. i - 1 \in 1..(Len(q) - 1) /\ Tail(q)[i - 1] = e
    BY <1>1, <1>2, <1>5, <2>1
  <2> QED
    BY <1>2, <2>2 DEF ToSet
<1>6. Head(q) \in S /\ Head(q) \in ToSet(q)
  BY <1>1 DEF ToSet
<1> QED
  BY <1>2, <1>3, <1>4, <1>5, <1>6

\* ... one is added at the end, ...
LEMMA AppendSet ==
    ASSUME NEW S, NEW q \in Seq(S), NEW e \in S, e \notin ToSet(q), Distinct(q)
    PROVE  /\ Append(q, e) \in Seq(S) /\ Distinct(Append(q, e))
           /\ ToSet(Append(q, e)) = ToSet(q) \cup {e}
<1>1. /\ Len(q) \in Nat /\ DOMAIN q = 1..Len(q) /\ \A i \in 1..Len(q) : q[i] \in S
  OBVIOUS
<1>2. /\ Append(q, e) \in Seq(S) /\ DOMAIN Append(q, e) = 1..(Len(q) + 1)
      /\ \A i \in 1..(Len(q) + 1) : Append(q, e)[i] = IF i = Len(q) + 1 THEN e ELSE q[i]
  OBVIOUS
<1>3. Distinct(Append(q, e))
  BY <1>1, <1>2 DEF Distinct, ToSet
<1>4. ToSet(Append(q, e)) \subseteq ToSet(q) \cup {e}
  BY <1>1, <1>2 DEF ToSet
<1>5. e \in ToSet(Append(q, e))
  BY <1>1, <1>2 DEF ToSet
<1>6. ASSUME NEW i \in 1..Len(q) PROVE q[i] \in ToSet(Append(q, e))
  BY <1>1, <1>2, <1>6 DEF ToSet
<1> QED
  BY <1>1, <1>2, <1>3, <1>4, <1>5, <1>6 DEF ToSet

\* ... the first k are left out, ...
LEMMA RestSet ==
    ASSUME NEW S, NEW q \in Seq(S), Distinct(q), NEW k \in 0..Len(q)
    PROVE  LET r == SubSeq(q, k + 1, Len(q))
           IN  r \in Seq(S) /\ Distinct(r) /\ ToSet(r) = {q[i] : i \in (k + 1)..Len(q)}
<1> PICK n \in Nat : n = Len(q) /\ DOMAIN q = 1..n
  OBVIOUS
<1> DEFINE r == SubSeq(q, k + 1, n)
<1>0. k \in Int /\ n \in Int /\ 0 <= k /\ k <= n /\ k + 1 \in Int
  OBVIOUS
<1>1. \A i \in (k + 1)..n : q[i] \in S
  OBVIOUS
<1>2. r \in Seq(S) /\ Len(r) = n - k /\ \A i \in 1..(n - k) : r[i] = q[k + i]
  BY <1>0, <1>1, SubSeqProperties
<1> HIDE DEF r
<1>3. DOMAIN r = 1..(n - k)
  BY <1>2
<1>4. ASSUME NEW i \in 1..(n - k), NEW j \in 1..(n - k), r[i] = r[j]
      PROVE  i = j
  <2>1. k + i \in 1..n /\ k + j \in 1..n /\ q[k + i] = q[k + j]
    BY <1>0, <1>2, <1>4
  <2>2. k + i = k + j
    BY <2>1 DEF Distinct
  <2> QED
    BY <1>0, <2>2
<1>5. Distinct(r)
  BY <1>3, <1>4 DEF Distinct
<1>6. ASSUME NEW i \in 1..(n - k) PROVE r[i] \in {q[j] : j \in (k + 1)..n}
  <2>1. k + i \in (k + 1)..n /\ r[i] = q[k + i]
    BY <1>0, <1>2
  <2> QED
    BY <2>1
<1>7. ASSUME NEW j \in (k + 1)..n PROVE q[j] \in ToSet(r)
  <2>1. j - k \in 1..(n - k) /\ k + (j - k) = j
    BY <1>0
  <2>2. r[j - k] = q[j]
    BY <1>2, <2>1
  <2> QED
    BY <1>3, <2>1, <2>2 DEF ToSet
<1>8. ToSet(r) = {q[j] : j \in (k + 1)..n}
  BY <1>3, <1>6, <1>7 DEF ToSet
<1> QED
  BY <1>2, <1>5, <1>8 DEF r

\* ... and two are put one behind the other.
LEMMA ConcatSet ==
    ASSUME NEW S, NEW q \in Seq(S), NEW r \in Seq(S), Distinct(q), Distinct(r),
           ToSet(q) \cap ToSet(r) = {}
    PROVE  q \o r \in Seq(S) /\ Distinct(q \o r) /\ ToSet(q \o r) = ToSet(q) \cup ToSet(r)
<1>1. /\ Len(q) \in Nat /\ DOMAIN q = 1..Len(q) /\ Len(r) \in Nat /\ DOMAIN r = 1..Len(r)
  OBVIOUS
<1> DEFINE c == q \o r
<1>2. /\ c \in Seq(S) /\ DOMAIN c = 1..(Len(q) + Len(r))
      /\ \A i \in 1..(Len(q) + Len(r)) : c[i] = IF i <= Len(q) THEN q[i] ELSE r[i - Len(q)]
  BY ConcatProperties
<1> HIDE DEF c
<1>3. ASSUME NEW i \in 1..(Len(q) + Len(r)), NEW j \in 1..(Len(q) + Len(r)), c[i] = c[j]
      PROVE  i = j
  <2>1. CASE i <= Len(q) /\ j <= Len(q)
    BY <1>1, <1>2, <1>3, <2>1 DEF Distinct
  <2>2. CASE i > Len(q) /\ j > Len(q)
    <3>1. i - Len(q) \in DOMAIN r /\ j - Len(q) \in DOMAIN r /\ r[i - Len(q)] = r[j - Len(q)]
      BY <1>1, <1>2, <1>3, <2>2
    <3>2. i - Len(q) = j - Len(q)
      BY <3>1 DEF Distinct
    <3> QED
      BY <1>1, <3>2
  <2>3. CASE i <= Len(q) /\ j > Len(q)
    <3>1. i \in DOMAIN q /\ j - Len(q) \in DOMAIN r /\ q[i] = r[j - Len(q)]
      BY <1>1, <1>2, <1>3, <2>3
    <3> QED
      BY <3>1 DEF ToSet
  <2>4. CASE i > Len(q) /\ j <= Len(q)
    <3>1. j \in DOMAIN q /\ i - Len(q) \in DOMAIN r /\ q[j] = r[i - Len(q)]
      BY <1>1, <1>2, <1>3, <2>4
    <3> QED
      BY <3>1 DEF ToSet
  <2> QED
    BY <1>1, <2>1, <2>2, <2>3, <2>4
<1>4. Distinct(c)
  BY <1>2, <1>3 DEF Distinct
<1>5. ASSUME NEW e \in ToSet(c) PROVE e \in ToSet(q) \cup ToSet(r)
  <2>1. PICK i \in 1..(Len(q) + Len(r)) : e = c[i]
    BY <1>2, <1>5 DEF ToSet
  <2>2. i <= Len(q) => i \in DOMAIN q /\ e = q[i]
    BY <1>1, <1>2, <2>1
  <2>3. i > Len(q) => i - Len(q) \in DOMAIN r /\ e = r[i - Len(q)]
    BY <1>1, <1>2, <2>1
  <2> QED
    BY <1>1, <2>1, <2>2, <2>3 DEF ToSet
<1>6. ASSUME NEW i \in DOMAIN q PROVE q[i] \in ToSet(c)
  <2>1. i \in DOMAIN c /\ c[i] = q[i]
    BY <1>1, <1>2
  <2> QED
    BY <2>1 DEF ToSet
<1>7. ASSUME NEW i \in DOMAIN r PROVE r[i] \in ToSet(c)
  <2>1. Len(q) + i \in DOMAIN c /\ c[Len(q) + i] = r[i]
    BY <1>1, <1>2
  <2> QED
    BY <2>1 DEF ToSet
<1>8. ToSet(c) = ToSet(q) \cup ToSet(r)
  BY <1>5, <1>6, <1>7 DEF ToSet
<1> QED
  BY <1>2, <1>4, <1>8 DEF c

-----------------------------------------------------------------------------
\* What reenqueueAfterError leaves, given the id of one that is remembered, or
\* another.
LEMMA RestFound ==
    ASSUME NotesOK, NEW p \in DOMAIN sent
    PROVE  Rest(id[sent[p]]) = SubSeq(sent, p + 1, Len(sent))
<1> DEFINE found == {i \in DOMAIN sent : id[sent[i]] = id[sent[p]]}
<1>1. found = {p}
  <2>1. ASSUME NEW i \in found PROVE i = p
    <3>1. sent[i] \in Numbered /\ sent[p] \in Numbered
      BY DEF NotesOK, OnePlace, ToSet
    <3>2. sent[i] = sent[p]
      BY <3>1 DEF NotesOK, IdsOK
    <3> QED
      BY <3>2 DEF NotesOK, OnePlace, Distinct
  <2> QED
    BY <2>1
<1>2. p \in Nat
  BY DEF NotesOK, NoteTypes
<1>3. (CHOOSE i \in found : \A j \in found : i <= j) = p
  <2> HIDE DEF found
  <2> QED
    BY <1>1, <1>2
<1> QED
  BY <1>1, <1>3 DEF Rest

LEMMA RestOK ==
    ASSUME NotesOK, NEW f
    PROVE  Rest(f) \in Seq(Notes) /\ Distinct(Rest(f)) /\ ToSet(Rest(f)) \subseteq ToSet(sent)
<1>1. CASE \A i \in DOMAIN sent : id[sent[i]] # f
  <2>1. Rest(f) = <<>>
    BY <1>1 DEF Rest
  <2> QED
    BY <2>1 DEF Distinct, ToSet
<1>2. ASSUME NEW p \in DOMAIN sent, f = id[sent[p]]
      PROVE  Rest(f) \in Seq(Notes) /\ Distinct(Rest(f)) /\ ToSet(Rest(f)) \subseteq ToSet(sent)
  <2>1. sent \in Seq(Notes) /\ Distinct(sent) /\ p \in 1..Len(sent) /\ Len(sent) \in Nat
    BY DEF NotesOK, NoteTypes, OnePlace
  <2>2. p \in 0..Len(sent)
    BY <2>1
  <2>3. Rest(f) = SubSeq(sent, p + 1, Len(sent))
    BY <1>2, RestFound
  <2>4. Rest(f) \in Seq(Notes) /\ Distinct(Rest(f)) /\ ToSet(Rest(f)) = {sent[i] : i \in (p + 1)..Len(sent)}
    BY <2>1, <2>2, <2>3, RestSet
  <2>5. ASSUME NEW i \in (p + 1)..Len(sent) PROVE sent[i] \in ToSet(sent)
    BY <2>1 DEF ToSet
  <2> QED
    BY <2>4, <2>5
<1> QED
  BY <1>1, <1>2

\* enqueue() puts the job at the end of the queue.
LEMMA RequeuedOK ==
    ASSUME NotesOK
    PROVE  Requeued \in Seq(Notes) /\ Distinct(Requeued) /\ ToSet(Requeued) = ToSend
<1>1. sendQueue \in Seq(Notes) /\ Distinct(sendQueue) /\ job \notin ToSet(sendQueue) /\ job \in Notes \cup {None}
  BY DEF NotesOK, NoteTypes, OnePlace
<1>2. CASE job = None
  BY <1>1, <1>2 DEF Requeued, ToSend
<1>3. CASE job # None
  <2>1. Requeued = Append(sendQueue, job) /\ job \in Notes
    BY <1>1, <1>3 DEF Requeued
  <2>2. ToSend = ToSet(sendQueue) \cup {job}
    BY <1>3 DEF ToSend
  <2> QED
    BY <1>1, <2>1, <2>2, AppendSet
<1> QED
  BY <1>2, <1>3

\* What becomes of each notification when a connection is given up unheard, q being
\* what waits to be sent.
LEMMA UnheardFates ==
    ASSUME NotesOK, NEW q, ToSet(q) = ToSend
    PROVE  /\ Unheard(q) \in [Notes -> {"none", "wire", "pushed", "rejected", "behind", "lost", "unread"}]
           /\ \A n \in ToSet(wire) : Unheard(q)[n] = "lost"
           /\ \A n \in Notes \ (ToSet(wire) \cup ToSend) :
                 Unheard(q)[n] = IF fate[n] = "behind" THEN "unread" ELSE fate[n]
           /\ \A n \in ToSend : Unheard(q)[n] = fate[n]
<1> DEFINE new(n) == IF n \in ToSet(wire) THEN "lost"
                     ELSE IF fate[n] = "behind" /\ n \notin ToSet(q) THEN "unread" ELSE fate[n]
<1>1. Unheard(q) = [n \in Notes |-> new(n)]
  BY DEF Unheard
<1>2. /\ ToSet(wire) \subseteq Notes /\ ToSend \subseteq Notes /\ ToSet(wire) \cap ToSend = {}
      /\ fate \in [Notes -> {"none", "wire", "pushed", "rejected", "behind", "lost", "unread"}]
  BY DEF NotesOK, NoteTypes, OnePlace
<1>3. ASSUME NEW n \in Notes
      PROVE  /\ n \in ToSet(wire) => new(n) = "lost"
             /\ n \notin ToSet(wire) \cup ToSend => new(n) = IF fate[n] = "behind" THEN "unread" ELSE fate[n]
             /\ n \in ToSend => new(n) = fate[n]
  <2>1. CASE n \in ToSet(wire)
    BY <1>2, <2>1
  <2>2. CASE n \notin ToSet(wire) /\ n \in ToSend
    BY <2>2
  <2>3. CASE n \notin ToSet(wire) /\ n \notin ToSend
    BY <2>3
  <2> QED
    BY <2>1, <2>2, <2>3
<1> HIDE DEF new
<1>4. \A n \in Notes : new(n) \in {"none", "wire", "pushed", "rejected", "behind", "lost", "unread"}
  BY <1>2, <1>3
<1> QED
  BY <1>1, <1>2, <1>3, <1>4

\* disconnect() with the queue q in place of the job and what is forgotten of sent.
LEMMA DisconnectOK ==
    ASSUME NotesOK, Disconnect, UNCHANGED <<given, id, idCounter>>,
           fate' \in [Notes -> {"none", "wire", "pushed", "rejected", "behind", "lost", "unread"}],
           sendQueue' \in Seq(Notes), Distinct(sendQueue'), ToSet(sendQueue') \subseteq given,
           \/ sent' = <<>>
           \/ UNCHANGED sent /\ ToSet(sent) \cap ToSet(sendQueue') = {}
    PROVE  NotesOK'
<1>1. NoteTypes'
  <2>2. sent' \in Seq(Notes) /\ wire' \in Seq(Notes)
    <3>1. sent \in Seq(Notes) /\ <<>> \in Seq(Notes)
      BY DEF NotesOK, NoteTypes
    <3> QED
      BY <3>1 DEF Disconnect
  <2>3. answer' \in [kind : {"quiet", "rejects", "broken"}, id : Nat]
    BY DEF Disconnect, Quiet
  <2> QED
    BY <2>2, <2>3 DEF NotesOK, NoteTypes, Disconnect
<1>2. IdsOK' /\ Numbered' = Numbered
  BY DEF NotesOK, IdsOK, Numbered
<1>3. HandsOK'
  BY DEF HandsOK, Disconnect
<1>4. AnswerOK'
  BY DEF AnswerOK, Disconnect, Quiet
<1>5. OnePlace'
  <2>1. ToSend' = ToSet(sendQueue') /\ ToSet(wire') = {} /\ Distinct(wire')
    BY DEF Disconnect, ToSend, ToSet, Distinct
  <2>2. job' \notin ToSet(sendQueue')
    <3>1. ToSet(sendQueue') \subseteq Notes
      BY DEF NotesOK, NoteTypes
    <3> QED
      BY <3>1, ApnsAssumption DEF Disconnect
  <2>3. CASE sent' = <<>>
    <3>1. ToSet(sent') = {} /\ Distinct(sent') /\ Len(sent') = 0
      BY <2>3 DEF ToSet, Distinct
    <3>2. Cardinality({}) = 0
      BY FS_EmptySet
    <3> QED
      BY <2>1, <2>2, <3>1, <3>2 DEF OnePlace
  <2>4. CASE UNCHANGED sent /\ ToSet(sent) \cap ToSet(sendQueue') = {}
    BY <1>2, <2>1, <2>2, <2>4 DEF NotesOK, OnePlace
  <2> QED
    BY <2>3, <2>4
<1> QED
  BY <1>1, <1>2, <1>3, <1>4, <1>5 DEF NotesOK

-----------------------------------------------------------------------------
\* Every step keeps OnePlace and what it rests on.
LEMMA EnqueueKeeps ==
    ASSUME NotesOK, NEW n \in Notes, Enqueue(n)
    PROVE  NotesOK' /\ ToSend' = ToSend \cup {n}
<1>0. n \notin given /\ given' = given \cup {n} /\ sendQueue' = Append(sendQueue, n)
  BY DEF Enqueue
<1>1. n \notin ToSend /\ n \notin ToSet(sendQueue) /\ n # None /\ n \notin ToSet(sent) /\ n \notin ToSet(wire)
  BY <1>0, ApnsAssumption DEF NotesOK, OnePlace, ToSend
<1>2. sendQueue' \in Seq(Notes) /\ Distinct(sendQueue') /\ ToSet(sendQueue') = ToSet(sendQueue) \cup {n}
  BY <1>0, <1>1, AppendSet DEF NotesOK, NoteTypes, OnePlace
<1>3. IsFiniteSet(given')
  BY <1>0, FS_AddElement DEF NotesOK, NoteTypes
<1>4. NoteTypes'
  BY <1>0, <1>2, <1>3 DEF NotesOK, NoteTypes, Enqueue
<1>5. IdsOK' /\ Numbered' = Numbered
  BY <1>0 DEF NotesOK, IdsOK, Numbered, Enqueue
<1>6. HandsOK' /\ AnswerOK'
  BY <1>5 DEF NotesOK, HandsOK, AnswerOK, Enqueue
<1>7. ToSend' = ToSend \cup {n}
  BY <1>2 DEF ToSend, Enqueue
<1>8. UNCHANGED <<sent, wire, job>> /\ job # n
  BY <1>1 DEF Enqueue, ToSend
<1>9. OnePlace'
  BY <1>0, <1>1, <1>2, <1>5, <1>7, <1>8 DEF NotesOK, OnePlace
<1> QED
  BY <1>4, <1>5, <1>6, <1>7, <1>9 DEF NotesOK

LEMMA ConnectKeeps ==
    ASSUME NotesOK, Connect \/ CheckIdle
    PROVE  NotesOK' /\ ToSend' = ToSend
<1>1. UNCHANGED <<given, id, idCounter, sendQueue, sent, job, wire, answer, fate>> /\ pc' = "take"
  BY DEF Connect, CheckIdle
<1>2. job = None
  BY DEF NotesOK, HandsOK, Connect, CheckIdle
<1>3. NoteTypes' /\ IdsOK' /\ AnswerOK' /\ ToSend' = ToSend /\ Numbered' = Numbered
  BY <1>1 DEF NotesOK, NoteTypes, IdsOK, AnswerOK, ToSend, Numbered
<1>4. HandsOK'
  BY <1>1, <1>2 DEF HandsOK
<1>5. OnePlace'
  BY <1>1, <1>3 DEF NotesOK, OnePlace
<1> QED
  BY <1>3, <1>4, <1>5 DEF NotesOK

LEMMA TakeKeeps ==
    ASSUME NotesOK, Take
    PROVE  NotesOK' /\ ToSend' = ToSend
<1>1. UNCHANGED <<given, id, idCounter, sent, wire, answer, fate>> /\ pc' = "check" /\ job = None
  BY DEF NotesOK, HandsOK, Take
<1>2. Numbered' = Numbered /\ IdsOK' /\ AnswerOK' /\ HandsOK'
  BY <1>1 DEF NotesOK, IdsOK, AnswerOK, HandsOK, Numbered
<1>3. CASE sendQueue = <<>>
  <2>1. UNCHANGED <<sendQueue, job>>
    BY <1>3 DEF Take
  <2>2. NoteTypes' /\ ToSend' = ToSend
    BY <1>1, <2>1 DEF NotesOK, NoteTypes, ToSend
  <2>3. OnePlace'
    BY <1>1, <1>2, <2>1, <2>2 DEF NotesOK, OnePlace
  <2> QED
    BY <1>2, <2>2, <2>3 DEF NotesOK
<1>4. CASE sendQueue # <<>>
  <2>1. job' = Head(sendQueue) /\ sendQueue' = Tail(sendQueue)
    BY <1>4 DEF Take
  <2>2. /\ job' \in Notes /\ job' \in ToSet(sendQueue) /\ sendQueue' \in Seq(Notes)
        /\ Distinct(sendQueue') /\ ToSet(sendQueue') = ToSet(sendQueue) \ {job'}
    BY <1>4, <2>1, TailSet DEF NotesOK, NoteTypes, OnePlace
  <2>3. job' # None
    BY <2>2, ApnsAssumption
  <2>4. ToSend' = ToSend
    BY <1>1, <2>2, <2>3 DEF ToSend
  <2>5. NoteTypes'
    BY <1>1, <2>2 DEF NotesOK, NoteTypes
  <2>6. OnePlace'
    BY <1>1, <1>2, <2>2, <2>4 DEF NotesOK, OnePlace
  <2> QED
    BY <1>2, <2>4, <2>5, <2>6 DEF NotesOK
<1> QED
  BY <1>3, <1>4

LEMMA CheckErrorKeeps ==
    ASSUME NotesOK, CheckError
    PROVE  /\ NotesOK'
           /\ ToSet(sendQueue') = ToSend \cup (IF answer.id > 0 THEN ToSet(Rest(answer.id)) ELSE {})
<1>1. /\ Disconnect /\ UNCHANGED <<given, id, idCounter>>
      /\ fate' \in [Notes -> {"none", "wire", "pushed", "rejected", "behind", "lost", "unread"}]
  BY DEF CheckError, NotesOK, NoteTypes
<1>2. /\ Requeued \in Seq(Notes) /\ Distinct(Requeued) /\ ToSet(Requeued) = ToSend
      /\ ToSend \subseteq given /\ ToSet(sent) \subseteq given /\ ToSet(sent) \cap ToSend = {}
  BY RequeuedOK DEF NotesOK, OnePlace
<1>3. CASE answer.id > 0
  <2>1. sendQueue' = Requeued \o Rest(answer.id) /\ sent' = <<>>
    BY <1>3 DEF CheckError
  <2>2. /\ Rest(answer.id) \in Seq(Notes) /\ Distinct(Rest(answer.id))
        /\ ToSet(Rest(answer.id)) \subseteq ToSet(sent)
    BY RestOK
  <2>3. ToSet(Requeued) \cap ToSet(Rest(answer.id)) = {}
    BY <1>2, <2>2
  <2>4. /\ sendQueue' \in Seq(Notes) /\ Distinct(sendQueue')
        /\ ToSet(sendQueue') = ToSend \cup ToSet(Rest(answer.id))
    BY <1>2, <2>1, <2>2, <2>3, ConcatSet
  <2>5. ToSet(sendQueue') \subseteq given
    BY <1>2, <2>2, <2>4
  <2>6. NotesOK'
    BY <1>1, <2>1, <2>4, <2>5, DisconnectOK
  <2> QED
    BY <1>3, <2>4, <2>6
<1>4. CASE ~(answer.id > 0)
  <2>1. sendQueue' = Requeued /\ UNCHANGED sent
    BY <1>4 DEF CheckError
  <2>2. NotesOK'
    BY <1>1, <1>2, <2>1, DisconnectOK
  <2> QED
    BY <1>2, <1>4, <2>1, <2>2
<1> QED
  BY <1>3, <1>4

LEMMA SendFailsKeeps ==
    ASSUME NotesOK, SendFails
    PROVE  NotesOK' /\ ToSet(sendQueue') = ToSend
<1>1. Disconnect /\ UNCHANGED <<given, id, idCounter, sent>> /\ sendQueue' = Requeued
  BY DEF SendFails
<1>2. /\ Requeued \in Seq(Notes) /\ Distinct(Requeued) /\ ToSet(Requeued) = ToSend
      /\ ToSend \subseteq given /\ ToSet(sent) \cap ToSend = {}
  BY RequeuedOK DEF NotesOK, OnePlace
<1>3. fate' \in [Notes -> {"none", "wire", "pushed", "rejected", "behind", "lost", "unread"}]
  BY <1>2, UnheardFates DEF SendFails
<1> QED
  BY <1>1, <1>2, <1>3, DisconnectOK

\* The id a job gets is one nobody has.
LEMMA CheckNoneKeeps ==
    ASSUME NotesOK, CheckNone
    PROVE  NotesOK' /\ ToSend' = ToSend
<1>1. /\ UNCHANGED <<given, sendQueue, sent, job, wire, answer, fate>> /\ pc' = "send" /\ ToSend' = ToSend
      /\ job \in Notes /\ job \in given
  BY DEF NotesOK, NoteTypes, OnePlace, CheckNone, ToSend
<1>2. AnswerOK'
  BY <1>1 DEF NotesOK, AnswerOK
<1>3. CASE id[job] # 0
  <2>1. UNCHANGED <<id, idCounter>>
    BY <1>3 DEF CheckNone
  <2>2. NoteTypes' /\ IdsOK' /\ Numbered' = Numbered
    BY <1>1, <2>1 DEF NotesOK, NoteTypes, IdsOK, Numbered
  <2>3. HandsOK'
    BY <1>1, <1>3, <2>2 DEF HandsOK, Numbered
  <2>4. OnePlace'
    BY <1>1, <2>2 DEF NotesOK, OnePlace
  <2> QED
    BY <1>1, <1>2, <2>2, <2>3, <2>4 DEF NotesOK
<1>4. CASE id[job] = 0
  <2> DEFINE c == idCounter + 1
  <2>0. c \in Nat /\ c # 0 /\ idCounter \in Nat /\ id \in [Notes -> Nat] /\ \A n \in Notes : id[n] < c
    BY DEF NotesOK, NoteTypes, IdsOK
  <2>1. idCounter' = c /\ id' = [id EXCEPT ![job] = c]
    BY <1>4 DEF CheckNone
  <2>2. NoteTypes'
    <3> HIDE DEF c
    <3> QED
      BY <1>1, <2>0, <2>1 DEF NotesOK, NoteTypes
  <2>3. job \notin Numbered /\ Numbered' = Numbered \cup {job}
    <3> HIDE DEF c
    <3> QED
      BY <1>1, <1>4, <2>0, <2>1 DEF Numbered
  <2>4. IsFiniteSet(Numbered) /\ Numbered \subseteq given /\ idCounter = Cardinality(Numbered)
    BY FS_Subset DEF NotesOK, NoteTypes, IdsOK
  <2>5. Cardinality(Numbered \cup {job}) = c
    BY <2>3, <2>4, FS_AddElement
  <2>6. IdsOK'
    <3>1. Numbered' \subseteq given' /\ idCounter' = Cardinality(Numbered')
      BY <1>1, <2>1, <2>3, <2>4, <2>5
    <3>2. \A n \in Notes : id'[n] <= idCounter'
      BY <2>0, <2>1
    <3>3. \A m, n \in Numbered : id[m] = id[n] => m = n
      BY DEF NotesOK, IdsOK
    <3>4. \A n \in Numbered : id'[n] = id[n] /\ id[n] # c
      BY <2>0, <2>1, <2>3 DEF Numbered
    <3>5. id'[job] = c
      BY <1>1, <2>0, <2>1
    <3> HIDE DEF c
    <3>6. \A m, n \in Numbered' : id'[m] = id'[n] => m = n
      BY <2>3, <3>3, <3>4, <3>5
    <3> QED
      BY <3>1, <3>2, <3>6 DEF IdsOK
  <2>7. HandsOK'
    BY <1>1, <2>3 DEF HandsOK
  <2>8. OnePlace'
    BY <1>1, <2>3 DEF NotesOK, OnePlace, ToSend
  <2> QED
    BY <1>1, <1>2, <2>2, <2>6, <2>7, <2>8 DEF NotesOK
<1> QED
  BY <1>3, <1>4

\* sentMessages with the job in it: as long as there is room, nothing is pushed out.
LEMMA RememberedOK ==
    ASSUME NotesOK, Send
    PROVE  /\ job \in Numbered \ Malformed /\ job \in ToSend /\ job \notin ToSet(sent) /\ job \in given
           /\ Remembered \in Seq(Notes) /\ Distinct(Remembered)
           /\ ToSet(Remembered) \subseteq ToSet(sent) \cup {job}
           /\ Len(Remembered) = Cardinality(ToSet(Remembered))
           /\ Room => Remembered = Append(sent, job)
<1>1. /\ job \in Numbered \ Malformed /\ job \in Notes
      /\ sent \in Seq(Notes) /\ Distinct(sent) /\ Len(sent) = Cardinality(ToSet(sent))
      /\ ToSet(sent) \subseteq Numbered \ Malformed /\ Numbered \subseteq given
      /\ ToSet(sent) \subseteq given /\ IsFiniteSet(given)
  BY DEF NotesOK, HandsOK, Send, NoteTypes, OnePlace, IdsOK, Numbered
<1>2. job \in ToSend /\ job \notin ToSet(sent)
  BY <1>1, ApnsAssumption DEF NotesOK, OnePlace, ToSend
<1>3. IsFiniteSet(ToSet(sent)) /\ Len(sent) \in Nat
  BY <1>1, FS_Subset
<1>4. ASSUME NEW q \in Seq(Notes), Distinct(q), ToSet(q) \subseteq ToSet(sent), Len(q) = Cardinality(ToSet(q))
      PROVE  LET a == Append(q, job)
             IN  /\ a \in Seq(Notes) /\ Distinct(a) /\ ToSet(a) = ToSet(q) \cup {job}
                 /\ Len(a) = Cardinality(ToSet(a)) /\ Len(a) = Len(q) + 1
  <2> DEFINE a == Append(q, job)
  <2>1. a \in Seq(Notes) /\ Distinct(a) /\ ToSet(a) = ToSet(q) \cup {job}
    BY <1>1, <1>2, <1>4, AppendSet
  <2>2. Len(a) = Len(q) + 1
    BY <1>1
  <2>3. IsFiniteSet(ToSet(q)) /\ job \notin ToSet(q)
    BY <1>2, <1>3, <1>4, FS_Subset
  <2>4. Cardinality(ToSet(q) \cup {job}) = Cardinality(ToSet(q)) + 1
    BY <2>3, FS_AddElement
  <2> HIDE DEF a
  <2>5. Len(a) = Cardinality(ToSet(a))
    BY <1>4, <2>1, <2>2, <2>4
  <2> QED
    BY <2>1, <2>2, <2>5 DEF a
<1>5. CASE Len(sent) < SentCapacity
  <2>1. Remembered = Append(sent, job)
    BY <1>5 DEF Remembered
  <2> QED
    BY <1>1, <1>2, <1>4, <2>1
<1>6. CASE ~(Len(sent) < SentCapacity)
  <2>1. Remembered = Append(Tail(sent), job)
    BY <1>6 DEF Remembered
  <2>2. sent # <<>>
    BY <1>3, <1>6, ApnsAssumption
  <2>3. /\ Tail(sent) \in Seq(Notes) /\ Distinct(Tail(sent)) /\ Len(Tail(sent)) = Len(sent) - 1
        /\ Head(sent) \in ToSet(sent) /\ ToSet(Tail(sent)) = ToSet(sent) \ {Head(sent)}
    BY <1>1, <2>2, TailSet
  <2>4. Cardinality(ToSet(sent) \ {Head(sent)}) = Cardinality(ToSet(sent)) - 1
    BY <1>3, <2>3, FS_RemoveElement
  <2>5. Len(Tail(sent)) = Cardinality(ToSet(Tail(sent))) /\ ToSet(Tail(sent)) \subseteq ToSet(sent)
    BY <1>1, <2>3, <2>4
  <2>6. /\ Remembered \in Seq(Notes) /\ Distinct(Remembered)
        /\ ToSet(Remembered) = ToSet(Tail(sent)) \cup {job}
        /\ Len(Remembered) = Cardinality(ToSet(Remembered))
    BY <1>4, <2>1, <2>3, <2>5
  <2>7. ~Room
    <3> DEFINE all == ToSet(sent) \cup {job}
    <3>1. all \subseteq given \ Malformed
      BY <1>1
    <3>2. Cardinality(all) = Len(sent) + 1
      BY <1>1, <1>2, <1>3, FS_AddElement
    <3>3. IsFiniteSet(given \ Malformed)
      BY <1>1, FS_Subset
    <3> HIDE DEF all
    <3>4. Cardinality(all) <= Cardinality(given \ Malformed)
      BY <3>1, <3>3, FS_Subset
    <3>5. Cardinality(given \ Malformed) \in Nat /\ SentCapacity \in Nat
      BY <3>3, FS_CardinalityType, ApnsAssumption
    <3> QED
      BY <1>3, <1>6, <3>2, <3>4, <3>5 DEF Room
  <2> QED
    BY <1>1, <1>2, <2>5, <2>6, <2>7
<1> QED
  BY <1>5, <1>6

LEMMA SendKeeps ==
    ASSUME NotesOK, Send
    PROVE  NotesOK' /\ ToSend' = ToSend \ {job}
<1>1. /\ sent' = Remembered /\ job' = None /\ pc' = "take"
      /\ wire' = IF answer = Quiet THEN Append(wire, job) ELSE wire
      /\ UNCHANGED <<given, id, idCounter, sendQueue, answer>>
  BY DEF Send
<1>2. /\ job \in Numbered \ Malformed /\ job \in ToSend /\ job \notin ToSet(sent) /\ job \in given
      /\ Remembered \in Seq(Notes) /\ Distinct(Remembered)
      /\ ToSet(Remembered) \subseteq ToSet(sent) \cup {job}
      /\ Len(Remembered) = Cardinality(ToSet(Remembered))
  BY RememberedOK
<1>3. /\ wire \in Seq(Notes) /\ Distinct(wire) /\ job \notin ToSet(wire) /\ job \in Notes
      /\ ToSet(wire) \subseteq given
  BY <1>2 DEF NotesOK, NoteTypes, OnePlace
<1>4. wire' \in Seq(Notes) /\ Distinct(wire') /\ ToSet(wire') \subseteq ToSet(wire) \cup {job}
  BY <1>1, <1>3, AppendSet
<1>5. fate' \in [Notes -> {"none", "wire", "pushed", "rejected", "behind", "lost", "unread"}]
  <2> DEFINE f == CASE answer = Quiet          -> "wire"
                    [] answer.kind = "rejects" -> "behind"
                    [] OTHER                   -> "lost"
  <2>1. fate' = [fate EXCEPT ![job] = f]
    BY DEF Send
  <2>2. f \in {"none", "wire", "pushed", "rejected", "behind", "lost", "unread"}
    OBVIOUS
  <2>3. fate \in [Notes -> {"none", "wire", "pushed", "rejected", "behind", "lost", "unread"}]
    BY DEF NotesOK, NoteTypes
  <2> HIDE DEF f
  <2> QED
    BY <2>1, <2>2, <2>3
<1>6. NoteTypes'
  BY <1>1, <1>2, <1>4, <1>5 DEF NotesOK, NoteTypes
<1>7. IdsOK' /\ Numbered' = Numbered
  BY <1>1 DEF NotesOK, IdsOK, Numbered
<1>8. HandsOK'
  BY <1>1 DEF HandsOK
<1>9. AnswerOK'
  BY <1>1 DEF NotesOK, AnswerOK, Quiet
<1>10. ToSend' = ToSend \ {job}
  <2>1. job \notin ToSet(sendQueue)
    BY DEF NotesOK, OnePlace
  <2> QED
    BY <1>1, <2>1 DEF ToSend
<1>11. OnePlace'
  <2>1. /\ ToSend \cup ToSet(sent) \cup ToSet(wire) \subseteq given /\ Distinct(sendQueue)
        /\ ToSet(sent) \cap ToSend = {} /\ ToSet(wire) \cap ToSend = {}
        /\ ToSet(sent) \subseteq Numbered \ Malformed
    BY DEF NotesOK, OnePlace
  <2>2. job' \notin ToSet(sendQueue')
    <3>1. ToSet(sendQueue) \subseteq Notes
      BY <2>1 DEF NotesOK, NoteTypes, ToSend
    <3> QED
      BY <1>1, <3>1, ApnsAssumption
  <2>3. ToSend' \cup ToSet(sent') \cup ToSet(wire') \subseteq given'
    BY <1>1, <1>2, <1>4, <1>10, <2>1
  <2>4. ToSet(sent') \cap ToSend' = {} /\ ToSet(wire') \cap ToSend' = {}
    BY <1>1, <1>2, <1>4, <1>10, <2>1
  <2>5. ToSet(sent') \subseteq Numbered' \ Malformed /\ Len(sent') = Cardinality(ToSet(sent'))
    BY <1>1, <1>2, <1>7, <2>1
  <2>6. Distinct(sendQueue') /\ Distinct(sent') /\ Distinct(wire')
    BY <1>1, <1>2, <1>4, <2>1
  <2> QED
    BY <2>2, <2>3, <2>4, <2>5, <2>6 DEF OnePlace
<1> QED
  BY <1>6, <1>7, <1>8, <1>9, <1>10, <1>11 DEF NotesOK

\* What the service does changes nothing but the wire, the answer and what became of
\* the notifications.
LEMMA ServiceKeepsPlaces ==
    ASSUME NotesOK, DispatcherOnly, wire' \in Seq(Notes), Distinct(wire'), ToSet(wire') \subseteq ToSet(wire),
           answer' \in [kind : {"quiet", "rejects", "broken"}, id : Nat], AnswerOK',
           fate' \in [Notes -> {"none", "wire", "pushed", "rejected", "behind", "lost", "unread"}]
    PROVE  NotesOK' /\ ToSend' = ToSend
<1>1. NoteTypes' /\ ToSend' = ToSend /\ Numbered' = Numbered
  BY DEF NotesOK, NoteTypes, DispatcherOnly, ToSend, Numbered
<1>2. IdsOK' /\ HandsOK'
  BY <1>1 DEF NotesOK, IdsOK, HandsOK, DispatcherOnly
<1>3. OnePlace'
  BY <1>1 DEF NotesOK, OnePlace, DispatcherOnly
<1> QED
  BY <1>1, <1>2, <1>3 DEF NotesOK

LEMMA ServiceKeeps ==
    ASSUME NotesOK, ServiceAccepts \/ ServiceRejects \/ ConnectionBreaks
    PROVE  NotesOK' /\ ToSend' = ToSend
<1> DEFINE Fates == {"none", "wire", "pushed", "rejected", "behind", "lost", "unread"}
<1>0. /\ fate \in [Notes -> Fates] /\ wire \in Seq(Notes) /\ Distinct(wire) /\ DispatcherOnly
      /\ <<>> \in Seq(Notes) /\ Distinct(<<>>) /\ ToSet(<<>>) = {}
      /\ answer \in [kind : {"quiet", "rejects", "broken"}, id : Nat] /\ AnswerOK
  BY DEF NotesOK, NoteTypes, OnePlace, ServiceAccepts, ServiceRejects, ConnectionBreaks, Distinct, ToSet
<1>1. CASE ServiceAccepts
  <2>1. wire' \in Seq(Notes) /\ Distinct(wire') /\ ToSet(wire') \subseteq ToSet(wire)
    BY <1>0, <1>1, TailSet DEF ServiceAccepts
  <2>2. answer' = answer /\ answer = Quiet
    BY <1>1 DEF ServiceAccepts
  <2>3. AnswerOK'
    BY <2>2 DEF AnswerOK, Quiet
  <2>4. fate' \in [Notes -> Fates]
    BY <1>0, <1>1 DEF ServiceAccepts
  <2> QED
    BY <1>0, <2>1, <2>2, <2>3, <2>4, ServiceKeepsPlaces
<1>2. CASE ServiceRejects
  <2> DEFINE back == id[Head(wire)] % IdModulus
             f(n) == CASE n = Head(wire)          -> "rejected"
                       [] n \in ToSet(Tail(wire)) -> "behind"
                       [] OTHER                   -> fate[n]
  <2>1. wire' = <<>> /\ answer' = [kind |-> "rejects", id |-> back] /\ fate' = [n \in Notes |-> f(n)]
    BY <1>2 DEF ServiceRejects
  <2>2. \A n \in Notes : f(n) \in Fates
    BY <1>0
  <2>3. back \in Nat
    <3>1. wire # <<>> /\ Head(wire) \in Notes
      BY <1>0, <1>2, TailSet DEF ServiceRejects
    <3>2. id[Head(wire)] \in Nat /\ IdModulus \in Nat \ {0}
      BY <3>1, ApnsAssumption DEF NotesOK, NoteTypes
    <3> QED
      BY <3>2
  <2> HIDE DEF f, back
  <2>4. fate' \in [Notes -> Fates]
    BY <2>1, <2>2
  <2>5. AnswerOK' /\ answer' \in [kind : {"quiet", "rejects", "broken"}, id : Nat]
    BY <2>1, <2>3 DEF AnswerOK
  <2>6. wire' \in Seq(Notes) /\ Distinct(wire') /\ ToSet(wire') \subseteq ToSet(wire)
    BY <1>0, <2>1
  <2> QED
    BY <1>0, <2>4, <2>5, <2>6, ServiceKeepsPlaces
<1>3. CASE ConnectionBreaks
  <2>1. wire' = <<>> /\ answer' = [kind |-> "broken", id |-> 0]
    BY <1>3 DEF ConnectionBreaks
  <2>2. fate' \in [Notes -> Fates]
    <3> DEFINE P(n) == n \in ToSet(wire)
    <3>1. fate' = [n \in Notes |-> IF P(n) THEN "lost" ELSE fate[n]]
      BY <1>3 DEF ConnectionBreaks
    <3> HIDE DEF P
    <3> QED
      BY <1>0, <3>1
  <2>3. AnswerOK' /\ answer' \in [kind : {"quiet", "rejects", "broken"}, id : Nat]
    BY <2>1 DEF AnswerOK
  <2>4. wire' \in Seq(Notes) /\ Distinct(wire') /\ ToSet(wire') \subseteq ToSet(wire)
    BY <1>0, <2>1
  <2> QED
    BY <1>0, <2>2, <2>3, <2>4, ServiceKeepsPlaces
<1> QED
  BY <1>1, <1>2, <1>3

-----------------------------------------------------------------------------
\* Steps that only move notifications within ToSend.
LEMMA FatesSame ==
    ASSUME NotesOK, FateOK, UNCHANGED <<given, sent, wire, answer, fate>>, ToSend' = ToSend,
           \A i \in DOMAIN sent : id'[sent[i]] = id[sent[i]]
    PROVE  FateOK'
<1>1. WireIsLast'
  BY DEF FateOK, WireIsLast
<1>2. \A p \in DOMAIN sent : RejectedAt(p) => RejectedAt(p)'
  BY DEF RejectedAt
<1>3. answer'.kind = "rejects" => \E p \in DOMAIN sent' : RejectedAt(p)'
  BY <1>2 DEF FateOK
<1> QED
  BY <1>1, <1>3 DEF FateOK

LEMMA EnqueueFates ==
    ASSUME NotesOK, FateOK, NEW n \in Notes, Enqueue(n)
    PROVE  FateOK'
<1>1. ToSend' = ToSend \cup {n}
  BY EnqueueKeeps
<1>2. n \notin given /\ given' = given \cup {n} /\ UNCHANGED <<id, sent, wire, answer, fate>>
  BY DEF Enqueue
<1>3. fate[n] = "none"
  BY <1>2 DEF FateOK
<1>4. WireIsLast'
  BY <1>2 DEF FateOK, WireIsLast
<1>5. \A p \in DOMAIN sent : RejectedAt(p) => RejectedAt(p)'
  BY <1>1, <1>2 DEF RejectedAt
<1>6. answer'.kind = "rejects" => \E p \in DOMAIN sent' : RejectedAt(p)'
  BY <1>2, <1>5 DEF FateOK
<1>7. /\ \A m \in Notes \ given' : fate'[m] = "none"
      /\ \A m \in given' : fate'[m] = "none" => m \in ToSend'
      /\ \A m \in ToSend' : fate'[m] \in {"none", "behind"}
      /\ answer'.kind # "rejects" => \A m \in Notes : fate'[m] = "behind" => m \in ToSend'
  BY <1>1, <1>2, <1>3 DEF FateOK
<1> QED
  BY <1>4, <1>6, <1>7 DEF FateOK

\* A connection that ends without an answer of the service to be read, or is given
\* up before it was read.
LEMMA DisconnectFates ==
    ASSUME NotesOK, FateOK, Disconnect, UNCHANGED <<given, id, sent>>, ToSet(sendQueue') = ToSend,
           \/ answer.kind # "rejects" /\ wire = <<>> /\ UNCHANGED fate
           \/ \E q : ToSet(q) = ToSend /\ fate' = Unheard(q)
    PROVE  FateOK'
<1>1. ToSend' = ToSend /\ wire' = <<>> /\ answer' = Quiet
  BY DEF Disconnect, ToSend
<1>2. WireIsLast'
  <2>1. Len(sent) \in Nat
    BY DEF NotesOK, NoteTypes
  <2> QED
    BY <1>1, <2>1 DEF WireIsLast
<1>3. answer'.kind = "quiet"
  BY <1>1 DEF Quiet
<1>4. CASE answer.kind # "rejects" /\ UNCHANGED fate
  <2>1. \A n \in Notes : fate'[n] = "behind" => n \in ToSend'
    BY <1>1, <1>4 DEF FateOK
  <2> QED
    BY <1>1, <1>2, <1>3, <1>4, <2>1 DEF FateOK
<1>5. ASSUME NEW q, ToSet(q) = ToSend, fate' = Unheard(q) PROVE FateOK'
  <2>1. /\ \A n \in ToSet(wire) : fate'[n] = "lost"
        /\ \A n \in Notes \ (ToSet(wire) \cup ToSend) :
              fate'[n] = IF fate[n] = "behind" THEN "unread" ELSE fate[n]
        /\ \A n \in ToSend : fate'[n] = fate[n]
    BY <1>5, UnheardFates
  <2>2. /\ ToSet(wire) \subseteq given /\ ToSend \subseteq given /\ given \subseteq Notes
        /\ given' = given
    BY DEF NotesOK, NoteTypes, OnePlace
  <2>3. \A n \in Notes \ given' : fate'[n] = "none"
    BY <2>1, <2>2 DEF FateOK
  <2>4. \A n \in given' : fate'[n] = "none" => n \in ToSend'
    BY <1>1, <2>1, <2>2 DEF FateOK
  <2>5. \A n \in ToSend' : fate'[n] \in {"none", "behind"}
    BY <1>1, <2>1 DEF FateOK
  <2>6. \A n \in Notes : fate'[n] = "behind" => n \in ToSend'
    BY <1>1, <2>1
  <2> QED
    BY <1>2, <1>3, <2>3, <2>4, <2>5, <2>6 DEF FateOK
<1> QED
  BY <1>4, <1>5

\* The error that came back names the right one: what was discarded is to be sent again.
LEMMA CheckErrorFates ==
    ASSUME NotesOK, FateOK, CheckError
    PROVE  FateOK'
<1>1. /\ Disconnect /\ UNCHANGED <<given, id, idCounter, fate>>
      /\ ToSet(sendQueue') = ToSend \cup (IF answer.id > 0 THEN ToSet(Rest(answer.id)) ELSE {})
  BY CheckErrorKeeps DEF CheckError
<1>2. CASE answer.kind # "rejects"
  <2>1. answer.id = 0
    BY <1>2 DEF NotesOK, NoteTypes, AnswerOK
  <2>2. UNCHANGED sent /\ ToSet(sendQueue') = ToSend
    BY <1>1, <2>1 DEF CheckError
  <2>3. wire = <<>>
    BY DEF NotesOK, NoteTypes, AnswerOK, CheckError, Quiet
  <2> QED
    BY <1>1, <1>2, <2>2, <2>3, DisconnectFates
<1>3. CASE answer.kind = "rejects"
  <2>1. PICK p \in DOMAIN sent : RejectedAt(p)
    BY <1>3 DEF FateOK
  <2>2. answer.id = id[sent[p]] /\ sent[p] \in Numbered
    BY <2>1 DEF NotesOK, OnePlace, RejectedAt, ToSet
  <2>3. answer.id > 0
    BY <2>2 DEF NotesOK, NoteTypes, Numbered
  <2>4. sent \in Seq(Notes) /\ Distinct(sent) /\ p \in 0..Len(sent) /\ Len(sent) \in Nat /\ DOMAIN sent = 1..Len(sent)
    BY DEF NotesOK, NoteTypes, OnePlace
  <2>5. ToSet(Rest(answer.id)) = {sent[i] : i \in (p + 1)..Len(sent)}
    BY <2>2, <2>4, RestFound, RestSet
  <2>6. \A i \in (p + 1)..Len(sent) : i \in DOMAIN sent /\ i > p
    BY <2>4
  <2>7. \A i \in DOMAIN sent : i > p => i \in (p + 1)..Len(sent)
    BY <2>4
  <2>8. sent' = <<>> /\ wire' = <<>> /\ answer' = Quiet /\ ToSend' = ToSend \cup ToSet(Rest(answer.id))
    BY <1>1, <2>3 DEF CheckError, Disconnect, ToSend
  <2>9. \A n \in Notes : fate'[n] = fate[n]
    BY <1>1
  <2>10. WireIsLast'
    BY <2>8 DEF WireIsLast
  <2>11. ToSend \subseteq Notes /\ ToSet(sent) \subseteq Notes /\ given \subseteq Notes
    BY DEF NotesOK, NoteTypes, OnePlace
  <2>12. ASSUME NEW n \in ToSet(Rest(answer.id)) PROVE n \in Notes /\ fate[n] = "behind"
    <3>1. PICK i \in (p + 1)..Len(sent) : n = sent[i]
      BY <2>5
    <3> QED
      BY <2>1, <2>4, <2>6, <3>1 DEF RejectedAt
  <2>13. ASSUME NEW n \in Notes, fate[n] = "behind" PROVE n \in ToSend'
    <3>1. CASE n \in ToSend
      BY <2>8, <3>1
    <3>2. CASE \E i \in DOMAIN sent : i > p /\ sent[i] = n
      BY <2>5, <2>7, <2>8, <3>2
    <3> QED
      BY <2>1, <2>13, <3>1, <3>2 DEF RejectedAt
  <2>14. \A n \in ToSend' : fate'[n] \in {"none", "behind"}
    BY <2>8, <2>9, <2>11, <2>12 DEF FateOK
  <2>15. /\ \A n \in Notes \ given' : fate'[n] = "none"
         /\ \A n \in given' : fate'[n] = "none" => n \in ToSend'
    BY <1>1, <2>8, <2>9, <2>11 DEF FateOK
  <2>16. answer'.kind = "quiet"
    BY <2>8 DEF Quiet
  <2> QED
    BY <2>9, <2>10, <2>13, <2>14, <2>15, <2>16 DEF FateOK
<1> QED
  BY <1>2, <1>3

\* What is written goes to the end of the wire and of sentMessages, or behind the
\* rejected one.
LEMMA SendFates ==
    ASSUME NotesOK, Room, FateOK, Send
    PROVE  FateOK'
<1> DEFINE l == Len(sent)
           k == Len(wire)
<1>1. /\ job' = None /\ wire' = (IF answer = Quiet THEN Append(wire, job) ELSE wire)
      /\ UNCHANGED <<given, id, answer>> /\ sent' = Append(sent, job)
      /\ job \in ToSend /\ job \notin ToSet(sent) /\ job \in given /\ job \in Notes
  BY RememberedOK DEF Send, Numbered
<1>2. /\ sent \in Seq(Notes) /\ wire \in Seq(Notes) /\ l \in Nat /\ k \in Nat /\ given \subseteq Notes
      /\ DOMAIN sent = 1..l /\ ToSend \subseteq given
      /\ fate \in [Notes -> {"none", "wire", "pushed", "rejected", "behind", "lost", "unread"}]
  BY DEF NotesOK, NoteTypes, OnePlace
<1>3. ToSend' = ToSend \ {job}
  BY SendKeeps
<1>4. /\ DOMAIN sent' = 1..(l + 1) /\ Len(sent') = l + 1 /\ sent'[l + 1] = job
      /\ \A i \in 1..l : sent'[i] = sent[i] /\ sent[i] # job
  <2>1. \A i \in 1..l : sent[i] # job
    BY <1>1, <1>2 DEF ToSet
  <2> QED
    BY <1>1, <1>2, <2>1
<1>5. /\ \A n \in Notes \ {job} : fate'[n] = fate[n]
      /\ answer = Quiet => fate'[job] = "wire"
      /\ answer.kind = "rejects" => fate'[job] = "behind"
      /\ answer # Quiet /\ answer.kind # "rejects" => fate'[job] = "lost"
      /\ fate'[job] # "none"
  <2> DEFINE f == CASE answer = Quiet          -> "wire"
                    [] answer.kind = "rejects" -> "behind"
                    [] OTHER                   -> "lost"
  <2>1. fate' = [fate EXCEPT ![job] = f]
    BY DEF Send
  <2>2. /\ answer = Quiet => f = "wire"
        /\ answer.kind = "rejects" => f = "behind"
        /\ answer # Quiet /\ answer.kind # "rejects" => f = "lost"
        /\ f # "none"
    BY DEF Quiet
  <2> HIDE DEF f
  <2> QED
    BY <1>1, <1>2, <2>1, <2>2
<1>6. WireIsLast'
  <2>1. k <= l /\ \A i \in 1..k : wire[i] = sent[l - k + i]
    BY DEF FateOK, WireIsLast
  <2>2. CASE answer = Quiet
    <3>1. wire' \in Seq(Notes) /\ Len(wire') = k + 1 /\ wire'[k + 1] = job /\ \A i \in 1..k : wire'[i] = wire[i]
      BY <1>1, <1>2, <2>2
    <3> HIDE DEF l, k
    <3>2. ASSUME NEW i \in 1..(k + 1) PROVE wire'[i] = sent'[(l + 1) - (k + 1) + i]
      <4>1. CASE i = k + 1
        <5>1. (l + 1) - (k + 1) + i = l + 1
          BY <1>2, <4>1
        <5> QED
          BY <1>4, <3>1, <4>1, <5>1
      <4>2. CASE i # k + 1
        <5>1. i \in 1..k /\ (l + 1) - (k + 1) + i = l - k + i /\ l - k + i \in 1..l
          BY <1>2, <2>1, <4>2
        <5> QED
          BY <1>4, <2>1, <3>1, <5>1
      <4> QED
        BY <4>1, <4>2
    <3>3. k + 1 <= l + 1
      BY <1>2, <2>1
    <3> QED
      BY <1>4, <3>1, <3>2, <3>3 DEF WireIsLast
  <2>3. CASE answer # Quiet
    <3>1. answer.kind # "quiet"
      BY <2>3 DEF NotesOK, NoteTypes, AnswerOK, Quiet
    <3>2. wire' = <<>>
      BY <1>1, <2>3, <3>1 DEF NotesOK, AnswerOK
    <3> QED
      BY <1>2, <1>4, <3>2 DEF WireIsLast
  <2> QED
    BY <2>2, <2>3
<1>7. ASSUME answer'.kind = "rejects" PROVE \E p \in DOMAIN sent' : RejectedAt(p)'
  <2>0. answer.kind = "rejects"
    BY <1>1, <1>7
  <2>1. PICK p \in DOMAIN sent : RejectedAt(p)
    BY <2>0 DEF FateOK
  <2> HIDE DEF l
  <2>2. p \in 1..l /\ p \in 1..(l + 1) /\ l + 1 > p /\ \A i \in 1..l : i \in 1..(l + 1)
    BY <1>2
  <2>3. answer'.id = id'[sent'[p]]
    BY <1>1, <1>4, <2>1, <2>2 DEF RejectedAt
  <2>4. ASSUME NEW i \in 1..(l + 1), i > p PROVE fate'[sent'[i]] = "behind"
    <3>1. CASE i = l + 1
      BY <1>4, <1>5, <2>0, <3>1
    <3>2. CASE i # l + 1
      <4>1. i \in 1..l /\ sent[i] \in Notes
        BY <1>2, <3>2
      <4> QED
        BY <1>2, <1>4, <1>5, <2>1, <2>4, <4>1 DEF RejectedAt
    <3> QED
      BY <3>1, <3>2
  <2>5. ASSUME NEW n \in Notes, fate'[n] = "behind"
        PROVE  n \in ToSend' \/ \E i \in 1..(l + 1) : i > p /\ sent'[i] = n
    <3>1. CASE n = job
      <4>1. l + 1 \in 1..(l + 1)
        BY <1>2
      <4> QED
        BY <1>4, <2>2, <3>1, <4>1
    <3>2. CASE n # job
      <4>1. fate[n] = "behind"
        BY <1>5, <2>5, <3>2
      <4>2. n \in ToSend \/ \E i \in 1..l : i > p /\ sent[i] = n
        BY <1>2, <2>1, <4>1 DEF RejectedAt
      <4> QED
        BY <1>3, <1>4, <2>2, <3>2, <4>2
    <3> QED
      BY <3>1, <3>2
  <2> QED
    BY <1>4, <2>2, <2>3, <2>4, <2>5 DEF RejectedAt
<1>8. answer'.kind # "rejects" => \A n \in Notes : fate'[n] = "behind" => n \in ToSend'
  BY <1>1, <1>3, <1>5 DEF FateOK
<1>9. /\ \A n \in Notes \ given' : fate'[n] = "none"
      /\ \A n \in given' : fate'[n] = "none" => n \in ToSend'
      /\ \A n \in ToSend' : fate'[n] \in {"none", "behind"}
  BY <1>1, <1>2, <1>3, <1>5 DEF FateOK
<1> QED
  BY <1>6, <1>7, <1>8, <1>9 DEF FateOK

\* A notification on the wire is not to be sent, so it does not matter there what
\* becomes of it.
LEMMA ServiceFates ==
    ASSUME NotesOK, FateOK, UNCHANGED given, ToSend' = ToSend,
           \A n \in Notes \ ToSet(wire) : fate'[n] = fate[n],
           \A n \in ToSet(wire) : fate'[n] # "none", WireIsLast',
           answer'.kind = "rejects" => \E p \in DOMAIN sent' : RejectedAt(p)',
           answer.kind # "rejects",
           answer'.kind # "rejects" => \A n \in ToSet(wire) : fate'[n] # "behind"
    PROVE  FateOK'
<1>1. /\ ToSend \cap ToSet(wire) = {} /\ ToSend \subseteq Notes /\ ToSet(wire) \subseteq given
      /\ given \subseteq Notes
  BY DEF NotesOK, NoteTypes, OnePlace
<1>2. /\ \A n \in Notes \ given' : fate'[n] = "none"
      /\ \A n \in given' : fate'[n] = "none" => n \in ToSend'
      /\ \A n \in ToSend' : fate'[n] \in {"none", "behind"}
  BY <1>1 DEF FateOK
<1>3. answer'.kind # "rejects" => \A n \in Notes : fate'[n] = "behind" => n \in ToSend'
  BY <1>1 DEF FateOK
<1> QED
  BY <1>2, <1>3 DEF FateOK

LEMMA AcceptsFates ==
    ASSUME NotesOK, FateOK, ServiceAccepts
    PROVE  FateOK'
<1> DEFINE l == Len(sent)
           k == Len(wire)
<1>1. /\ answer = Quiet /\ wire # <<>> /\ UNCHANGED <<answer, given, sent>> /\ wire' = Tail(wire)
      /\ fate' = [fate EXCEPT ![Head(wire)] = "pushed"] /\ ToSend' = ToSend
  BY ServiceKeeps DEF ServiceAccepts, DispatcherOnly
<1>2. /\ sent \in Seq(Notes) /\ wire \in Seq(Notes) /\ l \in Nat /\ k \in Nat /\ Distinct(wire)
      /\ fate \in [Notes -> {"none", "wire", "pushed", "rejected", "behind", "lost", "unread"}]
      /\ ToSet(wire) \subseteq Notes
  BY DEF NotesOK, NoteTypes, OnePlace
<1>3. Head(wire) \in ToSet(wire) /\ Head(wire) \in Notes
  BY <1>1, <1>2, TailSet
<1>4. answer.kind = "quiet" /\ answer'.kind = "quiet"
  BY <1>1 DEF Quiet
<1>5. ToSet(wire) \cap ToSend = {} /\ ToSet(wire) \subseteq given
  BY DEF NotesOK, OnePlace
<1>6. /\ \A n \in Notes \ ToSet(wire) : fate'[n] = fate[n]
      /\ \A n \in ToSet(wire) : fate'[n] # "none" /\ fate'[n] # "behind"
  <2>1. \A n \in ToSet(wire) : fate[n] # "none" /\ fate[n] # "behind"
    BY <1>2, <1>4, <1>5 DEF FateOK
  <2> QED
    BY <1>1, <1>2, <1>3, <2>1
<1>7. WireIsLast'
  <2>1. k <= l /\ \A i \in 1..k : wire[i] = sent[l - k + i]
    BY DEF FateOK, WireIsLast
  <2>2. Len(wire') = k - 1 /\ k > 0 /\ \A i \in 1..(k - 1) : wire'[i] = wire[i + 1]
    BY <1>1, <1>2
  <2> HIDE DEF l, k
  <2>3. ASSUME NEW i \in 1..(k - 1) PROVE wire'[i] = sent[l - (k - 1) + i]
    <3>1. i + 1 \in 1..k /\ l - k + (i + 1) = l - (k - 1) + i
      BY <1>2, <2>2
    <3> QED
      BY <2>1, <2>2, <3>1
  <2>4. k - 1 <= l
    BY <1>2, <2>1
  <2> QED
    BY <1>1, <2>2, <2>3, <2>4 DEF WireIsLast, l
<1>8. answer.kind # "rejects" /\ answer'.kind # "rejects"
  BY <1>4
<1> QED
  BY <1>1, <1>6, <1>7, <1>8, ServiceFates

\* htons and ntohs leave an id as it is as long as there is room.
LEMMA RejectsFates ==
    ASSUME NotesOK, Room, FateOK, ServiceRejects
    PROVE  FateOK'
<1> DEFINE l == Len(sent)
           k == Len(wire)
           f(n) == CASE n = Head(wire)          -> "rejected"
                     [] n \in ToSet(Tail(wire)) -> "behind"
                     [] OTHER                   -> fate[n]
<1>1. /\ answer = Quiet /\ wire # <<>> /\ UNCHANGED <<given, sent, id>> /\ wire' = <<>>
      /\ answer' = [kind |-> "rejects", id |-> id[Head(wire)] % IdModulus]
      /\ fate' = [n \in Notes |-> f(n)] /\ ToSend' = ToSend
  BY ServiceKeeps DEF ServiceRejects, DispatcherOnly
<1>2. /\ sent \in Seq(Notes) /\ wire \in Seq(Notes) /\ l \in Nat /\ k \in Nat /\ k > 0 /\ Distinct(wire)
      /\ DOMAIN sent = 1..l /\ DOMAIN wire = 1..k /\ ToSet(wire) \subseteq Notes /\ Head(wire) = wire[1]
  BY <1>1 DEF NotesOK, NoteTypes, OnePlace
<1>3. /\ Head(wire) \in ToSet(wire) /\ Head(wire) \in Notes
      /\ ToSet(Tail(wire)) = ToSet(wire) \ {Head(wire)}
  BY <1>1, <1>2, TailSet
<1>4. answer.kind = "quiet" /\ answer'.kind = "rejects"
  BY <1>1 DEF Quiet
<1>5. /\ \A n \in Notes \ ToSet(wire) : fate'[n] = fate[n]
      /\ \A n \in ToSet(wire) \ {Head(wire)} : fate'[n] = "behind"
      /\ fate'[Head(wire)] = "rejected"
  <2>1. \A n \in Notes : fate'[n] = f(n)
    BY <1>1
  <2>2. /\ \A n \in Notes \ ToSet(wire) : f(n) = fate[n]
        /\ \A n \in ToSet(wire) \ {Head(wire)} : f(n) = "behind"
        /\ f(Head(wire)) = "rejected"
    BY <1>3
  <2> HIDE DEF f
  <2> QED
    BY <1>2, <1>3, <2>1, <2>2
<1> HIDE DEF f
<1>6. k <= l /\ \A i \in 1..k : wire[i] = sent[l - k + i]
  BY DEF FateOK, WireIsLast
<1>p. PICK p \in Int : p = l - k + 1
  BY <1>2
<1>7. WireIsLast'
  BY <1>1, <1>2 DEF WireIsLast
<1>8. answer'.id = id[Head(wire)]
  <2>1. Head(wire) \in given /\ Numbered \subseteq given /\ IsFiniteSet(given) /\ idCounter = Cardinality(Numbered)
    BY <1>3 DEF NotesOK, NoteTypes, OnePlace, IdsOK
  <2>2. id[Head(wire)] \in Nat /\ id[Head(wire)] <= idCounter /\ idCounter \in Nat
    BY <1>3 DEF NotesOK, NoteTypes, IdsOK
  <2>3. Cardinality(Numbered) <= Cardinality(given) /\ Cardinality(given) \in Nat
    BY <2>1, FS_Subset, FS_CardinalityType
  <2>4. id[Head(wire)] < IdModulus
    <3>1. Cardinality(given) < IdModulus /\ IdModulus \in Nat
      BY ApnsAssumption DEF Room
    <3> QED
      BY <2>1, <2>2, <2>3, <3>1
  <2> DEFINE x == id[Head(wire)]
  <2>5. x % IdModulus = x
    <3>1. x \in Nat /\ x < IdModulus /\ IdModulus \in Nat \ {0}
      BY <2>2, <2>4, ApnsAssumption
    <3> HIDE DEF x
    <3> QED
      BY <3>1
  <2> QED
    BY <1>1, <2>5
<1>9. RejectedAt(p)'
  <2> HIDE DEF l, k
  <2>1. p \in 1..l /\ l - k + 1 = p /\ 1 \in 1..k
    BY <1>2, <1>6, <1>p
  <2>2. sent[p] = Head(wire)
    BY <1>2, <1>6, <2>1
  <2>3. ASSUME NEW i \in 1..l, i > p PROVE sent[i] \in ToSet(wire) \ {Head(wire)}
    <3> DEFINE j == i - (l - k)
    <3>1. j \in 1..k /\ j # 1 /\ l - k + j = i
      BY <1>2, <1>6, <1>p, <2>3
    <3>2. wire[j] = sent[i]
      BY <1>6, <3>1
    <3>3. wire[j] # wire[1]
      BY <1>2, <2>1, <3>1 DEF Distinct
    <3> QED
      BY <1>2, <3>1, <3>2, <3>3 DEF ToSet
  <2>4. ASSUME NEW n \in ToSet(wire) \ {Head(wire)} PROVE \E i \in 1..l : i > p /\ sent[i] = n
    <3>1. PICK j \in 1..k : wire[j] = n
      BY <1>2 DEF ToSet
    <3>2. j # 1
      BY <1>2, <2>4, <3>1
    <3>3. l - k + j \in 1..l /\ l - k + j > p
      BY <1>2, <1>6, <1>p, <3>2
    <3> QED
      BY <1>6, <3>1, <3>3
  <2>5. ASSUME NEW n \in Notes, fate'[n] = "behind"
        PROVE  n \in ToSend' \/ \E i \in 1..l : i > p /\ sent[i] = n
    <3>1. CASE n \in ToSet(wire)
      BY <1>5, <2>4, <2>5, <3>1
    <3>2. CASE n \notin ToSet(wire)
      BY <1>1, <1>4, <1>5, <2>5, <3>2 DEF FateOK
    <3> QED
      BY <3>1, <3>2
  <2>6. DOMAIN sent' = 1..l /\ sent' = sent /\ id' = id
    BY <1>1, <1>2
  <2>7. p \in DOMAIN sent' /\ answer'.id = id'[sent'[p]]
    BY <1>8, <2>1, <2>2, <2>6
  <2>8. \A i \in DOMAIN sent' : i > p => fate'[sent'[i]] = "behind"
    BY <1>5, <2>3, <2>6
  <2>9. \A n \in Notes : fate'[n] = "behind" => n \in ToSend' \/ \E i \in DOMAIN sent' : i > p /\ sent'[i] = n
    BY <2>5, <2>6
  <2> QED
    BY <2>7, <2>8, <2>9 DEF RejectedAt
<1>10. p \in DOMAIN sent'
  BY <1>1, <1>2, <1>6, <1>p
<1>11. \A n \in ToSet(wire) : fate'[n] # "none"
  BY <1>5
<1>12. \E q \in DOMAIN sent' : RejectedAt(q)'
  BY <1>9, <1>10
<1> QED
  BY <1>1, <1>4, <1>5, <1>7, <1>11, <1>12, ServiceFates

LEMMA BreaksFates ==
    ASSUME NotesOK, FateOK, ConnectionBreaks
    PROVE  FateOK'
<1>1. /\ answer = Quiet /\ UNCHANGED <<given, sent>> /\ wire' = <<>> /\ ToSend' = ToSend
      /\ answer' = [kind |-> "broken", id |-> 0]
  BY ServiceKeeps DEF ConnectionBreaks, DispatcherOnly
<1>2. /\ \A n \in Notes \ ToSet(wire) : fate'[n] = fate[n]
      /\ \A n \in ToSet(wire) : fate'[n] = "lost"
  <2>1. ToSet(wire) \subseteq Notes
    BY DEF NotesOK, NoteTypes, OnePlace
  <2>2. fate' = [n \in Notes |-> IF n \in ToSet(wire) THEN "lost" ELSE fate[n]]
    BY DEF ConnectionBreaks
  <2> QED
    BY <2>1, <2>2
<1>3. WireIsLast'
  <2>1. Len(sent) \in Nat
    BY DEF NotesOK, NoteTypes
  <2> QED
    BY <1>1, <2>1 DEF WireIsLast
<1>4. answer.kind # "rejects" /\ answer'.kind # "rejects"
  BY <1>1 DEF Quiet
<1> QED
  BY <1>1, <1>2, <1>3, <1>4, ServiceFates

-----------------------------------------------------------------------------
LEMMA NotesBegin == Init => ApnsInv
<1> SUFFICES ASSUME Init PROVE ApnsInv
  OBVIOUS
<1>1. /\ ToSet(<<>>) = {} /\ Distinct(<<>>) /\ <<>> \in Seq(Notes) /\ Len(<<>>) = 0
      /\ IsFiniteSet({}) /\ Cardinality({}) = 0
  BY FS_EmptySet DEF ToSet, Distinct
<1>2. Numbered = {} /\ ToSend = {}
  BY <1>1 DEF Init, Numbered, ToSend
<1>3. NoteTypes
  BY <1>1 DEF Init, NoteTypes, Quiet
<1>4. IdsOK /\ HandsOK /\ AnswerOK
  BY <1>1, <1>2 DEF Init, IdsOK, HandsOK, AnswerOK, Quiet
<1>5. OnePlace
  BY <1>1, <1>2 DEF Init, OnePlace
<1>6. FateOK
  BY <1>1, <1>2 DEF Init, FateOK, WireIsLast, Quiet
<1> QED
  BY <1>3, <1>4, <1>5, <1>6 DEF ApnsInv, NotesOK

LEMMA NotesStep ==
    ASSUME NotesOK, Next
    PROVE  NotesOK'
BY EnqueueKeeps, ConnectKeeps, TakeKeeps, CheckErrorKeeps, CheckNoneKeeps, SendKeeps, SendFailsKeeps,
   ServiceKeeps DEF Next, Dispatcher

LEMMA FatesStep ==
    ASSUME NotesOK, Room, FateOK, Next
    PROVE  FateOK'
<1>1. CASE Connect \/ CheckIdle
  <2>1. UNCHANGED <<given, sent, wire, answer, fate, id>>
    BY <1>1 DEF Connect, CheckIdle
  <2> QED
    BY <1>1, <2>1, ConnectKeeps, FatesSame
<1>2. CASE Take
  <2>1. UNCHANGED <<given, sent, wire, answer, fate, id>>
    BY <1>2 DEF Take
  <2> QED
    BY <1>2, <2>1, TakeKeeps, FatesSame
<1>3. CASE CheckNone
  <2>1. UNCHANGED <<given, sent, wire, answer, fate>> /\ id' \in {id, [id EXCEPT ![job] = idCounter + 1]}
    BY <1>3 DEF CheckNone
  <2>2. job \in ToSend
    BY <1>3 DEF CheckNone, ToSend
  <2>3. \A i \in DOMAIN sent : sent[i] # job /\ sent[i] \in Notes
    BY <2>2 DEF NotesOK, NoteTypes, OnePlace, ToSet
  <2>4. \A i \in DOMAIN sent : id'[sent[i]] = id[sent[i]]
    BY <2>1, <2>3 DEF NotesOK, NoteTypes
  <2> QED
    BY <1>3, <2>1, <2>4, CheckNoneKeeps, FatesSame
<1>4. CASE SendFails
  <2>1. Disconnect /\ UNCHANGED <<given, id, sent>> /\ fate' = Unheard(Requeued)
    BY <1>4 DEF SendFails
  <2>2. ToSet(Requeued) = ToSend /\ ToSet(sendQueue') = ToSend
    BY <1>4, RequeuedOK, SendFailsKeeps
  <2> QED
    BY <2>1, <2>2, DisconnectFates
<1> QED
  BY <1>1, <1>2, <1>3, <1>4, EnqueueFates, CheckErrorFates, SendFates, AcceptsFates, RejectsFates,
     BreaksFates DEF Next, Dispatcher

\* There is room as long as there was room for more.
LEMMA RoomBefore ==
    ASSUME NotesOK, NotesOK', given \subseteq given', Room'
    PROVE  Room
<1>1. IsFiniteSet(given') /\ IsFiniteSet(given' \ Malformed) /\ IsFiniteSet(given) /\ IsFiniteSet(given \ Malformed)
  BY FS_Subset DEF NotesOK, NoteTypes
<1>2. given \ Malformed \subseteq given' \ Malformed
  OBVIOUS
<1>3. /\ Cardinality(given) <= Cardinality(given')
      /\ Cardinality(given \ Malformed) <= Cardinality(given' \ Malformed)
  BY <1>1, <1>2, FS_Subset
<1>4. /\ Cardinality(given) \in Nat /\ Cardinality(given') \in Nat
      /\ Cardinality(given \ Malformed) \in Nat /\ Cardinality(given' \ Malformed) \in Nat
      /\ SentCapacity \in Nat /\ IdModulus \in Nat
  BY <1>1, FS_CardinalityType, ApnsAssumption
<1> QED
  BY <1>3, <1>4 DEF Room

LEMMA GivenGrows == ASSUME Next PROVE given \subseteq given'
BY DEF Next, Dispatcher, Enqueue, Connect, Take, CheckError, CheckIdle, CheckNone, Send, SendFails,
       ServiceAccepts, ServiceRejects, ConnectionBreaks, DispatcherOnly

LEMMA NotesStutter == ASSUME ApnsInv, UNCHANGED vars PROVE ApnsInv'
<1>1. ToSend' = ToSend /\ Numbered' = Numbered /\ (Room' <=> Room)
  BY DEF vars, ToSend, Numbered, Room
<1>2. NotesOK'
  BY <1>1 DEF vars, ApnsInv, NotesOK, NoteTypes, IdsOK, HandsOK, OnePlace, AnswerOK
<1>3. FateOK => FateOK'
  BY <1>1, FatesSame DEF vars, ApnsInv
<1> QED
  BY <1>1, <1>2, <1>3 DEF ApnsInv

THEOREM ApnsInvariant == Spec => []ApnsInv
<1>1. ApnsInv /\ [Next]_vars => ApnsInv'
  <2> SUFFICES ASSUME ApnsInv, [Next]_vars PROVE ApnsInv'
    OBVIOUS
  <2>1. CASE Next
    <3>1. NotesOK'
      BY <2>1, NotesStep DEF ApnsInv
    <3>2. Room' => FateOK'
      BY <2>1, <3>1, GivenGrows, RoomBefore, FatesStep DEF ApnsInv
    <3> QED
      BY <3>1, <3>2 DEF ApnsInv
  <2>2. CASE UNCHANGED vars
    BY <2>2, NotesStutter
  <2> QED
    BY <2>1, <2>2
<1> QED
  BY <1>1, NotesBegin, PTL DEF Spec

\* As long as sentMessages and the ids have room for what was given: what the
\* service discarded behind a rejected notification is in the queue again once the
\* dispatcher has read the rejection, and nothing else vanishes but what was written
\* to a connection that ended before the service had read it, or was discarded
\* behind a rejection that stays unread as sendMessage failed first.
THEOREM ApnsRestIsReenqueued == Spec => [](Room => RestIsReenqueued)
<1>1. ApnsInv /\ Room => RestIsReenqueued
  <2> SUFFICES ASSUME ApnsInv, Room, NEW n \in given
               PROVE  \/ n \in ToSet(sendQueue) \cup {job}
                      \/ fate[n] \in {"wire", "pushed", "rejected", "lost", "unread"}
                      \/ fate[n] = "behind" /\ answer.kind = "rejects"
    BY DEF RestIsReenqueued
  <2>1. n \in Notes /\ fate[n] \in {"none", "wire", "pushed", "rejected", "behind", "lost", "unread"}
    BY DEF ApnsInv, NotesOK, NoteTypes
  <2>2. ToSend \subseteq ToSet(sendQueue) \cup {job}
    BY DEF ToSend
  <2> QED
    BY <2>1, <2>2 DEF ApnsInv, FateOK
<1> QED
  BY <1>1, ApnsInvariant, PTL

\* As long as sentMessages and the ids have room: what the service has accepted or
\* rejected is not sent again.
THEOREM ApnsSettledIsNotResent == Spec => [](Room => SettledIsNotResent)
<1>1. ApnsInv /\ Room => SettledIsNotResent
  BY DEF ApnsInv, FateOK, SettledIsNotResent, ToSend
<1> QED
  BY <1>1, ApnsInvariant, PTL

\* Whatever the sizes: a notification is in one place at most, so that the control
\* thread's enqueue() and the dispatcher's two ways to enqueue again never double it.
THEOREM ApnsOnePlace == Spec => []OnePlace
<1>1. ApnsInv => OnePlace
  BY DEF ApnsInv, NotesOK
<1> QED
  BY <1>1, ApnsInvariant, PTL
=============================================================================
