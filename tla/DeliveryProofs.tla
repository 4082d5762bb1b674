--------------------------- MODULE DeliveryProofs ---------------------------
(***************************************************************************)
(* What holds of a daemon's deliveries in every behaviour of Delivery: to  *)
(* local children (InboundPipe) for any number of workers, children and    *)
(* pids, and by SMTP (SmtpClient) for any number of workers, messages and  *)
(* sessions.                                                               *)
(*                                                                         *)
(* PipeCore is inductive: every child that exists has one owner, a worker  *)
(* or the list of idle children (ChildOwned); a process that nobody has    *)
(* waited for has a pid no other process has (PidsUnique), so that what    *)
(* waitpid() or kill() does to a worker's pid it does to the worker's      *)
(* child; and a child that ended well, or said 250, has stored what the    *)
(* worker gave it (StoredFirst).  The steps of a worker fall in four       *)
(* kinds by what they do to it and to the children: MovesKeep, ClosesKeep  *)
(* and the like show once for each kind that PipeCore is kept.             *)
(*                                                                         *)
(* SmtpCore is inductive.  Sessions have one owner (SessionHeld), so a     *)
(* worker's step changes no session but its own.  OrderOK says how far a   *)
(* worker and the server can be apart: with no answer on its way they are  *)
(* in step, or the server takes what is said for text; with answers on     *)
(* their way, what will be read after DATA is an answer to MAIL, RCPT or   *)
(* RSET, no 354, as long as less than four were left when the session was  *)
(* put back.  So whoever sends a text is in step with the server.          *)
(***************************************************************************)
EXTENDS Delivery, FiniteSetTheorems, SequenceTheorems, TLAPS

(***************************************************************************)
(* Local children.                                                         *)
(***************************************************************************)

\* No two positions of the sequence q hold the same.
Distinct(q) == \A i, j \in DOMAIN q : q[i] = q[j] => i = j

\* What q holds.
Members(q) == {q[i] : i \in DOMAIN q}

-----------------------------------------------------------------------------
\* Type correctness: the values of child[c], of porter[w], and of the variables.
Processes == [pid : Pids \cup {"none"}, state : {"none", "running", "ok", "bad", "reaped"},
              by : {"none", "isRunning", "term", "other"}, writers : SUBSET (Children \cup {NoChild}),
              talk : {"none", "asked", "250", "error"}]

Posts == [at : {"free", "open", "begin", "again", "deliver", "reply", "close", "wait", "signal", "term",
                "final"},
          mail : Parcels \cup {"none"}, child : Children \cup {NoChild},
          why : {"none", "begin", "failed", "result"}]

PipeTypeOK ==
    /\ parcel \in [Parcels -> {"queued", "working", "success"}]
    /\ porter \in [Porters -> Posts]
    /\ idle \in Seq(Children) /\ child \in [Children -> Processes]
    /\ strangers \subseteq Pids /\ keepAlive \in BOOLEAN /\ stolen \in BOOLEAN

HasOwner(c) == (\E w \in Porters : porter[w].child = c) \/ c \in Members(idle)

\* A child has one owner, who holds it until it has been waited for.
ChildOwned ==
    /\ \A w \in Porters : porter[w].child = NoChild <=> porter[w].at \in {"free", "open"}
    /\ \A v, w \in Porters : porter[v].child # NoChild /\ porter[v].child = porter[w].child => v = w
    /\ \A w \in Porters : porter[w].child \notin Members(idle)
    /\ Distinct(idle)
    /\ \A c \in Children : HasOwner(c) <=> child[c].state # "none"

\* Processes that have not been waited for have pids of their own.
PidsUnique ==
    /\ \A c, d \in Children : child[c].pid = child[d].pid /\ (Running(c) \/ Zombie(c))
                                /\ (Running(d) \/ Zombie(d)) => c = d
    /\ \A c \in Children : Running(c) \/ Zombie(c) => child[c].pid \notin strangers
    /\ \A c \in Children : child[c].state = "reaped" => child[c].by # "none"

\* A child that ended well has stored its message, and so has one that said 250;
\* children are kept, and read from, only with keepAlive.
StoredFirst ==
    /\ ~keepAlive => idle = <<>>
    /\ \A w \in Porters : porter[w].at = "reply" => keepAlive
    /\ \A c \in Children : child[c].state = "ok" => ~keepAlive
    /\ \A w \in Porters : porter[w].at \notin {"free", "open"} =>
          /\ child[porter[w].child].state = "ok" => porter[w].mail \in stored
          /\ porter[w].at = "reply" /\ child[porter[w].child].talk = "250" => porter[w].mail \in stored

-----------------------------------------------------------------------------
\* Sequences without repetition: the first is taken off, ...
LEMMA TailMembers ==
    ASSUME NEW S, NEW q \in Seq(S), q # <<>>, Distinct(q)
    PROVE  /\ Head(q) \in S /\ Head(q) \in Members(q)
           /\ Tail(q) \in Seq(S) /\ Distinct(Tail(q))
           /\ Members(Tail(q)) = Members(q) \ {Head(q)}
<1>1. /\ Len(q) \in Nat /\ Len(q) > 0 /\ DOMAIN q = 1..Len(q) /\ Head(q) = q[1]
      /\ \A i \in 1..Len(q) : q[i] \in S
  OBVIOUS
<1>2. /\ Tail(q) \in Seq(S) /\ DOMAIN Tail(q) = 1..(Len(q) - 1)
      /\ \A i \in 1..(Len(q) - 1) : Tail(q)[i] = q[i + 1]
  OBVIOUS
<1>3. Distinct(Tail(q))
  BY <1>1, <1>2 DEF Distinct
<1>4. Members(Tail(q)) \subseteq Members(q) \ {Head(q)}
  BY <1>1, <1>2 DEF Distinct, Members
<1>5. ASSUME NEW e \in Members(q) \ {Head(q)} PROVE e \in Members(Tail(q))
  <2>1. PICK i \in 1..Len(q) : e = q[i]
    BY <1>1 DEF Members
  <2>2. i - 1 \in 1..(Len(q) - 1) /\ Tail(q)[i - 1] = e
    BY <1>1, <1>2, <1>5, <2>1
  <2>. QED
    BY <1>2, <2>2 DEF Members
<1>6. Head(q) \in S /\ Head(q) \in Members(q)
  BY <1>1 DEF Members
<1>. QED
  BY <1>2, <1>3, <1>4, <1>5, <1>6

\* ... and one is added at the end.
LEMMA AppendMembers ==
    ASSUME NEW S, NEW q \in Seq(S), NEW e \in S, e \notin Members(q), Distinct(q)
    PROVE  /\ Append(q, e) \in Seq(S) /\ Distinct(Append(q, e))
           /\ Members(Append(q, e)) = Members(q) \cup {e}
<1>1. /\ Len(q) \in Nat /\ DOMAIN q = 1..Len(q) /\ \A i \in 1..Len(q) : q[i] \in S
  OBVIOUS
<1>2. /\ Append(q, e) \in Seq(S) /\ DOMAIN Append(q, e) = 1..(Len(q) + 1)
      /\ \A i \in 1..(Len(q) + 1) : Append(q, e)[i] = IF i = Len(q) + 1 THEN e ELSE q[i]
  OBVIOUS
<1>3. Distinct(Append(q, e))
  BY <1>1, <1>2 DEF Distinct, Members
<1>4. Members(Append(q, e)) \subseteq Members(q) \cup {e}
  BY <1>1, <1>2 DEF Members
<1>5. e \in Members(Append(q, e))
  BY <1>1, <1>2 DEF Members
<1>6. ASSUME NEW i \in 1..Len(q) PROVE q[i] \in Members(Append(q, e))
  BY <1>1, <1>2, <1>6 DEF Members
<1>. QED
  BY <1>1, <1>2, <1>3, <1>4, <1>5, <1>6 DEF Members

-----------------------------------------------------------------------------
\* What a step does, field by field.
Same(d) == /\ child'[d].pid = child[d].pid /\ child'[d].state = child[d].state
           /\ child'[d].by = child[d].by /\ child'[d].talk = child[d].talk

Took(d) == /\ child'[d].pid = child[d].pid /\ child'[d].state = "reaped"
           /\ child'[d].by # "none" /\ child'[d].talk = child[d].talk

OnlyPorter(w) == porter' \in [Porters -> Posts] /\ \A v \in Porters \ {w} : porter'[v] = porter[v]

\* The worker goes on with its message and child, ...
GoesOn(w) ==
    /\ OnlyPorter(w) /\ porter'[w].at \notin {"free", "open"}
    /\ porter'[w].mail = porter[w].mail /\ porter'[w].child = porter[w].child

\* ... or without a child.
LetsGo(w) == OnlyPorter(w) /\ porter'[w].at \in {"free", "open"} /\ porter'[w].child = NoChild

\* Children are not looked at (but for what c says), ...
ChildrenSame(c) ==
    /\ child' \in [Children -> Processes] /\ \A d \in Children \ {c} : Same(d)
    /\ c \in Children => /\ child'[c].pid = child[c].pid /\ child'[c].state = child[c].state
                         /\ child'[c].by = child[c].by

\* ... waited for, ...
ChildrenReaped(w) ==
    /\ child' \in [Children -> Processes]
    /\ \A d \in Children \ Waiting(w) : Same(d)
    /\ \A d \in Waiting(w) : Took(d)

\* ... or waited for and removed.
ChildrenClosed(w) ==
    /\ child' \in [Children -> Processes]
    /\ child'[porter[w].child].state = "none"
    /\ \A d \in Children \ (Waiting(w) \cup {porter[w].child}) : Same(d)
    /\ \A d \in Waiting(w) \ {porter[w].child} : Took(d)

\* One ends.
ChildEnds(c, how) ==
    /\ Running(c) /\ child' \in [Children -> Processes]
    /\ \A d \in Children \ {c} : Same(d)
    /\ child'[c].pid = child[c].pid /\ child'[c].state = how /\ how \in {"ok", "bad"}
    /\ child'[c].talk = child[c].talk

\* How the fields of a worker and of the children change with each way the steps
\* write them: a worker goes on, ...
LEMMA PorterGoes ==
    ASSUME PipeTypeOK, NEW w \in Porters, porter[w].at \notin {"free", "open"},
           \/ \E step \in {"again", "deliver", "reply", "wait", "signal", "term", "final"} : GoTo(w, step)
           \/ \E why \in {"begin", "failed", "result"} : CloseFor(w, why)
    PROVE  GoesOn(w)
BY DEF PipeTypeOK, GoTo, CloseFor, GoesOn, OnlyPorter, Posts

\* ... is done with its message, ...
LEMMA PorterDone ==
    ASSUME PipeTypeOK, NEW w \in Porters, porter' = [porter EXCEPT ![w] = AtRest]
    PROVE  LetsGo(w)
BY DEF PipeTypeOK, LetsGo, OnlyPorter, Posts, AtRest

\* ... or lets its child go to open another one;
LEMMA PorterOpens ==
    ASSUME PipeTypeOK, NEW w \in Porters,
           \/ porter' = [porter EXCEPT ![w].at = "open", ![w].child = NoChild]
           \/ porter' = [porter EXCEPT ![w].at = "open", ![w].child = NoChild, ![w].why = "none"]
    PROVE  LetsGo(w)
<1>1. porter \in [Porters -> Posts] /\ porter[w] \in Posts
  BY DEF PipeTypeOK
<1>2. \/ porter'[w] = [porter[w] EXCEPT !.at = "open", !.child = NoChild]
      \/ porter'[w] = [porter[w] EXCEPT !.at = "open", !.child = NoChild, !.why = "none"]
  BY <1>1
<1>3. porter'[w] \in Posts /\ porter'[w].at = "open" /\ porter'[w].child = NoChild
  BY <1>1, <1>2 DEF Posts
<1>. QED
  BY <1>1, <1>3 DEF LetsGo, OnlyPorter

\* waitpid() for the pid of a worker reaps the processes with that pid;
LEMMA Reaps ==
    ASSUME PipeTypeOK, NEW w \in Porters, NEW way \in {"isRunning", "term"}, child' = Reaped(w, way)
    PROVE  ChildrenReaped(w)
<1>. DEFINE by(d) == IF d = porter[w].child THEN way ELSE "other"
<1>1. /\ DOMAIN child' = Children
      /\ \A d \in Children \ Waiting(w) : child'[d] = child[d]
      /\ \A d \in Waiting(w) : child'[d] = [child[d] EXCEPT !.state = "reaped", !.by = by(d)]
  BY DEF Reaped, Waiting, Holder
<1>2. \A d \in Children : child[d] \in Processes
  BY DEF PipeTypeOK
<1>3. \A d \in Waiting(w) : d \in Children /\ by(d) \in {"isRunning", "term", "other"} /\ by(d) # "none"
  BY DEF Waiting, Holder
<1>. HIDE DEF by
<1>4. \A d \in Waiting(w) : child'[d] \in Processes /\ Took(d)
  <2>. SUFFICES ASSUME NEW d \in Waiting(w)
                PROVE  child'[d] \in Processes /\ Took(d)
    OBVIOUS
  <2>1. d \in Children /\ child[d] \in Processes /\ by(d) \in {"isRunning", "term", "other"} /\ by(d) # "none"
    BY <1>2, <1>3
  <2>2. child'[d] = [child[d] EXCEPT !.state = "reaped", !.by = by(d)]
    BY <1>1
  <2>. QED
    BY <2>1, <2>2 DEF Took, Processes
<1>5. \A d \in Children : child'[d] \in Processes
  BY <1>1, <1>2, <1>4
<1>6. child' = Reaped(w, way) /\ child' \in [Children -> Processes]
  BY <1>5 DEF Reaped
<1>. QED
  BY <1>1, <1>4, <1>6 DEF ChildrenReaped, Same

\* a worker's child that is gone, or that waitpid() takes, is removed;
LEMMA Closes ==
    ASSUME PipeTypeOK, NEW w \in Porters, NEW way, porter[w].child \in Children,
           porter[w].child \in Waiting(w) \/ child[porter[w].child].state = "reaped",
           child' = Without(Reaped(w, way), porter[w].child)
    PROVE  ChildrenClosed(w)
<1>. DEFINE c == porter[w].child
            r == Reaped(w, way)
<1>1. /\ DOMAIN r = Children /\ r[c].state = "reaped"
      /\ \A d \in Waiting(w) \ {c} : r[d] = [child[d] EXCEPT !.state = "reaped", !.by = "other"]
      /\ \A d \in Children \ (Waiting(w) \cup {c}) : r[d] = child[d]
  <2>1. DOMAIN r = Children
    BY DEF Reaped
  <2>2. Waiting(w) \subseteq Children
    BY DEF Waiting, Holder
  <2>3. ASSUME NEW d \in Waiting(w)
        PROVE  r[d] = [child[d] EXCEPT !.state = "reaped", !.by = IF d = c THEN way ELSE "other"]
    BY <2>2 DEF Reaped
  <2>4. ASSUME NEW d \in Children \ Waiting(w) PROVE r[d] = child[d]
    BY DEF Reaped
  <2>5. child[c] \in Processes
    BY DEF PipeTypeOK
  <2>. HIDE DEF r
  <2>6. CASE c \in Waiting(w)
    <3>1. r[c] = [child[c] EXCEPT !.state = "reaped", !.by = way]
      BY <2>3, <2>6
    <3>2. r[c].state = "reaped"
      BY <2>5, <3>1 DEF Processes
    <3>. QED
      BY <2>1, <2>3, <2>4, <3>2
  <2>7. CASE c \notin Waiting(w)
    BY <2>1, <2>3, <2>4, <2>7
  <2>. QED
    BY <2>6, <2>7
<1>2. child' = [r EXCEPT ![c] = NoProcess]
  BY <1>1 DEF Without
<1>3. /\ DOMAIN child' = Children /\ child'[c] = NoProcess /\ \A d \in Children \ {c} : child'[d] = r[d]
  BY <1>1, <1>2
<1>4. NoProcess \in Processes /\ NoProcess.state = "none"
  BY DEF NoProcess, Processes
<1>5. \A d \in Children : child[d] \in Processes
  BY DEF PipeTypeOK
<1>6. \A d \in Waiting(w) : d \in Children
  BY DEF Waiting, Holder
<1>. HIDE DEF r, c
<1>7. \A d \in Waiting(w) \ {c} : child'[d] \in Processes /\ Took(d)
  <2>. SUFFICES ASSUME NEW d \in Waiting(w) \ {c}
                PROVE  child'[d] \in Processes /\ Took(d)
    OBVIOUS
  <2>1. d \in Children \ {c} /\ child[d] \in Processes
    BY <1>5, <1>6
  <2>2. child'[d] = [child[d] EXCEPT !.state = "reaped", !.by = "other"]
    BY <1>1, <1>3, <2>1
  <2>. QED
    BY <2>1, <2>2 DEF Took, Processes
<1>8. \A d \in Children : child'[d] \in Processes
  <2>. SUFFICES ASSUME NEW d \in Children PROVE child'[d] \in Processes
    OBVIOUS
  <2>1. CASE d = c
    BY <1>3, <1>4, <2>1
  <2>2. CASE d \in Waiting(w) \ {c}
    BY <1>7, <2>2
  <2>3. CASE d \in Children \ (Waiting(w) \cup {c})
    BY <1>1, <1>3, <1>5, <2>3
  <2>. QED
    BY <2>1, <2>2, <2>3
<1>9. child' \in [Children -> Processes]
  BY <1>1, <1>2, <1>8 DEF r, Reaped
<1>. QED
  BY <1>1, <1>3, <1>4, <1>7, <1>9 DEF c, ChildrenClosed, Same

\* what a child said changes nothing else;
LEMMA Talks ==
    ASSUME PipeTypeOK, NEW c \in Children, NEW say \in {"none", "asked", "250", "error"},
           child' = [child EXCEPT ![c].talk = say]
    PROVE  ChildrenSame(c) /\ child'[c].talk = say
<1>1. child \in [Children -> Processes] /\ child[c] \in Processes
  BY DEF PipeTypeOK
<1>2. child'[c] = [child[c] EXCEPT !.talk = say]
  BY <1>1
<1>3. /\ child'[c] \in Processes /\ child'[c].talk = say /\ child'[c].pid = child[c].pid
      /\ child'[c].state = child[c].state /\ child'[c].by = child[c].by
  BY <1>1, <1>2 DEF Processes
<1>. QED
  BY <1>1, <1>3 DEF ChildrenSame, Same

\* a child exits.
LEMMA Dies ==
    ASSUME PipeTypeOK, NEW c \in Children, NEW how \in {"ok", "bad"}, Running(c), child' = Dead(c, how)
    PROVE  ChildEnds(c, how)
<1>1. child'[c] = [child[c] EXCEPT !.state = how]
  BY DEF Dead
<1>2. child[c] \in Processes
  BY DEF PipeTypeOK
<1>3. /\ child'[c].pid = child[c].pid /\ child'[c].state = how /\ child'[c].talk = child[c].talk
      /\ child'[c] \in Processes
  BY <1>1, <1>2 DEF Processes
<1>4. ASSUME NEW d \in Children \ {c} PROVE Same(d) /\ child'[d] \in Processes
  <2>1. child'[d] = [child[d] EXCEPT !.writers = @ \ {c}] /\ child[d] \in Processes
    BY DEF Dead, PipeTypeOK
  <2>. QED
    BY <2>1 DEF Same, Processes
<1>5. child' \in [Children -> Processes]
  BY <1>3, <1>4 DEF Dead
<1>. QED
  BY <1>3, <1>4, <1>5 DEF ChildEnds

\* The parts of the invariant a step has to keep.
PipeCore == PipeTypeOK /\ ChildOwned /\ PidsUnique /\ StoredFirst

\* A worker's child is there, or has been waited for.
LEMMA ChildOfWorker ==
    ASSUME PipeCore, NEW w \in Porters, porter[w].at \notin {"free", "open"}
    PROVE  /\ porter[w].child \in Children
           /\ porter[w].child \in Holder(PidOf(w)) \/ child[porter[w].child].state = "reaped"
           /\ Holder(PidOf(w)) # {} => (Holder(PidOf(w)) = {porter[w].child} \/ child[porter[w].child].state = "reaped")
           /\ porter[w].child \in Holder(PidOf(w)) => ~(PidOf(w) \in strangers) /\ InUse(PidOf(w))
<1>1. porter[w].child \in Children /\ child[porter[w].child].state # "none"
  BY DEF PipeCore, ChildOwned, HasOwner, PipeTypeOK, Posts
<1>2. porter[w].child \in Holder(PidOf(w)) \/ child[porter[w].child].state = "reaped"
  BY <1>1 DEF PipeCore, PipeTypeOK, Processes, Holder, PidOf, Running, Zombie
<1>. QED
  BY <1>1, <1>2 DEF PipeCore, PidsUnique, Holder, PidOf, InUse, Running, Zombie

\* Steps that only move the worker on, ...
LEMMA MovesKeep ==
    ASSUME PipeCore, NEW w \in Porters, porter[w].at \notin {"free", "open"},
           GoesOn(w), UNCHANGED <<keepAlive, idle, parcel, stored, strangers>>, stolen' \in BOOLEAN,
           ChildrenSame(porter[w].child) \/ ChildrenReaped(w),
           porter'[w].at = "reply" => keepAlive /\ child'[porter'[w].child].talk # "250"
    PROVE  PipeCore'
<1>. USE DEF PipeCore
<1>1. PipeTypeOK'
  BY DEF PipeTypeOK, GoesOn, OnlyPorter, ChildrenSame, ChildrenReaped
<1>2. \A d \in Children : /\ child'[d].state = "none" <=> child[d].state = "none"
                          /\ child'[d].state \in {"running", "ok", "bad"}  => child'[d].state = child[d].state
                          /\ child'[d].pid = child[d].pid
                          /\ child'[d].state = "reaped" => child'[d].by # "none"
  BY DEF ChildrenSame, ChildrenReaped, Same, Took, Waiting, Holder, Zombie, PidsUnique
<1>3. \A v \in Porters : /\ porter'[v].child = porter[v].child /\ porter'[v].mail = porter[v].mail
                         /\ porter'[v].at \in {"free", "open"} <=> porter[v].at \in {"free", "open"}
  BY DEF GoesOn, OnlyPorter
<1>4. ChildOwned'
  BY <1>2, <1>3 DEF ChildOwned, HasOwner
<1>5. PidsUnique'
  BY <1>2 DEF PidsUnique, Running, Zombie
<1>6. \A v \in Porters \ {w} : /\ porter'[v].at = porter[v].at
                               /\ porter[v].child \in Children =>
                                     child'[porter[v].child].talk = child[porter[v].child].talk
  BY DEF ChildOwned, GoesOn, OnlyPorter, ChildrenSame, ChildrenReaped, Same, Took
<1>7. \A v \in Porters : porter[v].at \notin {"free", "open"} => porter[v].child \in Children
  BY DEF ChildOwned, PipeTypeOK, Posts
<1>8. StoredFirst'
  <2>1. /\ ~keepAlive' => idle' = <<>>
        /\ \A v \in Porters : porter'[v].at = "reply" => keepAlive'
        /\ \A c \in Children : child'[c].state = "ok" => ~keepAlive'
    BY <1>2, <1>6 DEF StoredFirst
  <2>2. ASSUME NEW v \in Porters, porter[v].at \notin {"free", "open"},
               child'[porter[v].child].state = "ok" PROVE porter[v].mail \in stored
    BY <1>2, <1>7, <2>2 DEF StoredFirst
  <2>3. ASSUME NEW v \in Porters, porter'[v].at = "reply", child'[porter[v].child].talk = "250"
        PROVE  v # w /\ porter[v].at = "reply" /\ porter[v].mail \in stored
    BY <1>3, <1>6, <1>7, <2>3 DEF StoredFirst
  <2>. QED
    BY <1>3, <2>1, <2>2, <2>3 DEF StoredFirst
<1>. QED
  BY <1>1, <1>4, <1>5, <1>8

\* ... that close its child, ...
LEMMA ClosingKeeps ==
    ASSUME PipeCore, NEW w \in Porters, porter[w].at \notin {"free", "open"},
           LetsGo(w), ChildrenClosed(w), UNCHANGED <<keepAlive, idle, stored, strangers>>,
           parcel' \in [Parcels -> {"queued", "working", "success"}], stolen' \in BOOLEAN
    PROVE  PipeCore'
<1>. USE DEF PipeCore
<1>. DEFINE c == porter[w].child
<1>0. c \in Children /\ c # NoChild
  BY PipeAssumption DEF PipeTypeOK, Posts, ChildOwned
<1>1. PipeTypeOK'
  BY DEF PipeTypeOK, LetsGo, OnlyPorter, ChildrenClosed
<1>2. \A d \in Children \ {c} :
         /\ child'[d].state = "none" <=> child[d].state = "none"
         /\ child'[d].state \in {"running", "ok", "bad"}  => child'[d].state = child[d].state
         /\ child'[d].pid = child[d].pid /\ child'[d].talk = child[d].talk
         /\ child'[d].state = "reaped" => child'[d].by # "none"
  BY DEF ChildrenClosed, Same, Took, Waiting, Holder, Zombie, PidsUnique
<1>3. child'[c].state = "none"
  BY DEF ChildrenClosed
<1>4. /\ \A v \in Porters \ {w} : porter'[v] = porter[v]
      /\ porter'[w].at \in {"free", "open"} /\ porter'[w].child = NoChild
  BY DEF LetsGo, OnlyPorter
<1>5. \A v \in Porters \ {w} : porter[v].child # c
  BY <1>0 DEF ChildOwned
<1>6. \A v \in Porters : porter[v].at \notin {"free", "open"} => porter[v].child \in Children
  BY DEF ChildOwned, PipeTypeOK, Posts
<1>. HIDE DEF c
<1>7. ChildOwned'
  <2>1. ASSUME NEW d \in Children PROVE HasOwner(d)' <=> child'[d].state # "none"
    <3>1. CASE d = c
      <4>1. c \notin Members(idle)
        BY DEF c, ChildOwned
      <4>. QED
        BY <1>0, <1>3, <1>4, <1>5, <3>1, <4>1 DEF HasOwner
    <3>2. CASE d # c
      <4>1. HasOwner(d)' <=> HasOwner(d)
        BY <1>0, <1>4, <3>2, PipeAssumption DEF HasOwner, c
      <4>. QED
        BY <1>2, <3>2, <4>1 DEF ChildOwned
    <3>. QED
      BY <3>1, <3>2
  <2>2. NoChild \notin Members(idle)
    BY PipeAssumption DEF PipeTypeOK, Members
  <2>. QED
    BY <1>4, <2>1, <2>2 DEF ChildOwned
<1>8. PidsUnique'
  BY <1>2, <1>3 DEF PidsUnique, Running, Zombie
<1>9. StoredFirst'
  <2>1. /\ ~keepAlive' => idle' = <<>>
        /\ \A v \in Porters : porter'[v].at = "reply" => keepAlive'
        /\ \A d \in Children : child'[d].state = "ok" => ~keepAlive'
    BY <1>2, <1>3, <1>4 DEF StoredFirst
  <2>2. ASSUME NEW v \in Porters, porter'[v].at \notin {"free", "open"}
        PROVE  /\ child'[porter'[v].child].state = "ok" => porter'[v].mail \in stored'
               /\ porter'[v].at = "reply" /\ child'[porter'[v].child].talk = "250"
                    => porter'[v].mail \in stored'
    <3>1. v # w /\ porter'[v] = porter[v] /\ porter[v].child \in Children \ {c}
      BY <1>4, <1>5, <1>6, <2>2
    <3>. QED
      BY <1>2, <2>2, <3>1 DEF StoredFirst
  <2>. QED
    BY <2>1, <2>2 DEF StoredFirst
<1>. QED
  BY <1>1, <1>7, <1>8, <1>9

\* ... or that only change the status of the message, while there is no child.
LEMMA GivingUpKeeps ==
    ASSUME PipeCore, NEW w \in Porters, porter[w].at = "open",
           LetsGo(w), UNCHANGED <<keepAlive, idle, stored, strangers, child>>,
           parcel' \in [Parcels -> {"queued", "working", "success"}], stolen' \in BOOLEAN
    PROVE  PipeCore'
<1>. USE DEF PipeCore
<1>1. PipeTypeOK'
  BY DEF PipeTypeOK, LetsGo, OnlyPorter
<1>2. \A v \in Porters : /\ porter'[v].child = porter[v].child
                         /\ porter'[v].at \notin {"free", "open"} => porter'[v] = porter[v]
                         /\ porter'[v].at \in {"free", "open"} <=> porter[v].at \in {"free", "open"}
  BY DEF LetsGo, OnlyPorter, ChildOwned
<1>3. ChildOwned'
  BY <1>2 DEF ChildOwned, HasOwner
<1>4. PidsUnique'
  BY DEF PidsUnique, Running, Zombie
<1>5. StoredFirst'
  BY <1>2 DEF StoredFirst
<1>. QED
  BY <1>1, <1>3, <1>4, <1>5

\* A child that ends; one that says "ok" has stored its message.
LEMMA EndingKeeps ==
    ASSUME PipeCore, NEW c \in Children, NEW how, ChildEnds(c, how),
           UNCHANGED <<keepAlive, idle, parcel, strangers, stolen>>,
           \/ UNCHANGED porter
           \/ \E w \in Porters : porter[w].at \notin {"free", "open"} /\ GoesOn(w) /\ porter'[w].at # "reply",
           stored \subseteq stored',
           how = "ok" => ~keepAlive /\ Given(c) \subseteq stored'
    PROVE  PipeCore'
<1>. USE DEF PipeCore
<1>0. \A v \in Porters : /\ porter'[v].child = porter[v].child /\ porter'[v].mail = porter[v].mail
                         /\ porter'[v].at \in {"free", "open"} <=> porter[v].at \in {"free", "open"}
                         /\ porter'[v].at = "reply" => porter[v].at = "reply"
  BY DEF GoesOn, OnlyPorter
<1>1. PipeTypeOK'
  BY DEF PipeTypeOK, ChildEnds, GoesOn, OnlyPorter
<1>2. ChildOwned'
  BY <1>0 DEF ChildOwned, HasOwner, ChildEnds, Same, Running
<1>3. PidsUnique'
  BY DEF PidsUnique, ChildEnds, Same, Running, Zombie
<1>4. StoredFirst'
  <2>1. /\ \A d \in Children \ {c} : child'[d].state = child[d].state
        /\ \A d \in Children : child'[d].talk = child[d].talk
        /\ child'[c].state = "ok" => how = "ok"
    BY DEF ChildEnds, Same
  <2>2. \A v \in Porters : porter[v].at \notin {"free", "open"} => porter[v].child \in Children
    BY DEF ChildOwned, PipeTypeOK, Posts
  <2>3. \A v \in Porters : porter[v].child = c => porter[v].mail \in Given(c)
    BY DEF Given
  <2>4. /\ ~keepAlive' => idle' = <<>>
        /\ \A v \in Porters : porter'[v].at = "reply" => keepAlive'
        /\ \A d \in Children : child'[d].state = "ok" => ~keepAlive'
    BY <1>0, <2>1 DEF StoredFirst
  <2>5. ASSUME NEW v \in Porters, porter[v].at \notin {"free", "open"},
               child'[porter[v].child].state = "ok" PROVE porter[v].mail \in stored'
    BY <2>1, <2>2, <2>3, <2>5 DEF StoredFirst
  <2>6. ASSUME NEW v \in Porters, porter[v].at = "reply", child'[porter[v].child].talk = "250"
        PROVE porter[v].mail \in stored'
    BY <2>1, <2>2, <2>6 DEF StoredFirst
  <2>. QED
    BY <1>0, <2>4, <2>5, <2>6 DEF StoredFirst
<1>. QED
  BY <1>1, <1>2, <1>3, <1>4

\* A child answers; it has stored the message of a 250.
LEMMA AnswerKeeps ==
    ASSUME PipeCore, NEW c \in Children, Answers(c)
    PROVE  PipeCore'
<1>. USE DEF PipeCore
<1>1. PICK reply \in {"250", "error"} :
         /\ child' = [child EXCEPT ![c].talk = reply]
         /\ stored' = IF reply = "250" THEN stored \cup Given(c) ELSE stored
  BY DEF Answers
<1>2. UNCHANGED <<keepAlive, parcel, porter, idle, strangers, stolen>>
  BY DEF Answers, pipeConfig, pipeGhosts
<1>3. ChildrenSame(c) /\ child'[c].talk = reply
  BY <1>1, Talks
<1>4. /\ \A d \in Children : /\ child'[d].state = child[d].state /\ child'[d].pid = child[d].pid
                             /\ child'[d].by = child[d].by
      /\ \A d \in Children \ {c} : child'[d].talk = child[d].talk
  BY <1>3 DEF ChildrenSame, Same
<1>5. PipeTypeOK'
  BY <1>2, <1>3 DEF PipeTypeOK, ChildrenSame
<1>6. ChildOwned'
  BY <1>2, <1>4 DEF ChildOwned, HasOwner
<1>7. PidsUnique'
  BY <1>2, <1>4 DEF PidsUnique, Running, Zombie
<1>8. StoredFirst'
  <2>1. stored \subseteq stored'
    BY <1>1
  <2>2. \A v \in Porters : porter[v].at \notin {"free", "open"} => porter[v].child \in Children
    BY DEF ChildOwned, PipeTypeOK, Posts
  <2>3. \A v \in Porters : porter[v].child = c => porter[v].mail \in Given(c)
    BY DEF Given
  <2>4. /\ ~keepAlive' => idle' = <<>>
        /\ \A v \in Porters : porter'[v].at = "reply" => keepAlive'
        /\ \A d \in Children : child'[d].state = "ok" => ~keepAlive'
    BY <1>2, <1>4 DEF StoredFirst
  <2>5. ASSUME NEW v \in Porters, porter[v].at \notin {"free", "open"},
               child'[porter[v].child].state = "ok" PROVE porter[v].mail \in stored'
    BY <1>4, <2>1, <2>2, <2>5 DEF StoredFirst
  <2>6. ASSUME NEW v \in Porters, porter[v].at = "reply", child'[porter[v].child].talk = "250"
        PROVE porter[v].mail \in stored'
    <3>1. CASE porter[v].child = c
      BY <1>1, <1>3, <2>3, <2>6, <3>1
    <3>2. CASE porter[v].child # c
      BY <1>4, <2>1, <2>2, <2>6, <3>2 DEF StoredFirst
    <3>. QED
      BY <3>1, <3>2
  <2>. QED
    BY <1>2, <2>4, <2>5, <2>6 DEF StoredFirst
<1>. QED
  BY <1>5, <1>6, <1>7, <1>8

\* Other processes come and go.
LEMMA StrangerKeeps ==
    ASSUME PipeCore, NEW p \in Pids, Stranger(p)
    PROVE  PipeCore'
<1>. USE DEF PipeCore, Stranger, pipeConfig, pipeGhosts
<1>1. PipeTypeOK'
  BY DEF PipeTypeOK
<1>2. ChildOwned'
  BY DEF ChildOwned, HasOwner
<1>3. PidsUnique'
  BY DEF PidsUnique, Running, Zombie, InUse, Holder
<1>4. StoredFirst'
  BY DEF StoredFirst
<1>. QED
  BY <1>1, <1>2, <1>3, <1>4

\* A new child gets a pid that nobody has.
LEMMA OpenKeeps ==
    ASSUME PipeCore, NEW w \in Porters, Open(w)
    PROVE  PipeCore'
<1>. USE DEF PipeCore
<1>. DEFINE c == CHOOSE free \in Children : child[free].state = "none"
<1>1. c \in Children /\ child[c].state = "none"
  BY DEF Open
<1>2. PICK p \in Pids : ~InUse(p) /\
         child' = [d \in Children |->
                  IF d = c THEN [NoProcess EXCEPT !.pid = p, !.state = "running",
                                                  !.writers = IF keepAlive THEN {} ELSE {NoChild}]
                  ELSE IF NoChild \in child[d].writers THEN [child[d] EXCEPT !.writers = @ \cup {c}]
                       ELSE child[d]]
  BY DEF Open
<1>3. /\ porter[w].at = "open" /\ porter' = [porter EXCEPT ![w].at = "deliver", ![w].child = c]
      /\ UNCHANGED <<keepAlive, parcel, stored, idle, strangers, stolen>>
  BY DEF Open, pipeConfig, pipeGhosts
<1>. HIDE DEF c
<1>4. /\ \A d \in Children \ {c} : Same(d)
      /\ child'[c].pid = p /\ child'[c].state = "running" /\ child'[c].talk = "none"
      /\ child' \in [Children -> Processes]
  <2>1. child'[c] = [NoProcess EXCEPT !.pid = p, !.state = "running",
                                      !.writers = IF keepAlive THEN {} ELSE {NoChild}]
    BY <1>1, <1>2
  <2>2. child'[c].pid = p /\ child'[c].state = "running" /\ child'[c].talk = "none" /\ child'[c] \in Processes
    BY <2>1 DEF NoProcess, Processes
  <2>3. ASSUME NEW d \in Children \ {c} PROVE Same(d) /\ child'[d] \in Processes
    <3>1. child[d] \in Processes
      BY DEF PipeTypeOK
    <3>2. child'[d] = child[d] \/ child'[d] = [child[d] EXCEPT !.writers = @ \cup {c}]
      BY <1>2, <2>3
    <3>. QED
      BY <1>1, <3>1, <3>2 DEF Same, Processes
  <2>4. child' \in [Children -> Processes]
    <3>1. \A d \in Children : child'[d] \in Processes
      BY <2>2, <2>3
    <3>2. child' = [d \in Children |-> child'[d]]
      BY <1>2
    <3>. QED
      BY <3>1, <3>2
  <2>. QED
    BY <2>2, <2>3, <2>4
<1>5. /\ OnlyPorter(w) /\ porter'[w].at = "deliver" /\ porter'[w].child = c
      /\ porter'[w].mail = porter[w].mail
  <2>1. porter \in [Porters -> Posts] /\ porter[w] \in Posts
    BY DEF PipeTypeOK
  <2>. HIDE DEF PipeCore
  <2>2. porter'[w] = [porter[w] EXCEPT !.at = "deliver", !.child = c]
    BY <1>3, <2>1
  <2>3. /\ porter'[w] \in Posts
        /\ porter'[w].at = "deliver" /\ porter'[w].child = c /\ porter'[w].mail = porter[w].mail
    BY <1>1, <2>1, <2>2 DEF Posts
  <2>. QED
    BY <1>3, <2>1, <2>3 DEF OnlyPorter
<1>6. \A v \in Porters \ {w} : porter'[v] = porter[v]
  BY <1>5 DEF OnlyPorter
<1>7. PipeTypeOK'
  BY <1>3, <1>4, <1>5 DEF PipeTypeOK, OnlyPorter
<1>8. ~HasOwner(c)
  BY <1>1 DEF ChildOwned
<1>9. ChildOwned'
  <2>1. c # NoChild
    BY <1>1, PipeAssumption
  <2>2. \A d \in Children : HasOwner(d)' <=> HasOwner(d) \/ d = c
    <3>1. porter[w].child = NoChild
      BY <1>3 DEF ChildOwned
    <3>2. NoChild \notin Children
      BY PipeAssumption
    <3>. QED
      BY <1>3, <1>5, <1>6, <1>8, <3>1, <3>2 DEF HasOwner
  <2>3. \A d \in Children : child'[d].state # "none" <=> child[d].state # "none" \/ d = c
    BY <1>1, <1>4 DEF Same
  <2>4. \A d \in Children : HasOwner(d)' <=> child'[d].state # "none"
    BY <2>2, <2>3 DEF ChildOwned
  <2>5. \A v \in Porters \ {w} : porter[v].child # c
    BY <1>8 DEF HasOwner
  <2>6. c \notin Members(idle)
    BY <1>8 DEF HasOwner
  <2>7. \A v \in Porters : porter'[v].child = NoChild <=> porter'[v].at \in {"free", "open"}
    BY <1>5, <1>6, <2>1 DEF ChildOwned
  <2>8. \A u, v \in Porters : porter'[u].child # NoChild /\ porter'[u].child = porter'[v].child => u = v
    BY <1>5, <1>6, <2>5 DEF ChildOwned
  <2>9. idle' = idle /\ \A v \in Porters : porter'[v].child \notin Members(idle)
    BY <1>3, <1>5, <1>6, <2>6 DEF ChildOwned
  <2>10. Distinct(idle)
    BY DEF ChildOwned
  <2>. HIDE DEF PipeCore
  <2>. QED
    BY <2>4, <2>7, <2>8, <2>9, <2>10 DEF ChildOwned
<1>10. PidsUnique'
  BY <1>1, <1>2, <1>3, <1>4 DEF PidsUnique, Same, Running, Zombie, InUse, Holder
<1>11. StoredFirst'
  <2>1. \A v \in Porters \ {w} : porter[v].at \notin {"free", "open"} => porter[v].child \in Children \ {c}
    BY <1>8 DEF ChildOwned, PipeTypeOK, Posts, HasOwner
  <2>2. /\ ~keepAlive' => idle' = <<>>
        /\ \A v \in Porters : porter'[v].at = "reply" => keepAlive'
        /\ \A d \in Children : child'[d].state = "ok" => ~keepAlive'
    BY <1>3, <1>4, <1>5, <1>6 DEF StoredFirst, Same
  <2>3. ASSUME NEW v \in Porters \ {w}, porter[v].at \notin {"free", "open"}
        PROVE  /\ child'[porter[v].child].state = "ok" => porter[v].mail \in stored
               /\ porter[v].at = "reply" /\ child'[porter[v].child].talk = "250" => porter[v].mail \in stored
    BY <1>4, <2>1, <2>3 DEF StoredFirst, Same
  <2>4. ASSUME NEW v \in Porters, porter'[v].at \notin {"free", "open"}
        PROVE  /\ child'[porter'[v].child].state = "ok" => porter'[v].mail \in stored
               /\ porter'[v].at = "reply" /\ child'[porter'[v].child].talk = "250"
                    => porter'[v].mail \in stored
    <3>1. CASE v = w
      BY <1>4, <1>5, <3>1
    <3>2. CASE v # w
      BY <1>6, <2>3, <2>4, <3>2
    <3>. QED
      BY <3>1, <3>2
  <2>5. stored' = stored
    BY <1>3
  <2>. QED
    BY <2>2, <2>4, <2>5 DEF StoredFirst
<1>. QED
  BY <1>7, <1>9, <1>10, <1>11

\* A message is begun, with the oldest child of the pool if there is one.
LEMMA StartKeeps ==
    ASSUME PipeCore, NEW w \in Porters, StartParcel(w)
    PROVE  PipeCore'
<1>. USE DEF PipeCore
<1>1. PICK m \in Parcels :
         /\ parcel' = [parcel EXCEPT ![m] = "working"]
         /\ porter' = [porter EXCEPT ![w] =
                [AtRest EXCEPT !.at = IF idle = <<>> THEN "open" ELSE "begin", !.mail = m,
                               !.child = IF idle = <<>> THEN NoChild ELSE Head(idle)]]
  BY DEF StartParcel
<1>2. /\ porter[w].at = "free" /\ idle' = IF idle = <<>> THEN idle ELSE Tail(idle)
      /\ UNCHANGED <<keepAlive, stored, child, strangers, stolen>>
  BY DEF StartParcel, pipeConfig, pipeGhosts
<1>3. PidsUnique'
  BY <1>2 DEF PidsUnique, Running, Zombie
<1>4. idle \in Seq(Children) /\ Distinct(idle) /\ parcel \in [Parcels -> {"queued", "working", "success"}]
  BY DEF PipeTypeOK, ChildOwned
<1>5. porter[w].child = NoChild /\ NoChild \notin Children
  BY <1>2, PipeAssumption DEF ChildOwned
<1>6. \A v \in Porters \ {w} : porter'[v] = porter[v]
  BY <1>1 DEF PipeTypeOK
<1>7. CASE idle = <<>>
  <2>1. /\ OnlyPorter(w) /\ porter'[w].at = "open" /\ porter'[w].child = NoChild
    BY <1>1, <1>7 DEF OnlyPorter, PipeTypeOK, Posts, AtRest
  <2>2. PipeTypeOK'
    BY <1>1, <1>2, <1>4, <1>7, <2>1 DEF PipeTypeOK, OnlyPorter
  <2>3. \A v \in Porters : /\ porter'[v].child = porter[v].child
                           /\ porter'[v].at \notin {"free", "open"} => porter'[v] = porter[v]
                           /\ porter'[v].at \in {"free", "open"} <=> porter[v].at \in {"free", "open"}
    BY <1>2, <1>5, <1>6, <2>1
  <2>4. ChildOwned'
    BY <1>2, <1>7, <2>3 DEF ChildOwned, HasOwner
  <2>5. StoredFirst'
    BY <1>2, <1>7, <2>3 DEF StoredFirst
  <2>. QED
    BY <1>3, <2>2, <2>4, <2>5
<1>8. CASE idle # <<>>
  <2>. DEFINE c == Head(idle)
  <2>1. /\ c \in Children /\ c \in Members(idle) /\ idle' = Tail(idle)
        /\ idle' \in Seq(Children) /\ Distinct(idle') /\ Members(idle') = Members(idle) \ {c}
    BY <1>2, <1>4, <1>8, TailMembers
  <2>. HIDE DEF c
  <2>2. /\ OnlyPorter(w) /\ porter'[w].at = "begin" /\ porter'[w].child = c
    BY <1>1, <1>8, <2>1 DEF c, OnlyPorter, PipeTypeOK, Posts, AtRest
  <2>3. PipeTypeOK'
    BY <1>1, <1>2, <1>4, <2>1, <2>2 DEF PipeTypeOK, OnlyPorter
  <2>4. \A v \in Porters : porter[v].child # c
    BY <2>1 DEF ChildOwned
  <2>5. ChildOwned'
    <3>1. \A d \in Children : HasOwner(d)' <=> HasOwner(d)
      BY <1>5, <1>6, <2>1, <2>2 DEF HasOwner
    <3>2. \A d \in Children : HasOwner(d)' <=> child'[d].state # "none"
      BY <1>2, <3>1 DEF ChildOwned
    <3>3. \A v \in Porters : porter'[v].child = NoChild <=> porter'[v].at \in {"free", "open"}
      BY <1>5, <1>6, <2>1, <2>2 DEF ChildOwned
    <3>4. \A u, v \in Porters : porter'[u].child # NoChild /\ porter'[u].child = porter'[v].child => u = v
      BY <1>6, <2>2, <2>4 DEF ChildOwned
    <3>5. \A v \in Porters : porter'[v].child \notin Members(idle')
      BY <1>6, <2>1, <2>2 DEF ChildOwned
    <3>. HIDE DEF PipeCore
    <3>. QED
      BY <2>1, <3>2, <3>3, <3>4, <3>5 DEF ChildOwned
  <2>6. StoredFirst'
    <3>1. keepAlive
      BY <1>8 DEF StoredFirst
    <3>2. \A d \in Children : child[d].state # "ok"
      BY <3>1 DEF StoredFirst
    <3>3. \A v \in Porters \ {w} : porter[v].at = "reply" /\ child[porter[v].child].talk = "250"
                                     => porter[v].mail \in stored
      BY DEF StoredFirst
    <3>4. \A v \in Porters : porter'[v].at \notin {"free", "open"} => porter'[v].child \in Children
      BY <2>3, <2>5 DEF PipeTypeOK, ChildOwned, Posts
    <3>5. ASSUME NEW v \in Porters, porter'[v].at \notin {"free", "open"}
          PROVE  /\ child[porter'[v].child].state = "ok" => porter'[v].mail \in stored
                 /\ porter'[v].at = "reply" /\ child[porter'[v].child].talk = "250"
                      => porter'[v].mail \in stored
      BY <1>6, <2>2, <3>2, <3>3, <3>4, <3>5
    <3>. HIDE DEF PipeCore
    <3>. QED
      BY <1>2, <3>1, <3>2, <3>5 DEF StoredFirst
  <2>. QED
    BY <1>3, <2>3, <2>5, <2>6
<1>. QED
  BY <1>7, <1>8

\* A child that said 250 goes into the pool.
LEMMA KeepingKeeps ==
    ASSUME PipeCore, NEW w \in Porters, porter[w].at = "reply", Finish(w, "success"),
           idle' = Append(idle, porter[w].child), child' = [child EXCEPT ![porter[w].child].talk = "none"],
           UNCHANGED <<keepAlive, stored, strangers, stolen>>
    PROVE  PipeCore'
<1>. USE DEF PipeCore
<1>. DEFINE c == porter[w].child
<1>1. c \in Children /\ c # NoChild /\ c \notin Members(idle)
  BY PipeAssumption DEF PipeTypeOK, Posts, ChildOwned
<1>2. /\ idle' \in Seq(Children) /\ Distinct(idle') /\ Members(idle') = Members(idle) \cup {c}
  BY <1>1, AppendMembers DEF PipeTypeOK, ChildOwned
<1>3. ChildrenSame(c)
  BY <1>1, Talks
<1>4. LetsGo(w)
  BY PorterDone DEF Finish
<1>5. parcel' \in [Parcels -> {"queued", "working", "success"}]
  BY DEF Finish, PipeTypeOK
<1>. HIDE DEF c
<1>6. /\ \A d \in Children : /\ child'[d].state = child[d].state /\ child'[d].pid = child[d].pid
                             /\ child'[d].by = child[d].by
      /\ \A d \in Children \ {c} : child'[d].talk = child[d].talk
  BY <1>3 DEF ChildrenSame, Same
<1>7. /\ \A v \in Porters \ {w} : porter'[v] = porter[v]
      /\ porter'[w].at \in {"free", "open"} /\ porter'[w].child = NoChild
  BY <1>4 DEF LetsGo, OnlyPorter
<1>8. PipeTypeOK'
  BY <1>2, <1>3, <1>4, <1>5 DEF PipeTypeOK, ChildrenSame, LetsGo, OnlyPorter
<1>9. PidsUnique'
  BY <1>6 DEF PidsUnique, Running, Zombie
<1>10. \A v \in Porters \ {w} : porter[v].child # c
  BY <1>1 DEF ChildOwned, c
<1>11. ChildOwned'
  <2>1. \A d \in Children : HasOwner(d)' <=> HasOwner(d)
    BY <1>1, <1>2, <1>7, PipeAssumption DEF HasOwner, c
  <2>2. \A d \in Children : HasOwner(d)' <=> child'[d].state # "none"
    BY <1>6, <2>1 DEF ChildOwned
  <2>3. \A v \in Porters : porter'[v].child = NoChild <=> porter'[v].at \in {"free", "open"}
    BY <1>7 DEF ChildOwned
  <2>4. \A u, v \in Porters : porter'[u].child # NoChild /\ porter'[u].child = porter'[v].child => u = v
    BY <1>7 DEF ChildOwned
  <2>5. NoChild \notin Members(idle')
    BY <1>2, PipeAssumption DEF Members
  <2>6. \A v \in Porters : porter'[v].child \notin Members(idle')
    BY <1>2, <1>7, <1>10, <2>5 DEF ChildOwned
  <2>. HIDE DEF PipeCore
  <2>. QED
    BY <1>2, <2>2, <2>3, <2>4, <2>6 DEF ChildOwned
<1>12. StoredFirst'
  <2>1. keepAlive /\ \A d \in Children : child[d].state # "ok"
    BY DEF StoredFirst
  <2>2. \A v \in Porters : porter[v].at \notin {"free", "open"} => porter[v].child \in Children
    BY DEF ChildOwned, PipeTypeOK, Posts
  <2>3. ASSUME NEW v \in Porters, porter'[v].at \notin {"free", "open"}
        PROVE  /\ child'[porter'[v].child].state = "ok" => porter'[v].mail \in stored
               /\ porter'[v].at = "reply" /\ child'[porter'[v].child].talk = "250"
                    => porter'[v].mail \in stored
    <3>1. v # w /\ porter'[v] = porter[v] /\ porter[v].child \in Children \ {c}
      BY <1>7, <1>10, <2>2, <2>3
    <3>. QED
      BY <1>6, <2>3, <3>1 DEF StoredFirst
  <2>4. \A d \in Children : child'[d].state # "ok"
    BY <1>6, <2>1
  <2>. HIDE DEF PipeCore
  <2>. QED
    BY <2>1, <2>3, <2>4 DEF StoredFirst
<1>. QED
  BY <1>8, <1>9, <1>11, <1>12

-----------------------------------------------------------------------------
\* Every step keeps the invariant.
LEMMA PipeCoreKept ==
    ASSUME PipeCore, PipeNext
    PROVE  PipeCore'
<1>0. PipeTypeOK
  BY DEF PipeCore
<1>. USE DEF pipeConfig, pipeGhosts
<1>a. \A v \in Porters : /\ porter[v].at \notin {"free", "open"} =>
                              /\ porter[v].child \in Children
                              /\ porter[v].child \in Holder(PidOf(v)) \/ child[porter[v].child].state = "reaped"
                              /\ porter[v].child \in Holder(PidOf(v)) => InUse(PidOf(v))
  BY ChildOfWorker
<1>b. ASSUME NEW w \in Porters, NEW status \in {"queued", "success"}, Finish(w, status)
      PROVE  LetsGo(w) /\ parcel' \in [Parcels -> {"queued", "working", "success"}]
  BY <1>0, <1>b, PorterDone DEF Finish, PipeTypeOK
<1>c. \A w \in Porters : Steals(w) => stolen' \in BOOLEAN
  BY DEF Steals
<1>d. \A w \in Porters :
         porter[w].child \in Children
           /\ (Waiting(w) # {} \/ ~InUse(PidOf(w)) \/ Holder(PidOf(w)) = Waiting(w))
           /\ (porter[w].child \in Holder(PidOf(w)) \/ child[porter[w].child].state = "reaped")
         => porter[w].child \in Waiting(w) \/ child[porter[w].child].state = "reaped"
  BY DEF PipeCore, PidsUnique, InUse, Waiting, Holder, PidOf, Running, Zombie
<1>e. ASSUME NEW w \in Porters, NEW how \in {"ok", "bad", "killed"}, ChildClosed(w, how)
      PROVE  LetsGo(w) /\ parcel' \in [Parcels -> {"queued", "working", "success"}]
  <2>1. CASE porter[w].why = "begin"
    BY <1>0, <1>e, <2>1, PorterOpens DEF ChildClosed, PipeTypeOK
  <2>2. CASE porter[w].why # "begin"
    BY <1>b, <1>e, <2>2 DEF ChildClosed, StatusOf
  <2>. QED
    BY <2>1, <2>2
<1>1. ASSUME NEW w \in Porters, StartParcel(w) PROVE PipeCore'
  BY <1>1, StartKeeps
<1>2. ASSUME NEW w \in Porters, BeginChild(w) PROVE PipeCore'
  <2>1. ChildrenReaped(w)
    BY <1>2, <1>0, Reaps DEF BeginChild
  <2>2. GoesOn(w) /\ porter'[w].at # "reply"
    BY <1>2, <1>0, PorterGoes DEF BeginChild, PipeTypeOK, GoTo, CloseFor, Posts
  <2>. QED
    BY <1>2, <1>c, <2>1, <2>2, MovesKeep DEF BeginChild
<1>3. ASSUME NEW w \in Porters, BeginAgain(w) PROVE PipeCore'
  <2>1. CASE IsRunning(w)
    <3>1. GoesOn(w) /\ porter'[w].at # "reply" /\ ChildrenSame(porter[w].child)
      BY <1>3, <1>0, <2>1, PorterGoes DEF BeginAgain, PipeTypeOK, GoTo, Posts, ChildrenSame, Same
    <3>. QED
      BY <1>3, <1>c, <2>1, <3>1, MovesKeep DEF BeginAgain
  <2>2. CASE ~IsRunning(w)
    <3>1. LetsGo(w)
      BY <1>3, <1>0, <2>2, PorterOpens DEF BeginAgain
    <3>2. porter[w].child \in Waiting(w) \/ child[porter[w].child].state = "reaped"
      BY <1>3, <1>a, <1>d, <2>2 DEF BeginAgain, IsRunning
    <3>3. ChildrenClosed(w)
      BY <1>3, <1>0, <1>a, <2>2, <3>2, Closes DEF BeginAgain
    <3>. QED
      BY <1>3, <1>0, <1>c, <3>1, <3>3, ClosingKeeps DEF BeginAgain, PipeTypeOK
  <2>. QED
    BY <2>1, <2>2
<1>4. ASSUME NEW w \in Porters, Open(w) PROVE PipeCore'
  BY <1>4, OpenKeeps
<1>5. ASSUME NEW w \in Porters, OpenChildFails(w) PROVE PipeCore'
  BY <1>5, <1>0, <1>b, GivingUpKeeps DEF OpenChildFails, PipeTypeOK
<1>6. ASSUME NEW w \in Porters, HandOver(w) PROVE PipeCore'
  <2>1. ChildrenSame(porter[w].child) /\ child'[porter[w].child].talk = "asked"
    BY <1>6, <1>0, <1>a, Talks DEF HandOver
  <2>2. GoesOn(w)
    BY <1>6, <1>0, PorterGoes DEF HandOver
  <2>3. porter'[w].at = "reply" => keepAlive
    BY <1>6, <1>0 DEF HandOver, PipeTypeOK, CloseFor, Posts
  <2>. QED
    BY <1>6, <1>0, <2>1, <2>2, <2>3, MovesKeep DEF HandOver, GoesOn, PipeTypeOK
<1>7. ASSUME NEW w \in Porters, ReadReply(w) PROVE PipeCore'
  <2>1. CASE child[porter[w].child].talk = "250" /\ Finish(w, "success")
    BY <1>7, <1>0, <2>1, KeepingKeeps DEF ReadReply, PipeTypeOK, CloseFor, Posts, Finish, AtRest
  <2>2. CASE CloseFor(w, "failed") /\ UNCHANGED <<parcel, idle, child>>
    <3>1. GoesOn(w) /\ porter'[w].at # "reply" /\ ChildrenSame(porter[w].child)
      BY <1>7, <1>0, <2>2, PorterGoes DEF ReadReply, PipeTypeOK, CloseFor, Posts, ChildrenSame, Same
    <3>. QED
      BY <1>7, <1>0, <2>2, <3>1, MovesKeep DEF ReadReply, PipeTypeOK
  <2>. QED
    BY <1>7, <2>1, <2>2 DEF ReadReply
<1>8. ASSUME NEW w \in Porters, CloseInput(w) PROVE PipeCore'
  <2>1. ChildrenSame(porter[w].child)
    <3>. DEFINE c == porter[w].child
    <3>1. c \in Children /\ child' = [child EXCEPT ![c] = [child[c] EXCEPT !.writers = @ \ {NoChild}]]
      BY <1>8, <1>a DEF CloseInput
    <3>2. child[c] \in Processes /\ child \in [Children -> Processes]
      BY <1>0, <3>1 DEF PipeTypeOK
    <3>. HIDE DEF c
    <3>3. /\ child'[c] \in Processes /\ child'[c].pid = child[c].pid /\ child'[c].state = child[c].state
          /\ child'[c].by = child[c].by
      BY <3>1, <3>2 DEF Processes
    <3>4. \A d \in Children \ {c} : child'[d] = child[d]
      BY <3>1, <3>2
    <3>5. child' \in [Children -> Processes]
      BY <3>1, <3>2, <3>3
    <3>. QED
      BY <3>3, <3>4, <3>5 DEF c, ChildrenSame, Same
  <2>2. GoesOn(w) /\ porter'[w].at # "reply"
    BY <1>8, <1>0, PorterGoes DEF CloseInput, PipeTypeOK, GoTo, Posts
  <2>. QED
    BY <1>8, <1>0, <2>1, <2>2, MovesKeep DEF CloseInput, PipeTypeOK
<1>9. ASSUME NEW w \in Porters, WaitOver(w) PROVE PipeCore'
  <2>1. porter[w].child \in Waiting(w) \/ child[porter[w].child].state = "reaped"
    BY <1>9, <1>a, <1>d DEF WaitOver
  <2>2. ChildrenClosed(w)
    BY <1>9, <1>0, <1>a, <2>1, Closes DEF WaitOver
  <2>3. LetsGo(w) /\ parcel' \in [Parcels -> {"queued", "working", "success"}]
    BY <1>9, <1>e DEF WaitOver, Waiting, Zombie
  <2>. QED
    BY <1>9, <1>c, <2>2, <2>3, ClosingKeeps DEF WaitOver
<1>10. ASSUME NEW w \in Porters, WaitTimesOut(w) PROVE PipeCore'
  <2>1. GoesOn(w) /\ porter'[w].at # "reply" /\ ChildrenSame(porter[w].child)
    BY <1>10, <1>0, PorterGoes DEF WaitTimesOut, PipeTypeOK, GoTo, Posts, ChildrenSame, Same
  <2>. QED
    BY <1>10, <1>0, <2>1, MovesKeep DEF WaitTimesOut, PipeTypeOK
<1>11. ASSUME NEW w \in Porters, TermGone(w) PROVE PipeCore'
  <2>1. GoesOn(w) /\ porter'[w].at # "reply" /\ ChildrenSame(porter[w].child)
    BY <1>11, <1>0, PorterGoes DEF TermGone, PipeTypeOK, GoTo, Posts, ChildrenSame, Same
  <2>. QED
    BY <1>11, <1>0, <2>1, MovesKeep DEF TermGone, PipeTypeOK
<1>12. ASSUME NEW w \in Porters, SendTerm(w) PROVE PipeCore'
  <2>1. GoesOn(w) /\ porter'[w].at # "reply" /\ porter[w].at \notin {"free", "open"}
    BY <1>12, <1>0, PorterGoes DEF SendTerm, PipeTypeOK, GoTo, Posts
  <2>2. CASE child' = child
    BY <1>12, <1>0, <2>1, <2>2, MovesKeep DEF SendTerm, Signal, PipeTypeOK, ChildrenSame, Same
  <2>3. ASSUME NEW c \in Children, Running(c), child' = Dead(c, "bad") PROVE PipeCore'
    <3>1. ChildEnds(c, "bad")
      BY <1>0, <2>3, Dies
    <3>. QED
      BY <1>12, <2>1, <3>1, EndingKeeps DEF SendTerm, Signal
  <2>. QED
    BY <1>12, <2>2, <2>3 DEF SendTerm, Signal, Holder
<1>13. ASSUME NEW w \in Porters, SendKill(w) PROVE PipeCore'
  <2>1. GoesOn(w) /\ porter'[w].at # "reply" /\ porter[w].at \notin {"free", "open"}
    BY <1>13, <1>0, PorterGoes DEF SendKill, PipeTypeOK, GoTo, Posts
  <2>2. CASE child' = child
    BY <1>13, <1>0, <2>1, <2>2, MovesKeep DEF SendKill, Signal, PipeTypeOK, ChildrenSame, Same
  <2>3. ASSUME NEW c \in Children, Running(c), child' = Dead(c, "bad") PROVE PipeCore'
    <3>1. ChildEnds(c, "bad")
      BY <1>0, <2>3, Dies
    <3>. QED
      BY <1>13, <2>1, <3>1, EndingKeeps DEF SendKill, Signal
  <2>. QED
    BY <1>13, <2>2, <2>3 DEF SendKill, Signal, Holder
<1>14. ASSUME NEW w \in Porters, TermReap(w) PROVE PipeCore'
  <2>1. ChildrenReaped(w)
    BY <1>14, <1>0, Reaps DEF TermReap
  <2>2. GoesOn(w) /\ porter'[w].at # "reply"
    BY <1>14, <1>0 DEF TermReap, PipeTypeOK, GoesOn, OnlyPorter
  <2>. QED
    BY <1>14, <1>c, <2>1, <2>2, MovesKeep DEF TermReap
<1>15. ASSUME NEW w \in Porters, FinalWait(w) PROVE PipeCore'
  <2>1. porter[w].child \in Waiting(w) \/ child[porter[w].child].state = "reaped"
    BY <1>15, <1>a, <1>d DEF FinalWait
  <2>2. ChildrenClosed(w)
    BY <1>15, <1>0, <1>a, <2>1, Closes DEF FinalWait
  <2>3. LetsGo(w) /\ parcel' \in [Parcels -> {"queued", "working", "success"}]
    BY <1>15, <1>e DEF FinalWait
  <2>. QED
    BY <1>15, <1>c, <2>2, <2>3, ClosingKeeps DEF FinalWait
<1>16. ASSUME NEW c \in Children, Answers(c) PROVE PipeCore'
  BY <1>16, AnswerKeeps
<1>17. ASSUME NEW c \in Children, Stores(c) PROVE PipeCore'
  <2>1. ChildEnds(c, "ok")
    BY <1>17, <1>0, Dies DEF Stores
  <2>. QED
    BY <1>17, <2>1, EndingKeeps DEF Stores
<1>18. ASSUME NEW c \in Children, Ends(c) PROVE PipeCore'
  <2>1. ChildEnds(c, "bad")
    BY <1>18, <1>0, Dies DEF Ends
  <2>. QED
    BY <1>18, <2>1, EndingKeeps DEF Ends
<1>19. ASSUME NEW p \in Pids, Stranger(p) PROVE PipeCore'
  BY <1>19, StrangerKeeps
<1>. QED
  BY <1>1, <1>2, <1>3, <1>4, <1>5, <1>6, <1>7, <1>8, <1>9, <1>10, <1>11, <1>12,
     <1>13, <1>14, <1>15, <1>16, <1>17, <1>18, <1>19
     DEF PipeNext, Carry

\* What a step reports as delivered has been stored, or a worker has waited for
\* another one's child.
LEMMA DeliveredKept ==
    ASSUME PipeCore, DeliveredIsStored, PipeNext
    PROVE  DeliveredIsStored'
<1>. DEFINE Reported == \A m \in Parcels : parcel'[m] = "success" => parcel[m] = "success" \/ m \in stored
<1>0. PipeTypeOK /\ StoredFirst
  BY DEF PipeCore
<1>a. stored \subseteq stored'
  <2>1. stored' = stored \/ \E c \in Children : Answers(c) \/ Stores(c)
    BY DEF PipeNext, Carry, StartParcel, BeginChild, BeginAgain, Open, OpenChildFails, HandOver, ReadReply,
       CloseInput, WaitOver, WaitTimesOut, SendTerm, TermReap, TermGone, SendKill, FinalWait, Signal, Ends,
       Stranger
  <2>. QED
    BY <2>1 DEF Answers, Stores
<1>b. stolen => stolen'
  <2>1. stolen' = stolen \/ \E w \in Porters : Steals(w)
    BY DEF PipeNext, Carry, StartParcel, BeginChild, BeginAgain, Open, OpenChildFails, HandOver, ReadReply,
       CloseInput, WaitOver, WaitTimesOut, SendTerm, TermReap, TermGone, SendKill, FinalWait, Signal, Ends,
       Stranger, Answers, Stores, pipeGhosts
  <2>. QED
    BY <2>1 DEF Steals
<1>2. ASSUME NEW w \in Porters, NEW status, Finish(w, status), status = "success" => porter[w].mail \in stored
      PROVE  Reported
  BY <1>0, <1>2 DEF Finish, PipeTypeOK
<1>3. ASSUME UNCHANGED parcel PROVE Reported
  BY <1>3
<1>4. ASSUME NEW w \in Porters, NEW how, ChildClosed(w, how), how = "ok" => porter[w].mail \in stored
      PROVE  Reported
  <2>. HIDE DEF Reported
  <2>. QED
    BY <1>2, <1>3, <1>4 DEF ChildClosed, StatusOf
<1>5. ASSUME NEW w \in Porters, StartParcel(w) PROVE Reported
  BY <1>0, <1>5 DEF StartParcel, PipeTypeOK
<1>6. ASSUME NEW w \in Porters, OpenChildFails(w) PROVE Reported
  <2>. HIDE DEF Reported
  <2>. QED
    BY <1>2, <1>6 DEF OpenChildFails
<1>7. ASSUME NEW w \in Porters, ReadReply(w) PROVE Reported
  <2>. HIDE DEF Reported
  <2>. QED
    BY <1>0, <1>2, <1>3, <1>7 DEF ReadReply, StoredFirst
<1>8. ASSUME NEW w \in Porters, WaitOver(w), ~stolen' PROVE Reported
  <2>1. PICK c \in Waiting(w) : ChildClosed(w, child[c].state)
    BY <1>8 DEF WaitOver
  <2>2. c = porter[w].child
    BY <1>8, <2>1 DEF WaitOver, Steals
  <2>3. child[c].state = "ok" => porter[w].mail \in stored
    BY <1>0, <1>8, <2>2 DEF StoredFirst, WaitOver
  <2>. HIDE DEF Reported
  <2>. QED
    BY <1>4, <2>1, <2>3
<1>9. ASSUME NEW w \in Porters, FinalWait(w) PROVE Reported
  <2>. HIDE DEF Reported
  <2>. QED
    BY <1>4, <1>9 DEF FinalWait
<1>10. ASSUME ~stolen' PROVE Reported
  <2>1. CASE UNCHANGED parcel
    BY <1>3, <2>1
  <2>2. CASE ~UNCHANGED parcel
    <3>. HIDE DEF Reported
    <3>1. \/ \E w \in Porters : StartParcel(w) \/ OpenChildFails(w) \/ ReadReply(w) \/ WaitOver(w) \/ FinalWait(w)
      BY <2>2 DEF PipeNext, Carry, BeginChild, BeginAgain, Open, HandOver, CloseInput, WaitTimesOut, SendTerm,
         TermReap, TermGone, SendKill, Signal, Answers, Stores, Ends, Stranger
    <3>. QED
      BY <1>5, <1>6, <1>7, <1>8, <1>9, <1>10, <3>1
  <2>. QED
    BY <2>1, <2>2
<1>. QED
  BY <1>a, <1>b, <1>10 DEF DeliveredIsStored

\* A signal that hits another process is for a child that has been waited for, and
\* Close removes the child when it waits.
LEMMA StrayKept ==
    ASSUME PipeCore, StraySignals, PipeNext
    PROVE  StraySignals'
<1>1. ASSUME NEW w \in Porters, porter[w].at \in {"signal", "term"}, NEW deadly, Signal(w, deadly)
      PROVE  stray' \subseteq {"isRunning", "term", "other"}
  <2>. DEFINE c == porter[w].child
              hit == {d \in Holder(PidOf(w)) : Running(d)}
  <2>1. c \in Children /\ (c \in Holder(PidOf(w)) \/ child[c].state = "reaped")
    BY <1>1, ChildOfWorker
  <2>2. PidOf(w) \in strangers \/ hit \ {c} # {} => c \notin Holder(PidOf(w))
    BY <2>1 DEF PipeCore, PidsUnique, Holder, PidOf
  <2>3. child[c].state = "reaped" => child[c].by \in {"isRunning", "term", "other"}
    BY <2>1 DEF PipeCore, PidsUnique, PipeTypeOK, Processes
  <2>. QED
    BY <1>1, <2>1, <2>2, <2>3 DEF Signal, StraySignals
<1>2. stray' = stray \/ \E w \in Porters : SendTerm(w) \/ SendKill(w)
  BY DEF PipeNext, Carry, StartParcel, BeginChild, BeginAgain, Open, OpenChildFails, HandOver, ReadReply,
     CloseInput, WaitOver, WaitTimesOut, TermReap, TermGone, FinalWait, Answers, Stores, Ends, Stranger,
     pipeGhosts
<1>. QED
  BY <1>1, <1>2 DEF SendTerm, SendKill, StraySignals

\* What holds of local delivery in every state.
PipeInv == PipeCore /\ DeliveredIsStored /\ StraySignals

\* PipeInv is an invariant of local delivery.
LEMMA PipeInvariant == Spec => []PipeInv
<1>1. Init => PipeInv
  <2>. SUFFICES ASSUME Init PROVE PipeInv
    OBVIOUS
  <2>. USE PipeAssumption DEF Init, PipeInit
  <2>1. AtRest \in Posts /\ NoProcess \in Processes /\ AtRest.at = "free" /\ AtRest.child = NoChild
        /\ NoProcess.state = "none"
    BY DEF AtRest, Posts, NoProcess, Processes
  <2>2. /\ \A w \in Porters : porter[w] = AtRest
        /\ \A c \in Children : child[c] = NoProcess
        /\ idle = <<>> /\ Members(idle) = {} /\ Distinct(idle)
    BY DEF Members, Distinct
  <2>3. PipeTypeOK
    <3>1. /\ parcel \in [Parcels -> {"queued", "working", "success"}] /\ porter \in [Porters -> Posts]
          /\ child \in [Children -> Processes]
      BY <2>1
    <3>2. idle \in Seq(Children) /\ strangers \subseteq Pids
      OBVIOUS
    <3>3. keepAlive \in BOOLEAN
      OBVIOUS
    <3>4. stolen \in BOOLEAN
      OBVIOUS
    <3>. QED
      BY <3>1, <3>2, <3>3, <3>4 DEF PipeTypeOK
  <2>4. ChildOwned
    BY <2>1, <2>2 DEF ChildOwned, HasOwner
  <2>5. PidsUnique /\ StoredFirst
    BY <2>1, <2>2 DEF PidsUnique, StoredFirst, Running, Zombie
  <2>6. DeliveredIsStored /\ StraySignals
    BY DEF DeliveredIsStored, StraySignals
  <2>. QED
    BY <2>3, <2>4, <2>5, <2>6 DEF PipeInv, PipeCore
<1>2. PipeInv /\ [Next]_vars => PipeInv'
  <2>. SUFFICES ASSUME PipeInv, [Next]_vars PROVE PipeInv'
    OBVIOUS
  <2>1. CASE PipeNext
    BY <2>1, PipeCoreKept, DeliveredKept, StrayKept DEF PipeInv
  <2>2. CASE UNCHANGED pipeVars
    <3>. USE <2>2 DEF pipeVars, pipeConfig, pipeGhosts, PipeInv, PipeCore
    <3>1. PipeTypeOK'
      BY DEF PipeTypeOK
    <3>2. ChildOwned'
      BY DEF ChildOwned, HasOwner
    <3>3. PidsUnique'
      BY DEF PidsUnique, Running, Zombie
    <3>4. StoredFirst'
      BY DEF StoredFirst
    <3>5. DeliveredIsStored' /\ StraySignals'
      BY DEF DeliveredIsStored, StraySignals
    <3>. QED
      BY <3>1, <3>2, <3>3, <3>4, <3>5
  <2>. QED
    BY <2>1, <2>2 DEF Next, vars
<1>. QED
  BY <1>1, <1>2, PTL DEF Spec

\* A message is only reported delivered if a child has stored it, as long as no
\* worker has waited for a pid that had passed to another worker's child.
THEOREM DeliveryIsStored == Spec => []DeliveredIsStored
BY PipeInvariant, PTL DEF PipeInv

\* Whatever a child does, it stays with one worker or in the pool until somebody
\* has waited for it.
THEOREM DeliveryNoZombieLeft == Spec => []NoZombieLeft
<1>1. PipeInv => NoZombieLeft
  BY DEF PipeInv, PipeCore, ChildOwned, HasOwner, NoZombieLeft, Owned, Members
<1>. QED
  BY <1>1, PipeInvariant, PTL

\* kill() only reaches a stranger after IsRunning, the loop after SIGTERM or
\* another worker took the child, never after Close did.
THEOREM DeliveryStraySignals == Spec => []StraySignals
BY PipeInvariant, PTL DEF PipeInv

-----------------------------------------------------------------------------
(***************************************************************************)
(* SMTP.                                                                   *)
(***************************************************************************)

Commands == {"mail", "rcpt", "data", "dot"}

Steps == {"free", "get", "begin", "rset", "putBack", "gone"} \cup Commands

Codes == {"250", "354", "4xx", "5xx"}

Answer == [code : Codes, about : Mails]

Links == [open : BOOLEAN, mode : {"idle", "mail", "rcpt", "data"}, to : SUBSET Mails, pure : BOOLEAN,
          answers : Seq(Answer)]

SessionObjects == [active : BOOLEAN, dirty : BOOLEAN, link : Links]

Workers == [at : Steps, mail : Mails \cup {"none"}, sess : Sessions \cup {NoSession}, mx : Nat]

SmtpTypeOK ==
    /\ mail \in [Mails -> {"queued", "working", "success", "failed"}]
    /\ sender \in [Senders -> Workers]
    /\ sess \in [Sessions -> SessionObjects]
    /\ pool \in Seq(Sessions) /\ poolLock \in Sessions \cup {NoSession}
    /\ lag \in Nat

\* A worker has a session, and a message, where it uses them; every session has
\* one owner.
SessionHeld ==
    /\ \A w \in Senders : sender[w].sess = NoSession <=> sender[w].at \in {"free", "get", "gone"}
    /\ \A w \in Senders : sender[w].at \notin {"free", "gone"} => sender[w].mail \in Mails
    /\ \A v, w \in Senders : v # w /\ sender[v].sess # NoSession => sender[v].sess # sender[w].sess
    /\ \A w \in Senders : sender[w].sess \notin Members(pool)
    /\ \A w \in Senders : sender[w].sess # NoSession => sender[w].sess # poolLock
    /\ poolLock \notin Members(pool) /\ Distinct(pool)

Link(w) == sess[sender[w].sess].link

\* A session that need not be reset: nothing has been sent since it was.
Clean(l) == l.answers = <<>> /\ l.mode = "idle" /\ l.to = {} /\ l.pure

\* A session before its first command for a message.
Rested(s) ==
    /\ Len(sess[s].link.answers) <= lag
    /\ ~sess[s].dirty => Clean(sess[s].link)

SessionOK(s) ==
    /\ ~sess[s].active => sess[s] = NewSession
    /\ ~sess[s].link.open => sess[s].link.mode = "idle"

\* The server is where the worker takes it to be.
InStep(l, at, m) ==
    /\ l.open /\ l.pure
    /\ <<at, l.mode>> \in {<<"mail", "idle">>, <<"rcpt", "mail">>, <<"data", "rcpt">>, <<"dot", "data">>}
    /\ l.to = IF at \in {"data", "dot"} THEN {m} ELSE {}

\* The place in the queue of answers of what the worker will read after DATA.
Until == [rset |-> 4, mail |-> 3, rcpt |-> 2, data |-> 1]

\* With no answer on its way the worker and the server are in step, or DATA will
\* not be answered; else what will be read after DATA is no 354, as at most three
\* answers were ahead of those to the worker's own commands.
OrderOK(l, at, m) ==
    /\ l.answers = <<>> => \/ ~l.open
                           \/ InStep(l, at, m)
                           \/ l.mode = "data" /\ at # "dot"
    /\ at = "dot" => l.answers = <<>>
    /\ at # "dot" /\ Len(l.answers) >= Until[at] => l.answers[Until[at]].code # "354"

WorkerOK(w) ==
    /\ sender[w].at \in {"begin", "rset"} => Rested(sender[w].sess)
    /\ sender[w].at \in Commands \cup {"rset", "putBack"} => sess[sender[w].sess].active
    /\ sender[w].at = "putBack" /\ ~sess[sender[w].sess].dirty => Clean(Link(w))
    /\ lag < 4 /\ sender[w].at \in Commands => OrderOK(Link(w), sender[w].at, sender[w].mail)
    /\ lag < 2 /\ sender[w].at \in Commands =>
          \A i \in DOMAIN Link(w).answers : Link(w).answers[i].about = sender[w].mail

SessionsOK ==
    /\ \A s \in Sessions : SessionOK(s) /\ (s \notin Live => sess[s] = NewSession)
    /\ \A s \in Members(pool) : Rested(s) /\ sess[s].active
    /\ \A w \in Senders : WorkerOK(w)

SmtpCore == SmtpTypeOK /\ SessionHeld /\ SessionsOK

-----------------------------------------------------------------------------
\* Sequences without repetition: one is taken out, ...
LEMMA RemoveMember ==
    ASSUME NEW S, NEW q \in Seq(S), NEW k \in DOMAIN q, Distinct(q)
    PROVE  LET r == SubSeq(q, 1, k - 1) \o SubSeq(q, k + 1, Len(q))
           IN  r \in Seq(S) /\ Distinct(r) /\ Members(r) = Members(q) \ {q[k]}
<1>. PICK n \in Nat : n = Len(q) /\ DOMAIN q = 1..n
  OBVIOUS
<1>. DEFINE a == SubSeq(q, 1, k - 1)
            b == SubSeq(q, k + 1, n)
            r == a \o b
<1>0. k \in 1..n /\ k \in Int /\ n \in Int /\ 1 <= k /\ k <= n /\ k - 1 \in Int /\ k + 1 \in Int
  OBVIOUS
<1>1. \A i \in 1..n : q[i] \in S
  OBVIOUS
<1>2. a \in Seq(S) /\ Len(a) = k - 1 /\ \A i \in 1..(k - 1) : a[i] = q[i]
  <2>1. \A i \in 1..(k - 1) : q[i] \in S
    BY <1>0, <1>1
  <2>. QED
    BY <1>0, <2>1, SubSeqProperties
<1>3. b \in Seq(S) /\ Len(b) = n - k /\ \A i \in 1..(n - k) : b[i] = q[k + i]
  <2>1. \A i \in (k + 1)..n : q[i] \in S
    BY <1>0, <1>1
  <2>. QED
    BY <1>0, <2>1, SubSeqProperties
<1>4. SubSeq(q, 1, k - 1) \o SubSeq(q, k + 1, Len(q)) = r
  OBVIOUS
<1>. HIDE DEF a, b
<1>5. /\ r \in Seq(S) /\ Len(r) = Len(a) + Len(b)
      /\ \A i \in 1..(Len(a) + Len(b)) : r[i] = IF i <= Len(a) THEN a[i] ELSE b[i - Len(a)]
  <2>1. a \in Seq(S) /\ b \in Seq(S)
    BY <1>2, <1>3
  <2>2. /\ a \o b \in Seq(S) /\ Len(a \o b) = Len(a) + Len(b)
        /\ \A i \in 1..(Len(a) + Len(b)) : (a \o b)[i] = IF i <= Len(a) THEN a[i] ELSE b[i - Len(a)]
    BY <2>1, ConcatProperties
  <2>. QED
    BY <2>2
<1>. HIDE DEF r
<1>6. Len(a) + Len(b) = n - 1
  <2>1. Len(a) = k - 1 /\ Len(b) = n - k
    BY <1>2, <1>3
  <2>2. (k - 1) + (n - k) = n - 1
    BY <1>0
  <2>. QED
    BY <2>1, <2>2
<1>7. ASSUME NEW i \in 1..(n - 1) PROVE r[i] = IF i < k THEN q[i] ELSE q[i + 1]
  <2>0. i \in Int /\ 1 <= i /\ i <= n - 1
    OBVIOUS
  <2>1. r[i] = IF i <= k - 1 THEN a[i] ELSE b[i - (k - 1)]
    BY <1>2, <1>5, <1>6
  <2>2. CASE i < k
    <3>1. i \in 1..(k - 1) /\ i <= k - 1
      BY <1>0, <2>0, <2>2
    <3>. QED
      BY <1>2, <2>1, <2>2, <3>1
  <2>3. CASE ~(i < k)
    <3>1. i - (k - 1) \in 1..(n - k) /\ ~(i <= k - 1) /\ k + (i - (k - 1)) = i + 1
      <4>1. ~(i <= k - 1) /\ k + (i - (k - 1)) = i + 1
        BY <1>0, <2>0, <2>3
      <4>2. i - (k - 1) \in Int /\ 1 <= i - (k - 1) /\ i - (k - 1) <= n - k
        BY <1>0, <2>0, <2>3
      <4>. QED
        BY <1>0, <4>1, <4>2
    <3>2. b[i - (k - 1)] = q[k + (i - (k - 1))]
      BY <1>3, <3>1
    <3>. QED
      BY <2>1, <2>3, <3>1, <3>2
  <2>. QED
    BY <2>2, <2>3
<1>8. /\ r \in Seq(S) /\ Len(r) = n - 1
      /\ \A i \in 1..(n - 1) : r[i] = IF i < k THEN q[i] ELSE q[i + 1]
  BY <1>5, <1>6, <1>7
<1>9. DOMAIN r = 1..(n - 1)
  BY <1>8
<1>10. \A i, j \in 1..n : q[i] = q[j] => i = j
  BY <1>0 DEF Distinct
<1>11. \A i \in 1..(n - 1) : i \in 1..n /\ i + 1 \in 1..n
  BY <1>0
<1>12. Distinct(r)
  <2>. SUFFICES ASSUME NEW i \in 1..(n - 1), NEW j \in 1..(n - 1), r[i] = r[j] PROVE i = j
    BY <1>9 DEF Distinct
  <2>. DEFINE at(h) == IF h < k THEN h ELSE h + 1
  <2>0. at(i) \in 1..n /\ at(j) \in 1..n /\ r[i] = q[at(i)] /\ r[j] = q[at(j)]
    BY <1>8, <1>11
  <2>1. at(i) = at(j)
    BY <1>10, <2>0
  <2>2. i \in Int /\ j \in Int /\ k \in Int
    BY <1>0
  <2>. QED
    BY <2>1, <2>2
<1>13. ASSUME NEW i \in 1..(n - 1) PROVE r[i] \in Members(q) \ {q[k]}
  <2>0. \E j \in 1..n : j # k /\ r[i] = q[j]
    <3>1. CASE i < k
      <4>1. i # k /\ i \in 1..n /\ r[i] = q[i]
        BY <1>0, <1>8, <1>11, <3>1
      <4>. QED
        BY <4>1
    <3>2. CASE ~(i < k)
      <4>1. i + 1 # k
        BY <1>0, <3>2
      <4>. QED
        BY <1>8, <1>11, <3>2, <4>1
    <3>. QED
      BY <3>1, <3>2
  <2>1. PICK j \in 1..n : j # k /\ r[i] = q[j]
    BY <2>0
  <2>. QED
    BY <1>0, <1>10, <2>1 DEF Members
<1>14. ASSUME NEW i \in 1..n, i # k PROVE q[i] \in Members(r)
  <2>1. PICK j \in 1..(n - 1) : i = IF j < k THEN j ELSE j + 1
    <3>1. CASE i < k
      <4>1. i \in 1..(n - 1)
        BY <1>0, <3>1
      <4>. QED
        BY <3>1, <4>1
    <3>2. CASE i > k
      <4>1. i - 1 \in 1..(n - 1) /\ ~(i - 1 < k) /\ (i - 1) + 1 = i
        BY <1>0, <3>2
      <4>. QED
        BY <4>1
    <3>. QED
      BY <1>0, <1>14, <3>1, <3>2
  <2>2. r[j] = q[i]
    BY <1>8, <2>1
  <2>. QED
    BY <1>9, <2>2 DEF Members
<1>15. Members(r) = Members(q) \ {q[k]}
  BY <1>0, <1>9, <1>13, <1>14 DEF Members
<1>. QED
  BY <1>4, <1>8, <1>12, <1>15

\* ... and they are as long as they have members.
LEMMA CountMembers ==
    ASSUME NEW S, NEW q \in Seq(S), Distinct(q)
    PROVE  Cardinality(Members(q)) = Len(q)
<1>1. Len(q) \in Nat /\ DOMAIN q = 1..Len(q) /\ q \in [1..Len(q) -> S]
  BY LenProperties
<1>2. q \in [1..Len(q) -> Members(q)]
  BY <1>1 DEF Members
<1>3. q \in Bijection(1..Len(q), Members(q))
  <2>1. q \in Injection(1..Len(q), Members(q))
    BY <1>1, <1>2 DEF Distinct, Injection, IsInjective
  <2>2. q \in Surjection(1..Len(q), Members(q))
    BY <1>1, <1>2 DEF Members, Surjection
  <2>. QED
    BY <2>1, <2>2 DEF Bijection
<1>4. ExistsBijection(1..Len(q), Members(q))
  BY <1>3 DEF ExistsBijection
<1>5. IsFiniteSet(1..Len(q)) /\ Cardinality(1..Len(q)) = Len(q)
  <2>. DEFINE n == Len(q)
  <2>1. n \in Nat
    BY <1>1
  <2>. HIDE DEF n
  <2>2. 1 \in Int /\ n \in Int /\ IsFiniteSet(1..n) /\ Cardinality(1..n) = IF 1 > n THEN 0 ELSE n - 1 + 1
    BY <2>1, FS_Interval
  <2>3. Cardinality(1..n) = n
    BY <2>1, <2>2
  <2>. QED
    BY <2>2, <2>3 DEF n
<1>. QED
  BY <1>4, <1>5, FS_Bijection

-----------------------------------------------------------------------------
\* Commands and answers.

\* x answers command for message m.
AnsweredBy(command, m, x) == x \in Answer /\ x.about = m /\ (x.code = "354" => command = "data")

\* The same but for the answers on their way.
SameLink(l, k) == l.mode = k.mode /\ l.to = k.to /\ l.pure = k.pure

\* What a server may make of a connection.
LEMMA ServedTypes ==
    ASSUME NEW l0 \in Links, NEW command \in Commands \cup {"rset"}, NEW m \in Mails, l0.open,
           NEW l \in Served(l0, command, m)
    PROVE  \/ l = NoLink
           \/ /\ l0.mode = "data" /\ command # "dot" /\ l = [l0 EXCEPT !.pure = FALSE]
           \/ /\ l0.mode = "data" => command = "dot"
              /\ InOrder(l0.mode, command) /\ l = Accepted(l0, command, m)
           \/ /\ l0.mode = "data" => command = "dot"
              /\ command # "rset"
              /\ \E c \in {"4xx", "5xx"} : l = Answered(l0, c, m) \/ l = Answered(Ended(l0), c, m)
<1>1. CASE l0.mode = "data" /\ command # "dot"
  BY <1>1 DEF Served
<1>2. CASE l0.mode # "data" /\ ~InOrder(l0.mode, command)
  BY <1>2 DEF Served, InOrder
<1>3. CASE (l0.mode = "data" => command = "dot") /\ InOrder(l0.mode, command)
  <2>1. l \in {NoLink, Accepted(l0, command, m)}
          \cup {Refused(l0, command, c, m) : c \in IF command = "rset" THEN {} ELSE Refusals}
    BY <1>3 DEF Served
  <2>. QED
    BY <1>3, <2>1, SmtpAssumption DEF Refused
<1>4. l0.mode = "data" /\ command = "dot" => InOrder(l0.mode, command)
  BY DEF InOrder
<1>. QED
  BY <1>1, <1>2, <1>3, <1>4

\* What the server's connection is once the command has been sent.
Sent(l0, command, m, l) ==
    \/ l = NoLink
    \/ /\ l0.mode = "data" /\ command # "dot"
       /\ l.open /\ l.mode = l0.mode /\ l.answers = l0.answers
    \/ \E x \in Answer :
          /\ l0.mode = "data" => command = "dot"
          /\ AnsweredBy(command, m, x)
          /\ l.open /\ l.answers = Append(l0.answers, x)
          /\ x.code \in {"250", "354"} => InOrder(l0.mode, command) /\ SameLink(l, Accepted(l0, command, m))
          /\ command = "rset" => x.code = "250"
          /\ x.code = "250" => l = Accepted(l0, command, m)

\* An answer is added to those on their way.
LEMMA AddsAnswer ==
    ASSUME NEW l0 \in Links, NEW m \in Mails, NEW c \in Codes
    PROVE  /\ [code |-> c, about |-> m] \in Answer
           /\ Answered(l0, c, m) \in Links /\ SameLink(Answered(l0, c, m), l0)
           /\ Answered(l0, c, m).open = l0.open
           /\ Answered(l0, c, m).answers = Append(l0.answers, [code |-> c, about |-> m])
<1>1. [code |-> c, about |-> m] \in Answer
  BY DEF Answer
<1>2. l0.answers \in Seq(Answer)
  BY DEF Links
<1>3. Append(l0.answers, [code |-> c, about |-> m]) \in Seq(Answer)
  BY <1>1, <1>2
<1>. QED
  BY <1>1, <1>3 DEF Links, Answered, SameLink

\* A transaction ends.
LEMMA EndsLink ==
    ASSUME NEW l0 \in Links
    PROVE  /\ Ended(l0) \in Links /\ Ended(l0).answers = l0.answers /\ Ended(l0).open = l0.open
           /\ Ended(l0).mode = "idle" /\ Ended(l0).to = {} /\ Ended(l0).pure
BY DEF Ended, Links

\* Sequences of answers have a length.
LEMMA AnswersCounted == \A l \in Links : l.answers \in Seq(Answer) /\ Len(l.answers) \in Nat
<1>. SUFFICES ASSUME NEW l \in Links PROVE l.answers \in Seq(Answer) /\ Len(l.answers) \in Nat
  OBVIOUS
<1>1. l.answers \in Seq(Answer)
  BY DEF Links
<1>. QED
  BY <1>1

\* Nothing is on its way without a connection.
LEMMA NoLinkTypes == NoLink \in Links /\ NoLink.answers = <<>> /\ ~NoLink.open /\ NoLink.mode = "idle"
BY DEF NoLink, Links

\* What an accepted command leaves.
Leaves(l0, command, m, l) ==
    /\ l \in Links /\ l.open
    /\ l.answers = Append(l0.answers, [code |-> IF command = "data" THEN "354" ELSE "250", about |-> m])
    /\ command \in {"rset", "dot"} => l.mode = "idle" /\ l.to = {} /\ l.pure
    /\ command \notin {"rset", "dot"} => l.mode = command /\ l.pure = l0.pure
    /\ command \in {"mail", "data"} => l.to = l0.to
    /\ command = "rcpt" => l.to = l0.to \cup {m}

\* What a command does that the server accepts.
LEMMA AcceptedLink ==
    ASSUME NEW l0 \in Links, NEW command \in Commands \cup {"rset"}, NEW m \in Mails, l0.open
    PROVE  Leaves(l0, command, m, Accepted(l0, command, m))
<1>. USE DEF Leaves
<1>0. {"250", "354"} \subseteq Codes
  BY DEF Codes
<1>1. CASE command \in {"rset", "dot"}
  <2>1. Accepted(l0, command, m) = Answered(Ended(l0), "250", m)
    BY <1>1 DEF Accepted
  <2>. QED
    BY <1>0, <1>1, <2>1, EndsLink, AddsAnswer DEF SameLink
<1>2. CASE command = "mail"
  <2>. DEFINE k == [l0 EXCEPT !.mode = "mail"]
  <2>1. k \in Links /\ k.open /\ k.mode = "mail" /\ k.to = l0.to /\ k.pure = l0.pure
        /\ k.answers = l0.answers
    BY DEF Links
  <2>2. Accepted(l0, command, m) = Answered(k, "250", m)
    BY <1>2 DEF Accepted
  <2>. HIDE DEF k
  <2>. QED
    BY <1>0, <1>2, <2>1, <2>2, AddsAnswer DEF SameLink
<1>3. CASE command = "rcpt"
  <2>. DEFINE k == [l0 EXCEPT !.mode = "rcpt", !.to = @ \cup {m}]
  <2>1. k \in Links /\ k.open /\ k.mode = "rcpt" /\ k.to = l0.to \cup {m} /\ k.pure = l0.pure
        /\ k.answers = l0.answers
    BY DEF Links
  <2>2. Accepted(l0, command, m) = Answered(k, "250", m)
    BY <1>3 DEF Accepted
  <2>. HIDE DEF k
  <2>. QED
    BY <1>0, <1>3, <2>1, <2>2, AddsAnswer DEF SameLink
<1>4. CASE command = "data"
  <2>. DEFINE k == [l0 EXCEPT !.mode = "data"]
  <2>1. k \in Links /\ k.open /\ k.mode = "data" /\ k.to = l0.to /\ k.pure = l0.pure
        /\ k.answers = l0.answers
    BY DEF Links
  <2>2. Accepted(l0, command, m) = Answered(k, "354", m)
    BY <1>4 DEF Accepted
  <2>. HIDE DEF k
  <2>. QED
    BY <1>0, <1>4, <2>1, <2>2, AddsAnswer DEF SameLink
<1>. QED
  BY <1>1, <1>2, <1>3, <1>4 DEF Commands

\* All a server may do is what Sent says.
LEMMA ServedSends ==
    ASSUME NEW l0 \in Links, NEW command \in Commands \cup {"rset"}, NEW m \in Mails, l0.open,
           NEW l \in Served(l0, command, m)
    PROVE  l \in Links /\ Sent(l0, command, m, l)
<1>1. CASE l = NoLink
  BY <1>1, NoLinkTypes DEF Sent
<1>2. CASE l0.mode = "data" /\ command # "dot" /\ l = [l0 EXCEPT !.pure = FALSE]
  <2>1. l \in Links /\ l.open /\ l.mode = l0.mode /\ l.answers = l0.answers
    BY <1>2 DEF Links
  <2>. QED
    BY <1>2, <2>1 DEF Sent
<1>3. CASE /\ l0.mode = "data" => command = "dot"
           /\ InOrder(l0.mode, command) /\ l = Accepted(l0, command, m)
  <2>. DEFINE c == IF command = "data" THEN "354" ELSE "250"
              x == [code |-> c, about |-> m]
  <2>1. c \in Codes /\ x \in Answer /\ x.code = c /\ x.about = m
    BY DEF Answer, Codes
  <2>2. l \in Links /\ l.open /\ l.answers = Append(l0.answers, x)
    <3>1. Leaves(l0, command, m, l)
      BY <1>3, AcceptedLink
    <3>. QED
      BY <3>1 DEF Leaves
  <2>3. AnsweredBy(command, m, x) /\ (command = "rset" => x.code = "250")
    BY <2>1 DEF AnsweredBy
  <2>4. SameLink(l, Accepted(l0, command, m))
    BY <1>3 DEF SameLink
  <2>. HIDE DEF x
  <2>. QED
    BY <1>3, <2>1, <2>2, <2>3, <2>4 DEF Sent
<1>4. ASSUME l0.mode = "data" => command = "dot", command # "rset", NEW c \in {"4xx", "5xx"},
             l = Answered(l0, c, m) \/ l = Answered(Ended(l0), c, m)
      PROVE  l \in Links /\ Sent(l0, command, m, l)
  <2>. DEFINE x == [code |-> c, about |-> m]
  <2>1. c \in Codes /\ x \in Answer /\ x.code = c /\ x.about = m
    BY DEF Answer, Codes
  <2>2. l \in Links /\ l.open /\ l.answers = Append(l0.answers, x)
    BY <1>4, <2>1, AddsAnswer, EndsLink
  <2>3. AnsweredBy(command, m, x) /\ x.code \notin {"250", "354"}
    BY <2>1 DEF AnsweredBy
  <2>. HIDE DEF x
  <2>. QED
    BY <1>4, <2>1, <2>2, <2>3 DEF Sent
<1>. QED
  BY <1>1, <1>2, <1>3, <1>4, ServedTypes

\* After a command on l0, the answer r has been read and the connection is l1:
\* the server answered nothing, ...
Ignored(l0, command, l1, r) ==
    /\ ~l0.open \/ (l0.mode = "data" /\ command # "dot")
    /\ l0.answers # <<>>
    /\ r.code = Head(l0.answers).code /\ r.about = Head(l0.answers).about
    /\ l1.answers = Tail(l0.answers)
    /\ l1.open => l0.open /\ l1.mode = l0.mode

\* ... or x.
Replied(l0, command, m, l1, r, x) ==
    /\ l0.open /\ (l0.mode = "data" => command = "dot")
    /\ AnsweredBy(command, m, x)
    /\ r.code = Head(Append(l0.answers, x)).code /\ r.about = Head(Append(l0.answers, x)).about
    /\ l1.answers = Tail(Append(l0.answers, x))
    /\ x.code \in {"250", "354"} =>
          /\ InOrder(l0.mode, command)
          /\ l1.open => SameLink(l1, Accepted(l0, command, m))
    /\ command = "rset" => x.code = "250"

\* A connection that does not go on has the same answers or none.
LEMMA KeptLink ==
    ASSUME NEW k \in Links, NEW l \in Kept(k)
    PROVE  /\ l \in Links
           /\ l.answers = k.answers \/ l.answers = <<>>
           /\ l.open => l = k
<1>1. k.answers \in Seq(Answer)
  BY DEF Links
<1>. DEFINE closed == [NoLink EXCEPT !.answers = k.answers]
<1>2. closed \in Links /\ closed.answers = k.answers /\ ~closed.open
  BY <1>1, NoLinkTypes DEF NoLink, Links
<1>3. l \in {k, closed, NoLink}
  BY DEF Kept
<1>. HIDE DEF closed
<1>. QED
  BY <1>2, <1>3, NoLinkTypes

\* An answer that is read is the first one.
LEMMA ReadsAnswer ==
    ASSUME NEW l \in Links, NEW r \in Reads(l)
    PROVE  /\ r.late \in {0, 1} /\ r.left \in Seq(Answer)
           /\ r.code # "none" => /\ l.answers # <<>> /\ r.left = Tail(l.answers)
                                 /\ r.code = Head(l.answers).code /\ r.about = Head(l.answers).about
<1>1. l.answers \in Seq(Answer)
  BY DEF Links
<1>2. CASE l.answers = <<>>
  BY <1>1, <1>2 DEF Reads
<1>3. CASE l.answers # <<>>
  <2>1. \/ r = [code |-> "none", about |-> "nobody", left |-> l.answers, late |-> 1]
        \/ r = [code |-> Head(l.answers).code, about |-> Head(l.answers).about,
                left |-> Tail(l.answers), late |-> 0]
    BY <1>3 DEF Reads
  <2>2. Tail(l.answers) \in Seq(Answer)
    BY <1>1, <1>3
  <2>. DEFINE first == Head(l.answers)
              rest == Tail(l.answers)
  <2>3. rest \in Seq(Answer) /\ l.answers \in Seq(Answer)
        /\ (\/ r = [code |-> "none", about |-> "nobody", left |-> l.answers, late |-> 1]
            \/ r = [code |-> first.code, about |-> first.about, left |-> rest, late |-> 0])
    BY <1>1, <2>1, <2>2
  <2>. HIDE DEF first, rest
  <2>4. /\ r.late \in {0, 1} /\ r.left \in Seq(Answer)
        /\ r.code # "none" => r.left = rest /\ r.code = first.code /\ r.about = first.about
    BY <2>3
  <2>. QED
    BY <1>3, <2>4 DEF first, rest
<1>. QED
  BY <1>2, <1>3

\* The exchange of a command, of which the server makes served, and an answer.
Carried(l0, command, m, served, l1, r) ==
    /\ l1 \in Links /\ (~l1.open => l1.mode = "idle")
    /\ r.code # "none" => \/ Ignored(l0, command, l1, r)
                          \/ \E x \in Answer : /\ Replied(l0, command, m, l1, r, x)
                                               /\ x.code = "250" => served = Accepted(l0, command, m)

\* All that can come of a command is what Carried says.
LEMMA Exchanged ==
    ASSUME NEW l0 \in Links, NEW command \in Commands \cup {"rset"}, NEW m \in Mails,
           ~l0.open => l0.mode = "idle",
           NEW served \in IF l0.open THEN Served(l0, command, m) ELSE {l0},
           NEW l \in IF served.open THEN Kept(served) ELSE {served},
           NEW r \in Reads(l), NEW l1, l1 = [l EXCEPT !.answers = r.left]
    PROVE  Carried(l0, command, m, served, l1, r)
<1>1. served \in Links /\ (l0.open => Sent(l0, command, m, served)) /\ (~l0.open => served = l0)
  BY ServedSends
<1>2. /\ l \in Links /\ (l.open => l = served)
      /\ l.answers = served.answers \/ l.answers = <<>>
  BY <1>1, KeptLink
<1>3. ~l.open => l.mode = "idle"
  <2>1. CASE ~l0.open
    BY <1>1, <2>1
  <2>2. CASE l0.open
    BY <1>1, <2>2, NoLinkTypes DEF Kept, Sent, NoLink
  <2>. QED
    BY <2>1, <2>2
<1>4. /\ r.late \in {0, 1} /\ r.left \in Seq(Answer)
      /\ r.code # "none" => /\ l.answers # <<>> /\ r.left = Tail(l.answers)
                            /\ r.code = Head(l.answers).code /\ r.about = Head(l.answers).about
  BY <1>2, ReadsAnswer
<1>5. /\ l1 \in Links /\ l1.open = l.open /\ l1.mode = l.mode /\ l1.to = l.to /\ l1.pure = l.pure
      /\ l1.answers = r.left
  BY <1>2, <1>4 DEF Links
<1>6. ASSUME r.code # "none"
      PROVE  \/ Ignored(l0, command, l1, r)
             \/ \E x \in Answer : /\ Replied(l0, command, m, l1, r, x)
                                  /\ x.code = "250" => served = Accepted(l0, command, m)
  <2>1. /\ l.answers # <<>> /\ l.answers = served.answers /\ l1.answers = Tail(served.answers)
        /\ r.code = Head(served.answers).code /\ r.about = Head(served.answers).about
    BY <1>2, <1>4, <1>5, <1>6
  <2>2. CASE ~l0.open
    BY <1>1, <1>2, <1>5, <2>1, <2>2 DEF Ignored, Kept
  <2>3. CASE l0.open /\ l0.mode = "data" /\ command # "dot" /\ served.answers = l0.answers
             /\ served.mode = l0.mode
    BY <1>2, <1>5, <2>1, <2>3 DEF Ignored
  <2>4. ASSUME l0.open, NEW x \in Answer, l0.mode = "data" => command = "dot",
               AnsweredBy(command, m, x), served.answers = Append(l0.answers, x),
               x.code \in {"250", "354"} => /\ InOrder(l0.mode, command)
                                            /\ SameLink(served, Accepted(l0, command, m)),
               command = "rset" => x.code = "250",
               x.code = "250" => served = Accepted(l0, command, m)
        PROVE  \E y \in Answer : /\ Replied(l0, command, m, l1, r, y)
                                 /\ y.code = "250" => served = Accepted(l0, command, m)
    <3>1. l1.open => SameLink(l1, served)
      BY <1>2, <1>5 DEF SameLink
    <3>2. Replied(l0, command, m, l1, r, x)
      BY <2>1, <2>4, <3>1 DEF Replied, SameLink
    <3>. QED
      BY <2>4, <3>2
  <2>. QED
    BY <1>1, <2>1, <2>2, <2>3, <2>4, NoLinkTypes DEF Sent
<1>. QED
  BY <1>3, <1>4, <1>5, <1>6 DEF Carried
-----------------------------------------------------------------------------
\* The order of the answers.
LEMMA AnswersLeft ==
    ASSUME NEW q \in Seq(Answer), q # <<>>
    PROVE  /\ Head(q) = q[1] /\ Len(Tail(q)) = Len(q) - 1
           /\ \A i \in 1..(Len(q) - 1) : Tail(q)[i] = q[i + 1]
           /\ Tail(q) \in Seq(Answer)
<1>1. Head(q) = q[1]
  OBVIOUS
<1>2. Tail(q) \in Seq(Answer) /\ Len(Tail(q)) = Len(q) - 1
  OBVIOUS
<1>3. \A i \in 1..(Len(q) - 1) : Tail(q)[i] = q[i + 1]
  OBVIOUS
<1>. QED
  BY <1>1, <1>2, <1>3

\* One more answer comes and the first one is read.
LEMMA AnswersAfter ==
    ASSUME NEW q \in Seq(Answer), NEW x \in Answer
    PROVE  LET rest == Tail(Append(q, x))
           IN  /\ Head(Append(q, x)) = IF q = <<>> THEN x ELSE Head(q)
               /\ rest \in Seq(Answer) /\ Len(rest) = Len(q)
               /\ \A i \in 1..Len(q) : rest[i] = IF i = Len(q) THEN x ELSE q[i + 1]
<1>1. /\ Append(q, x) \in Seq(Answer) /\ Append(q, x) # <<>> /\ Len(Append(q, x)) = Len(q) + 1
      /\ \A i \in 1..(Len(q) + 1) : Append(q, x)[i] = IF i = Len(q) + 1 THEN x ELSE q[i]
  <2>1. Append(q, x) \in Seq(Answer) /\ Len(Append(q, x)) = Len(q) + 1
    OBVIOUS
  <2>2. ASSUME NEW all, all = <<>>, Len(all) = Len(q) + 1 PROVE FALSE
    <3>1. Len(q) \in Nat /\ Len(all) = 0
      BY <2>2
    <3>. QED
      BY <2>2, <3>1
  <2>3. \A i \in 1..(Len(q) + 1) : Append(q, x)[i] = IF i = Len(q) + 1 THEN x ELSE q[i]
    OBVIOUS
  <2>. QED
    BY <2>1, <2>2, <2>3
<1>2. Len(q) \in Nat /\ (q = <<>> <=> Len(q) = 0) /\ (q # <<>> => Head(q) = q[1])
  OBVIOUS
<1>. DEFINE all == Append(q, x)
            rest == Tail(all)
<1>3. /\ Head(all) = all[1] /\ Len(rest) = Len(all) - 1 /\ rest \in Seq(Answer)
      /\ \A i \in 1..(Len(all) - 1) : rest[i] = all[i + 1]
  BY <1>1, AnswersLeft
<1>. HIDE DEF all, rest
<1>4. Head(all) = IF q = <<>> THEN x ELSE Head(q)
  BY <1>1, <1>2, <1>3 DEF all
<1>5. Len(rest) = Len(q) /\ Len(all) - 1 = Len(q)
  BY <1>1, <1>2, <1>3 DEF all
<1>6. ASSUME NEW i \in 1..Len(q) PROVE rest[i] = IF i = Len(q) THEN x ELSE q[i + 1]
  <2>1. rest[i] = all[i + 1]
    BY <1>3, <1>5
  <2>2. i + 1 \in 1..(Len(q) + 1) /\ (i + 1 = Len(q) + 1 <=> i = Len(q))
    BY <1>2
  <2>. QED
    BY <1>1, <2>1, <2>2 DEF all
<1>. QED
  BY <1>3, <1>4, <1>5, <1>6 DEF all, rest

\* What is left has one answer less, or is as long and ends with the new one.
Left(l0, command, m, l1, r) ==
    LET old == l0.answers
        new == l1.answers
    IN  /\ Len(old) \in Nat /\ Len(new) \in Nat
        /\ old = <<>> <=> Len(old) = 0
        /\ new = <<>> <=> Len(new) = 0
        /\ \/ /\ Ignored(l0, command, l1, r)
              /\ Len(old) > 0 /\ Len(new) = Len(old) - 1
              /\ r.code = old[1].code /\ r.about = old[1].about
              /\ \A i \in 1..Len(new) : new[i] = old[i + 1]
           \/ \E y \in Answer :
                 /\ Replied(l0, command, m, l1, r, y)
                 /\ Len(new) = Len(old)
                 /\ Len(old) = 0 => r.code = y.code /\ r.about = y.about
                 /\ Len(old) > 0 => r.code = old[1].code /\ r.about = old[1].about
                 /\ \A i \in 1..Len(new) : new[i] = IF i = Len(old) THEN y ELSE old[i + 1]

\* All exchanges leave the answers as Left says.
LEMMA LeftOver ==
    ASSUME NEW l0 \in Links, NEW l1 \in Links, NEW command, NEW m, NEW r,
           \/ Ignored(l0, command, l1, r)
           \/ \E y \in Answer : Replied(l0, command, m, l1, r, y)
    PROVE  Left(l0, command, m, l1, r)
<1>. DEFINE old == l0.answers
            new == l1.answers
<1>1. old \in Seq(Answer) /\ new \in Seq(Answer)
  BY DEF Links
<1>2. /\ Len(old) \in Nat /\ Len(new) \in Nat
      /\ old = <<>> <=> Len(old) = 0
      /\ new = <<>> <=> Len(new) = 0
  BY <1>1
<1>3. CASE Ignored(l0, command, l1, r)
  <2>1. /\ old # <<>> /\ new = Tail(old) /\ r.code = Head(old).code /\ r.about = Head(old).about
    BY <1>3 DEF Ignored
  <2>2. /\ Head(old) = old[1] /\ Len(new) = Len(old) - 1
        /\ \A i \in 1..(Len(old) - 1) : new[i] = old[i + 1]
    BY <1>1, <2>1, AnswersLeft
  <2>. HIDE DEF old, new
  <2>3. Len(old) > 0
    BY <1>2, <2>1
  <2>4. \A i \in 1..Len(new) : new[i] = old[i + 1]
    BY <2>2
  <2>. QED
    BY <1>2, <1>3, <2>1, <2>2, <2>3, <2>4 DEF old, new, Left
<1>4. ASSUME NEW y \in Answer, Replied(l0, command, m, l1, r, y)
      PROVE  /\ Len(new) = Len(old)
             /\ Len(old) = 0 => r.code = y.code /\ r.about = y.about
             /\ Len(old) > 0 => r.code = old[1].code /\ r.about = old[1].about
             /\ \A i \in 1..Len(new) : new[i] = IF i = Len(old) THEN y ELSE old[i + 1]
  <2>1. /\ new = Tail(Append(old, y))
        /\ r.code = Head(Append(old, y)).code /\ r.about = Head(Append(old, y)).about
    BY <1>4 DEF Replied
  <2>2. /\ Head(Append(old, y)) = IF old = <<>> THEN y ELSE Head(old)
        /\ Len(new) = Len(old)
        /\ \A i \in 1..Len(old) : new[i] = IF i = Len(old) THEN y ELSE old[i + 1]
    BY <1>1, <2>1, AnswersAfter
  <2>3. old # <<>> => Head(old) = old[1]
    BY <1>1, AnswersLeft
  <2>. HIDE DEF old, new
  <2>. QED
    BY <1>2, <2>1, <2>2, <2>3
<1>. QED
  BY <1>2, <1>3, <1>4 DEF Left

\* Where an accepted command leaves the transaction.
LEMMA SameAsAccepted ==
    ASSUME NEW l0 \in Links, NEW command \in Commands \cup {"rset"}, NEW m \in Mails, l0.open,
           NEW l1, SameLink(l1, Accepted(l0, command, m))
    PROVE  /\ command \in {"rset", "dot"} => l1.mode = "idle" /\ l1.to = {} /\ l1.pure
           /\ command \notin {"rset", "dot"} => l1.mode = command /\ l1.pure = l0.pure
           /\ command \in {"mail", "data"} => l1.to = l0.to
           /\ command = "rcpt" => l1.to = l0.to \cup {m}
<1>1. Leaves(l0, command, m, Accepted(l0, command, m))
  BY AcceptedLink
<1>. QED
  BY <1>1 DEF Leaves, SameLink

\* Until, as numbers.
LEMMA Places == Until["mail"] = 3 /\ Until["rcpt"] = 2 /\ Until["data"] = 1
BY DEF Until

\* After a reset, the worker and the server are in order.
LEMMA OrderAfterRset ==
    ASSUME NEW l0 \in Links, NEW l1 \in Links, NEW m \in Mails, NEW r, r.code = "250",
           \/ Ignored(l0, "rset", l1, r)
           \/ \E y \in Answer : Replied(l0, "rset", m, l1, r, y),
           Len(l0.answers) < 4
    PROVE  OrderOK(l1, "mail", m)
<1>. DEFINE old == l0.answers
            new == l1.answers
<1>1. /\ Len(old) \in Nat /\ Len(new) \in Nat
      /\ new = <<>> <=> Len(new) = 0
      /\ \/ /\ Ignored(l0, "rset", l1, r) /\ Len(new) = Len(old) - 1
         \/ \E y \in Answer : /\ Replied(l0, "rset", m, l1, r, y) /\ Len(new) = Len(old)
                              /\ \A i \in 1..Len(new) : new[i] = IF i = Len(old) THEN y ELSE old[i + 1]
  <2>1. Left(l0, "rset", m, l1, r)
    BY LeftOver
  <2>. QED
    BY <2>1 DEF Left
<1>. HIDE DEF old, new
<1>2. Len(old) < 4 /\ new = l1.answers
  BY DEF old, new
<1>3. CASE Ignored(l0, "rset", l1, r) /\ Len(new) = Len(old) - 1
  <2>1. Len(new) < 3
    BY <1>1, <1>2, <1>3
  <2>2. l1.open => l1.mode = "data"
    BY <1>3 DEF Ignored
  <2>. QED
    BY <1>1, <1>2, <2>1, <2>2, Places DEF OrderOK
<1>4. ASSUME NEW y \in Answer, Replied(l0, "rset", m, l1, r, y), Len(new) = Len(old),
             \A i \in 1..Len(new) : new[i] = IF i = Len(old) THEN y ELSE old[i + 1]
      PROVE  OrderOK(l1, "mail", m)
  <2>1. y.code = "250" /\ l0.open /\ (l1.open => SameLink(l1, Accepted(l0, "rset", m)))
    BY <1>4 DEF Replied
  <2>2. l1.open => l1.mode = "idle" /\ l1.to = {} /\ l1.pure
    BY <2>1, SameAsAccepted
  <2>3. l1.open => InStep(l1, "mail", m)
    BY <2>2 DEF InStep
  <2>4. Len(new) >= 3 => new[3].code # "354"
    <3>1. Len(new) >= 3 => Len(old) = 3 /\ 3 \in 1..Len(new)
      <4>1. Len(old) \in Nat /\ Len(new) \in Nat /\ Len(old) < 4 /\ Len(new) = Len(old)
        BY <1>1, <1>2, <1>4
      <4>. QED
        BY <4>1
    <3>. QED
      BY <1>4, <2>1, <3>1
  <2>. QED
    BY <1>2, <2>3, <2>4, Places DEF OrderOK
<1>. QED
  BY <1>1, <1>3, <1>4

\* MAIL, RCPT: the answers read after DATA come one place nearer.
LEMMA OrderAfterMail ==
    ASSUME NEW l0 \in Links, NEW l1 \in Links, NEW m \in Mails, NEW r, r.code = "250",
           NEW command, NEW next,
           \/ command = "mail" /\ next = "rcpt"
           \/ command = "rcpt" /\ next = "data",
           \/ Ignored(l0, command, l1, r)
           \/ \E y \in Answer : Replied(l0, command, m, l1, r, y),
           OrderOK(l0, command, m)
    PROVE  OrderOK(l1, next, m)
<1>. DEFINE old == l0.answers
            new == l1.answers
            k == Until[next]
<1>0. k \in {1, 2} /\ Until[command] = k + 1 /\ (k = 2 <=> command = "mail")
  BY Places
<1>1. /\ Len(old) \in Nat /\ Len(new) \in Nat
      /\ old = <<>> <=> Len(old) = 0
      /\ new = <<>> <=> Len(new) = 0
      /\ \/ /\ Ignored(l0, command, l1, r) /\ Len(new) = Len(old) - 1
            /\ \A i \in 1..Len(new) : new[i] = old[i + 1]
         \/ \E y \in Answer : /\ Replied(l0, command, m, l1, r, y) /\ Len(new) = Len(old)
                              /\ Len(old) = 0 => r.code = y.code
                              /\ \A i \in 1..Len(new) : new[i] = IF i = Len(old) THEN y ELSE old[i + 1]
  <2>1. Left(l0, command, m, l1, r)
    BY LeftOver
  <2>. QED
    BY <2>1 DEF Left
<1>2. Len(old) >= k + 1 => old[k + 1].code # "354"
  BY <1>0 DEF OrderOK
<1>3. old = <<>> => ~l0.open \/ InStep(l0, command, m) \/ l0.mode = "data"
  BY DEF OrderOK
<1>4. command # "dot" /\ command # "data" /\ next # "dot" /\ command \in Commands
  BY DEF Commands
<1>5. SUFFICES /\ Len(new) = 0 => ~l1.open \/ InStep(l1, next, m) \/ l1.mode = "data"
               /\ Len(new) >= k => new[k].code # "354"
  BY <1>1, <1>4 DEF OrderOK
<1>. HIDE DEF old, new, k
<1>6. CASE /\ Ignored(l0, command, l1, r) /\ Len(new) = Len(old) - 1
           /\ \A i \in 1..Len(new) : new[i] = old[i + 1]
  <2>1. Len(new) >= k => k \in 1..Len(new) /\ Len(old) >= k + 1
    BY <1>0, <1>1, <1>6
  <2>2. l1.open => l1.mode = "data"
    BY <1>6 DEF Ignored
  <2>. QED
    BY <1>2, <1>6, <2>1, <2>2
<1>7. ASSUME NEW y \in Answer, Replied(l0, command, m, l1, r, y), Len(new) = Len(old),
             Len(old) = 0 => r.code = y.code,
             \A i \in 1..Len(new) : new[i] = IF i = Len(old) THEN y ELSE old[i + 1]
      PROVE  /\ Len(new) = 0 => ~l1.open \/ InStep(l1, next, m) \/ l1.mode = "data"
             /\ Len(new) >= k => new[k].code # "354"
  <2>1. y.code # "354" /\ l0.open /\ l0.mode # "data"
    BY <1>4, <1>7 DEF Replied, AnsweredBy
  <2>2. Len(new) >= k => new[k].code # "354"
    <3>1. Len(new) >= k => k \in 1..Len(new) /\ (k = Len(old) \/ Len(old) >= k + 1) /\ k \in Nat
      BY <1>0, <1>1, <1>7
    <3>2. CASE Len(new) >= k /\ k = Len(old)
      BY <1>7, <2>1, <3>1, <3>2
    <3>3. CASE Len(new) >= k /\ k # Len(old)
      BY <1>2, <1>7, <3>1, <3>3
    <3>. QED
      BY <3>2, <3>3
  <2>3. ASSUME Len(new) = 0, l1.open PROVE InStep(l1, next, m)
    <3>1. InStep(l0, command, m) /\ y.code = "250"
      BY <1>1, <1>3, <1>7, <2>1, <2>3
    <3>2. SameLink(l1, Accepted(l0, command, m))
      BY <1>7, <2>3, <3>1 DEF Replied
    <3>3. /\ l1.mode = command /\ l1.pure = l0.pure
          /\ command = "mail" => l1.to = l0.to
          /\ command = "rcpt" => l1.to = l0.to \cup {m}
      BY <1>4, <2>1, <3>2, SameAsAccepted
    <3>. QED
      BY <2>3, <3>1, <3>3 DEF InStep
  <2>. QED
    BY <2>2, <2>3
<1>. QED
  BY <1>1, <1>6, <1>7

\* A 354 is the answer to this DATA.
LEMMA OrderAfterData ==
    ASSUME NEW l0 \in Links, NEW l1 \in Links, NEW m \in Mails, NEW r, r.code = "354",
           \/ Ignored(l0, "data", l1, r)
           \/ \E y \in Answer : Replied(l0, "data", m, l1, r, y),
           OrderOK(l0, "data", m)
    PROVE  OrderOK(l1, "dot", m)
<1>. DEFINE old == l0.answers
            new == l1.answers
<1>1. /\ Len(old) \in Nat /\ Len(new) \in Nat
      /\ old = <<>> <=> Len(old) = 0
      /\ new = <<>> <=> Len(new) = 0
      /\ \/ /\ Len(old) > 0
            /\ r.code = old[1].code
         \/ \E y \in Answer : /\ Replied(l0, "data", m, l1, r, y) /\ Len(new) = Len(old)
                              /\ Len(old) = 0 => r.code = y.code
                              /\ Len(old) > 0 => r.code = old[1].code
  <2>1. Left(l0, "data", m, l1, r)
    BY LeftOver
  <2>. QED
    BY <2>1 DEF Left
<1>2. Len(old) >= 1 => old[1].code # "354"
  BY Places DEF OrderOK
<1>3. old = <<>> => ~l0.open \/ InStep(l0, "data", m) \/ l0.mode = "data"
  BY DEF OrderOK
<1>. HIDE DEF old, new
<1>4. Len(old) > 0 => Len(old) >= 1
  BY <1>1
<1>5. PICK y \in Answer : Replied(l0, "data", m, l1, r, y) /\ Len(new) = 0 /\ Len(old) = 0 /\ y.code = "354"
  BY <1>1, <1>2, <1>4
<1>6. l0.open /\ InStep(l0, "data", m)
  BY <1>1, <1>3, <1>5 DEF Replied
<1>7. l1.open => SameLink(l1, Accepted(l0, "data", m))
  BY <1>5 DEF Replied
<1>8. l1.open => l1.mode = "data" /\ l1.pure = l0.pure /\ l1.to = l0.to
  BY <1>6, <1>7, SameAsAccepted DEF Commands
<1>9. l1.open => InStep(l1, "dot", m)
  BY <1>6, <1>8 DEF InStep
<1>. QED
  BY <1>1, <1>5, <1>9 DEF OrderOK, new

\* The text goes to the message's recipient and nothing is in it but the message;
\* what is read after the dot is the answer to it.
LEMMA OrderAtDot ==
    ASSUME NEW l0 \in Links, NEW m \in Mails, OrderOK(l0, "dot", m)
    PROVE  /\ l0.answers = <<>>
           /\ l0.open => l0.mode = "data" /\ l0.to = {m} /\ l0.pure
           /\ \A l1 \in Links : \A r, x :
                 Replied(l0, "dot", m, l1, r, x) /\ x \in Answer => r.code = x.code
<1>1. l0.answers = <<>>
  BY DEF OrderOK
<1>2. l0.open => InStep(l0, "dot", m)
  BY <1>1 DEF OrderOK
<1>3. l0.open => l0.mode = "data" /\ l0.to = {m} /\ l0.pure
  BY <1>2 DEF InStep
<1>4. ASSUME NEW l1 \in Links, NEW r, NEW x \in Answer, Replied(l0, "dot", m, l1, r, x) PROVE r.code = x.code
  <2>1. l0.answers \in Seq(Answer)
    BY DEF Links
  <2>2. r.code = Head(Append(l0.answers, x)).code
    BY <1>4 DEF Replied
  <2>3. Head(Append(l0.answers, x)) = x
    BY <1>1, <2>1, AnswersAfter
  <2>. QED
    BY <2>2, <2>3
<1>. QED
  BY <1>1, <1>3, <1>4

\* Answers to other messages are read before the own ones.
Own(l, m) == \A i \in DOMAIN l.answers : l.answers[i].about = m

OwnLeft(l0, m, l1, r) == Own(l1, m) /\ (Own(l0, m) => r.about = m)

\* Once the answers left are own ones they stay so.
LEMMA OwnAnswersLeft ==
    ASSUME NEW l0 \in Links, NEW l1 \in Links, NEW command, NEW m, NEW r,
           \/ Ignored(l0, command, l1, r)
           \/ \E y \in Answer : Replied(l0, command, m, l1, r, y),
           Len(l0.answers) < 2 \/ Own(l0, m)
    PROVE  OwnLeft(l0, m, l1, r)
<1>. DEFINE old == l0.answers
            new == l1.answers
<1>1. /\ Len(old) \in Nat /\ Len(new) \in Nat
      /\ \/ /\ Len(old) > 0 /\ Len(new) = Len(old) - 1
            /\ r.about = old[1].about
            /\ \A i \in 1..Len(new) : new[i] = old[i + 1]
         \/ \E y \in Answer :
                        /\ Replied(l0, command, m, l1, r, y)
                        /\ Len(new) = Len(old)
                        /\ Len(old) = 0 => r.about = y.about
                        /\ Len(old) > 0 => r.about = old[1].about
                        /\ \A i \in 1..Len(new) : new[i] = IF i = Len(old) THEN y ELSE old[i + 1]
  <2>1. Left(l0, command, m, l1, r)
    BY LeftOver
  <2>. QED
    BY <2>1 DEF Left
<1>2. DOMAIN old = 1..Len(old) /\ DOMAIN new = 1..Len(new)
  BY DEF Links
<1>3. Len(old) < 2 \/ \A i \in 1..Len(old) : old[i].about = m
  BY <1>2 DEF Own
<1>. HIDE DEF old, new
<1>4. Len(old) > 0 => 1 \in 1..Len(old)
  BY <1>1
<1>5. \A i \in 1..Len(new) : i = Len(old) \/ (i + 1 \in 1..Len(old) /\ Len(old) >= 2)
  BY <1>1
<1>6. \A y \in Answer : Replied(l0, command, m, l1, r, y) => y.about = m
  BY DEF Replied, AnsweredBy
<1>7. (\A i \in 1..Len(old) : old[i].about = m) => r.about = m
  BY <1>1, <1>4, <1>6
<1>8. \A i \in 1..Len(new) : new[i].about = m
  <2>. SUFFICES ASSUME NEW i \in 1..Len(new) PROVE new[i].about = m
    OBVIOUS
  <2>1. CASE Len(new) = Len(old) - 1 /\ new[i] = old[i + 1]
    <3>1. i + 1 \in 1..Len(old) /\ ~(Len(old) < 2)
      BY <1>1, <2>1
    <3>. QED
      BY <1>3, <2>1, <3>1
  <2>2. ASSUME NEW y \in Answer, Replied(l0, command, m, l1, r, y), Len(new) = Len(old),
               new[i] = IF i = Len(old) THEN y ELSE old[i + 1]
        PROVE  new[i].about = m
    <3>1. CASE i = Len(old)
      BY <1>6, <2>2, <3>1
    <3>2. CASE i # Len(old)
      <4>1. i + 1 \in 1..Len(old) /\ ~(Len(old) < 2)
        BY <1>1, <2>2, <3>2
      <4>. QED
        BY <1>3, <2>2, <3>2, <4>1
    <3>. QED
      BY <3>1, <3>2
  <2>. QED
    BY <1>1, <2>1, <2>2
<1>. QED
  BY <1>2, <1>7, <1>8 DEF old, new, Own, OwnLeft

-----------------------------------------------------------------------------
\* What a worker's step changes: itself, and its session.
OnlySender(w) == sender' \in [Senders -> Workers] /\ \A v \in Senders \ {w} : sender'[v] = sender[v]

OnlySession(s) == sess' \in [Sessions -> SessionObjects] /\ \A t \in Sessions \ {s} : sess'[t] = sess[t]

Statuses == {"queued", "working", "success", "failed"}

\* The worker goes on with message and session, ...
KeepsSession(w) ==
    /\ OnlySender(w) /\ OnlySession(sender[w].sess)
    /\ mail' \in [Mails -> Statuses] /\ UNCHANGED <<pool, poolLock, lag>>
    /\ sender'[w].sess = sender[w].sess /\ sender'[w].mail = sender[w].mail
    /\ sender'[w].at \in Steps \ {"free", "get", "gone"}

\* ... or deletes the session.
LosesSession(w) ==
    /\ OnlySender(w) /\ OnlySession(sender[w].sess) /\ sess'[sender[w].sess] = NewSession
    /\ mail' \in [Mails -> Statuses] /\ UNCHANGED <<pool, poolLock, lag>>
    /\ sender'[w].sess = NoSession /\ sender'[w].at \in {"free", "get"}
    /\ sender'[w].at = "get" => sender'[w].mail = sender[w].mail

Holding(w) == sender[w].at \in Steps \ {"free", "get", "gone"}

\* A worker that holds a session has it alone.
LEMMA HolderAlone ==
    ASSUME SmtpCore, NEW w \in Senders, Holding(w)
    PROVE  /\ sender[w].sess \in Sessions /\ sender[w].mail \in Mails
           /\ sender[w].sess \notin Members(pool) /\ sender[w].sess # poolLock
           /\ \A v \in Senders \ {w} : sender[v].sess # sender[w].sess
           /\ sess[sender[w].sess] \in SessionObjects /\ Link(w) \in Links
           /\ SessionOK(sender[w].sess) /\ WorkerOK(w)
<1>1. sender[w] \in Workers
  BY DEF SmtpCore, SmtpTypeOK
<1>2. sender[w].sess # NoSession /\ sender[w].mail \in Mails
  BY DEF SmtpCore, SessionHeld, Holding
<1>3. sender[w].sess \in Sessions
  BY <1>1, <1>2 DEF Workers
<1>4. /\ sender[w].sess \notin Members(pool) /\ sender[w].sess # poolLock
      /\ \A v \in Senders \ {w} : sender[v].sess # sender[w].sess
  BY <1>2 DEF SmtpCore, SessionHeld
<1>5. sess[sender[w].sess] \in SessionObjects
  BY <1>3 DEF SmtpCore, SmtpTypeOK
<1>6. Link(w) \in Links
  BY <1>5 DEF Link, SessionObjects
<1>7. SessionOK(sender[w].sess) /\ WorkerOK(w)
  BY <1>3 DEF SmtpCore, SessionsOK
<1>. QED
  BY <1>2, <1>3, <1>4, <1>5, <1>6, <1>7

\* What holds of a session and of a worker does not change with the others.
LEMMA SessionOKSame ==
    ASSUME NEW s, sess'[s] = sess[s] PROVE SessionOK(s) => SessionOK(s)'
BY DEF SessionOK

\* A pooled session keeps what holds of it as lag grows.
LEMMA RestedSame ==
    ASSUME NEW s, sess'[s] = sess[s], sess[s] \in SessionObjects, Rested(s),
           lag \in Nat, lag' \in Nat, lag <= lag'
    PROVE  Rested(s)'
<1>1. sess[s].link \in Links
  BY DEF SessionObjects
<1>2. Len(sess[s].link.answers) \in Nat
  BY <1>1, AnswersCounted
<1>. QED
  BY <1>2 DEF Rested

\* So does a worker that does not move.
LEMMA WorkerOKSame ==
    ASSUME NEW v \in Senders, WorkerOK(v), sender'[v] = sender[v],
           Holding(v) => /\ sess'[sender[v].sess] = sess[sender[v].sess]
                         /\ sess[sender[v].sess] \in SessionObjects,
           lag \in Nat, lag' \in Nat, lag <= lag'
    PROVE  WorkerOK(v)'
<1>1. CASE ~Holding(v) /\ sender[v].at \in Steps
  BY <1>1 DEF WorkerOK, Holding, Steps, Commands
<1>2. CASE Holding(v)
  <2>1. Link(v)' = Link(v) /\ sess'[sender'[v].sess] = sess[sender[v].sess]
    BY <1>2 DEF Link
  <2>2. sender[v].at \in {"begin", "rset"} => Rested(sender[v].sess)'
    BY <1>2, RestedSame DEF WorkerOK
  <2>3. (lag' < 4 => lag < 4) /\ (lag' < 2 => lag < 2)
    OBVIOUS
  <2>4. sender'[v].at \in {"begin", "rset"} => Rested(sender[v].sess)'
    BY <2>2
  <2>5. \A s : s = sender[v].sess => (Rested(s)' <=> Rested(sender[v].sess)')
    OBVIOUS
  <2>. QED
    BY <2>1, <2>3, <2>4 DEF WorkerOK, Rested
<1>3. CASE sender[v].at \notin Steps
  BY <1>3 DEF WorkerOK, Steps, Commands
<1>. QED
  BY <1>1, <1>2, <1>3

\* A step of a worker that keeps its session needs to be looked at for these two only.
LEMMA KeepsCore ==
    ASSUME SmtpCore, NEW w \in Senders, Holding(w), KeepsSession(w),
           SessionOK(sender[w].sess)', WorkerOK(w)'
    PROVE  SmtpCore'
<1>. USE DEF SmtpCore
<1>1. /\ sender[w].sess \in Sessions /\ sender[w].mail \in Mails
      /\ \A v \in Senders \ {w} : sender[v].sess # sender[w].sess
      /\ sender[w].sess \notin Members(pool)
  BY HolderAlone
<1>2. SmtpTypeOK'
  BY DEF SmtpTypeOK, KeepsSession, OnlySender, OnlySession, Statuses
<1>3. \A v \in Senders : /\ sender'[v].sess = sender[v].sess /\ sender'[v].mail = sender[v].mail
                         /\ sender'[v].at \in {"free", "get", "gone"} <=> sender[v].at \in {"free", "get", "gone"}
                         /\ sender'[v].at \in {"free", "gone"} => sender[v].at \in {"free", "gone"}
                         /\ sender[v].at \in {"free", "gone"} => sender'[v].at \in {"free", "gone"}
  BY DEF KeepsSession, OnlySender, Holding
<1>4. SessionHeld'
  BY <1>3 DEF SessionHeld, KeepsSession
<1>5. Live' = Live
  BY <1>3 DEF Live, Pooled, KeepsSession
<1>6. \A s \in Sessions : SessionOK(s)' /\ (s \notin Live' => sess'[s] = NewSession)
  <2>. SUFFICES ASSUME NEW s \in Sessions PROVE SessionOK(s)' /\ (s \notin Live' => sess'[s] = NewSession)
    OBVIOUS
  <2>1. CASE s = sender[w].sess
    <3>1. sender'[w].sess = s /\ s \in Live
      BY <1>3, <2>1 DEF Live
    <3>2. SessionOK(s)'
      BY <3>1 DEF SessionOK
    <3>. QED
      BY <1>5, <3>1, <3>2
  <2>2. CASE s # sender[w].sess
    <3>1. sess'[s] = sess[s] /\ SessionOK(s) /\ (s \notin Live => sess[s] = NewSession)
      BY <2>2 DEF KeepsSession, OnlySession, SessionsOK
    <3>. QED
      BY <1>5, <3>1, SessionOKSame
  <2>. QED
    BY <2>1, <2>2
<1>7. \A s \in Sessions : sess[s] \in SessionObjects
  BY DEF SmtpTypeOK
<1>8. lag \in Nat /\ lag' = lag
  BY DEF SmtpTypeOK, KeepsSession
<1>9. \A s \in Members(pool) : Rested(s)' /\ sess'[s].active
  <2>. SUFFICES ASSUME NEW s \in Members(pool) PROVE Rested(s)' /\ sess'[s].active
    OBVIOUS
  <2>1. s \in Sessions
    BY DEF SmtpTypeOK, Members
  <2>2. sess'[s] = sess[s] /\ Rested(s) /\ sess[s].active
    BY <1>1, <2>1 DEF KeepsSession, OnlySession, SessionsOK
  <2>. QED
    BY <1>7, <1>8, <2>1, <2>2, RestedSame
<1>10. \A v \in Senders : WorkerOK(v)'
  <2>. SUFFICES ASSUME NEW v \in Senders \ {w} PROVE WorkerOK(v)'
    OBVIOUS
  <2>1. Holding(v) => sender[v].sess \in Sessions /\ sender[v].sess # sender[w].sess
    BY <1>1, HolderAlone
  <2>2. sender'[v] = sender[v] /\ WorkerOK(v)
    BY DEF KeepsSession, OnlySender, SessionsOK
  <2>3. Holding(v) => sess'[sender[v].sess] = sess[sender[v].sess]
    BY <2>1 DEF KeepsSession, OnlySession
  <2>. QED
    BY <1>7, <1>8, <2>1, <2>2, <2>3, WorkerOKSame
<1>. QED
  BY <1>2, <1>4, <1>6, <1>9, <1>10 DEF SessionsOK, KeepsSession

\* A step that deletes the session keeps the rest.
LEMMA LosesCore ==
    ASSUME SmtpCore, NEW w \in Senders, Holding(w), LosesSession(w)
    PROVE  SmtpCore'
<1>. USE DEF SmtpCore
<1>1. /\ sender[w].sess \in Sessions /\ sender[w].mail \in Mails
      /\ \A v \in Senders \ {w} : sender[v].sess # sender[w].sess
      /\ sender[w].sess \notin Members(pool)
  BY HolderAlone
<1>2. SmtpTypeOK'
  BY DEF SmtpTypeOK, LosesSession, OnlySender, OnlySession, Statuses
<1>3. \A v \in Senders \ {w} : sender'[v] = sender[v]
  BY DEF LosesSession, OnlySender
<1>4. /\ sender'[w].sess = NoSession /\ sender'[w].at \in {"free", "get"}
      /\ sender'[w].at = "get" => sender'[w].mail \in Mails
  BY <1>1 DEF LosesSession
<1>5. /\ pool' = pool /\ poolLock' = poolLock /\ NoSession \notin Members(pool)
  BY SmtpAssumption DEF LosesSession, SmtpTypeOK, Members
<1>6. SessionHeld'
  BY <1>3, <1>4, <1>5 DEF SessionHeld
<1>7. \A s \in Sessions : s \in Live => s \in Live' \/ s = sender[w].sess
  BY <1>3, <1>5 DEF Live, Pooled
<1>8. \A s \in Sessions : SessionOK(s)' /\ (s \notin Live' => sess'[s] = NewSession)
  <2>. SUFFICES ASSUME NEW s \in Sessions PROVE SessionOK(s)' /\ (s \notin Live' => sess'[s] = NewSession)
    OBVIOUS
  <2>1. CASE s = sender[w].sess
    BY <2>1 DEF LosesSession, SessionOK, NewSession, NoLink
  <2>2. CASE s # sender[w].sess
    <3>1. sess'[s] = sess[s] /\ SessionOK(s) /\ (s \notin Live => sess[s] = NewSession)
      BY <2>2 DEF LosesSession, OnlySession, SessionsOK
    <3>. QED
      BY <1>7, <2>2, <3>1, SessionOKSame
  <2>. QED
    BY <2>1, <2>2
<1>9. \A s \in Sessions : sess[s] \in SessionObjects
  BY DEF SmtpTypeOK
<1>10. lag \in Nat /\ lag' = lag
  BY DEF SmtpTypeOK, LosesSession
<1>11. \A s \in Members(pool) : Rested(s)' /\ sess'[s].active
  <2>. SUFFICES ASSUME NEW s \in Members(pool) PROVE Rested(s)' /\ sess'[s].active
    OBVIOUS
  <2>1. s \in Sessions
    BY DEF SmtpTypeOK, Members
  <2>2. sess'[s] = sess[s] /\ Rested(s) /\ sess[s].active
    BY <1>1, <2>1 DEF LosesSession, OnlySession, SessionsOK
  <2>. QED
    BY <1>9, <1>10, <2>1, <2>2, RestedSame
<1>12. \A v \in Senders : WorkerOK(v)'
  <2>1. WorkerOK(w)'
    BY <1>4 DEF WorkerOK, Commands
  <2>2. ASSUME NEW v \in Senders \ {w} PROVE WorkerOK(v)'
    <3>1. Holding(v) => sender[v].sess \in Sessions /\ sender[v].sess # sender[w].sess
      BY <1>1, HolderAlone
    <3>2. sender'[v] = sender[v] /\ WorkerOK(v)
      BY <1>3 DEF SessionsOK
    <3>3. Holding(v) => sess'[sender[v].sess] = sess[sender[v].sess]
      BY <3>1 DEF LosesSession, OnlySession
    <3>. QED
      BY <1>9, <1>10, <3>1, <3>2, <3>3, WorkerOKSame
  <2>. QED
    BY <2>1, <2>2
<1>. QED
  BY <1>2, <1>5, <1>6, <1>8, <1>11, <1>12 DEF SessionsOK

-----------------------------------------------------------------------------
\* The pool.
\* A worker that held none holds s.
TakesSession(w, s) ==
    /\ OnlySender(w) /\ sender'[w].at = "begin" /\ sender'[w].sess = s
    /\ sender'[w].mail = sender[w].mail

\* The oldest pooled session or a new one has no other owner.
LEMMA GetSessionKeeps ==
    ASSUME SmtpCore, NEW w \in Senders, GetSession(w)
    PROVE  SmtpCore'
<1>. USE DEF SmtpCore
<1>. DEFINE s == sender'[w].sess
<1>1. /\ sender[w].at = "get" /\ poolLock = NoSession
      /\ UNCHANGED <<mail, sess, poolLock, lag>>
  BY DEF GetSession, smtpGhosts
<1>2. /\ pool \in Seq(Sessions) /\ Distinct(pool) /\ sender \in [Senders -> Workers]
      /\ sess \in [Sessions -> SessionObjects] /\ lag \in Nat
  BY DEF SmtpTypeOK, SessionHeld
<1>3. /\ s \in Sessions /\ TakesSession(w, s)
      /\ pool' \in Seq(Sessions) /\ Distinct(pool') /\ Members(pool') = Members(pool) \ {s}
      /\ s \in Members(pool) \/ s \notin Live
  <2>1. CASE pool # <<>>
    <3>1. /\ sender' = [sender EXCEPT ![w].at = "begin", ![w].sess = Head(pool)]
          /\ pool' = Tail(pool)
      BY <2>1 DEF GetSession
    <3>2. /\ Head(pool) \in Sessions /\ Head(pool) \in Members(pool)
          /\ Tail(pool) \in Seq(Sessions) /\ Distinct(Tail(pool))
          /\ Members(Tail(pool)) = Members(pool) \ {Head(pool)}
      BY <1>2, <2>1, TailMembers
    <3>. DEFINE h == Head(pool)
    <3>3. h \in Sessions /\ sender' = [sender EXCEPT ![w].at = "begin", ![w].sess = h]
      BY <3>1, <3>2
    <3>. HIDE DEF h
    <3>4. s = h /\ TakesSession(w, h)
      BY <1>2, <3>3 DEF TakesSession, OnlySender, Workers, Steps
    <3>. QED
      BY <3>1, <3>2, <3>4 DEF h
  <2>2. CASE pool = <<>>
    <3>. DEFINE h == CHOOSE t \in Sessions \ Live : TRUE
    <3>1. /\ h \in Sessions \ Live /\ pool' = pool
          /\ sender' = [sender EXCEPT ![w].at = "begin", ![w].sess = h]
      BY <2>2 DEF GetSession
    <3>. HIDE DEF h
    <3>2. s = h /\ TakesSession(w, h)
      BY <1>2, <3>1 DEF TakesSession, OnlySender, Workers, Steps
    <3>3. h \notin Members(pool)
      BY <3>1 DEF Live, Pooled, Members
    <3>. QED
      BY <1>2, <3>1, <3>2, <3>3
  <2>. QED
    BY <2>1, <2>2
<1>. HIDE DEF s
<1>4. s = sender'[w].sess /\ s # NoSession
  BY <1>3, SmtpAssumption DEF s
<1>5. \A v \in Senders \ {w} : sender'[v] = sender[v] /\ sender[v].sess # s
  BY <1>3 DEF TakesSession, OnlySender, SessionHeld, Live
<1>6. /\ sender'[w].at = "begin" /\ sender'[w].mail \in Mails
  BY <1>1, <1>3 DEF TakesSession, SessionHeld
<1>7. SmtpTypeOK'
  BY <1>1, <1>3 DEF SmtpTypeOK, TakesSession, OnlySender
<1>8. NoSession \notin Members(pool) /\ poolLock' = NoSession
  BY <1>1, <1>2, SmtpAssumption DEF Members
<1>9. SessionHeld'
  BY <1>3, <1>4, <1>5, <1>6, <1>8 DEF SessionHeld
<1>10. sender[w].sess = NoSession
  BY <1>1 DEF SessionHeld
<1>11. \A t \in Sessions : t \in Live => t \in Live'
  <2>. SUFFICES ASSUME NEW t \in Sessions, t \in Live PROVE t \in Live'
    OBVIOUS
  <2>1. t # NoSession
    BY SmtpAssumption
  <2>2. t \in Members(pool) \/ (\E v \in Senders \ {w} : t = sender[v].sess)
    BY <1>1, <1>10, <2>1 DEF Live, Pooled, Members
  <2>3. CASE t \in Members(pool) /\ t # s
    <3>1. t \in Members(pool')
      BY <1>3, <2>3
    <3>. QED
      BY <3>1 DEF Live, Pooled, Members
  <2>4. CASE t = s \/ \E v \in Senders \ {w} : t = sender[v].sess
    BY <1>4, <1>5, <2>4 DEF Live
  <2>. QED
    BY <2>2, <2>3, <2>4
<1>12. \A t \in Sessions : SessionOK(t)' /\ (t \notin Live' => sess'[t] = NewSession)
  BY <1>1, <1>11, SessionOKSame DEF SessionsOK
<1>13. \A t \in Members(pool') : Rested(t)' /\ sess'[t].active
  BY <1>1, <1>3 DEF SessionsOK, Rested
<1>14. Rested(s)
  <2>1. CASE s \in Members(pool)
    BY <2>1 DEF SessionsOK
  <2>2. CASE s \notin Live
    BY <1>2, <1>3, <2>2 DEF SessionsOK, Rested, NewSession, NoLink
  <2>. QED
    BY <1>3, <2>1, <2>2
<1>15. WorkerOK(w)'
  BY <1>1, <1>4, <1>6, <1>14 DEF WorkerOK, Rested, Commands
<1>16. \A v \in Senders \ {w} : WorkerOK(v)'
  <2>. SUFFICES ASSUME NEW v \in Senders \ {w} PROVE WorkerOK(v)'
    OBVIOUS
  <2>1. Holding(v) => sess[sender[v].sess] \in SessionObjects
    BY HolderAlone
  <2>2. WorkerOK(v) /\ sender'[v] = sender[v] /\ sess' = sess /\ lag' = lag
    BY <1>1, <1>5 DEF SessionsOK
  <2>. QED
    BY <1>2, <2>1, <2>2, WorkerOKSame
<1>. QED
  BY <1>7, <1>9, <1>12, <1>13, <1>15, <1>16 DEF SessionsOK

\* A session that is put back had one owner, and lag covers its answers.
LEMMA PutBackKeeps ==
    ASSUME SmtpCore, NEW w \in Senders, PutBack(w)
    PROVE  SmtpCore'
<1>. USE DEF SmtpCore
<1>. DEFINE s == sender[w].sess
            behind == Len(sess[s].link.answers)
<1>1. /\ sender[w].at = "putBack" /\ poolLock = NoSession
      /\ pool' = Append(pool, s) /\ sender' = [sender EXCEPT ![w] = Free]
      /\ lag' = (IF behind > lag THEN behind ELSE lag)
      /\ UNCHANGED <<mail, sess, poolLock>>
  BY DEF PutBack
<1>2. /\ pool \in Seq(Sessions) /\ Distinct(pool) /\ sender \in [Senders -> Workers]
      /\ sess \in [Sessions -> SessionObjects] /\ lag \in Nat
  BY DEF SmtpTypeOK, SessionHeld
<1>3. Holding(w)
  BY <1>1 DEF Holding, Steps
<1>4. /\ s \in Sessions /\ s \notin Members(pool) /\ s # NoSession
      /\ \A v \in Senders \ {w} : sender[v].sess # s
      /\ sess[s] \in SessionObjects /\ SessionOK(s) /\ WorkerOK(w)
  BY <1>3, HolderAlone, SmtpAssumption
<1>5. behind \in Nat
  <2>1. sess[s].link \in Links
    BY <1>4 DEF SessionObjects
  <2>. QED
    BY <2>1, AnswersCounted
<1>. HIDE DEF s
<1>6. /\ pool' \in Seq(Sessions) /\ Distinct(pool') /\ Members(pool') = Members(pool) \cup {s}
  BY <1>1, <1>2, <1>4, AppendMembers
<1>7. Free \in Workers /\ Free.sess = NoSession /\ Free.at = "free"
  BY DEF Free, Workers, Steps
<1>8. /\ sender' \in [Senders -> Workers] /\ sender'[w] = Free
      /\ \A v \in Senders \ {w} : sender'[v] = sender[v]
  BY <1>1, <1>2, <1>7
<1>9. lag' \in Nat /\ lag <= lag' /\ behind <= lag'
  BY <1>1, <1>2, <1>5
<1>10. SmtpTypeOK'
  BY <1>1, <1>6, <1>8, <1>9 DEF SmtpTypeOK
<1>11. NoSession \notin Members(pool') /\ poolLock' = NoSession
  BY <1>1, <1>2, <1>4, <1>6, SmtpAssumption DEF Members
<1>12. SessionHeld'
  BY <1>4, <1>6, <1>7, <1>8, <1>11 DEF SessionHeld
<1>13. \A t \in Sessions : t \in Live => t \in Live'
  <2>. SUFFICES ASSUME NEW t \in Sessions, t \in Live PROVE t \in Live'
    OBVIOUS
  <2>1. t # NoSession
    BY SmtpAssumption
  <2>2. t \in Members(pool) \/ t = s \/ (\E v \in Senders \ {w} : t = sender[v].sess)
    BY <1>1, <2>1 DEF Live, Pooled, Members, s
  <2>3. CASE t \in Members(pool) \/ t = s
    <3>1. t \in Members(pool')
      BY <1>6, <2>3
    <3>. QED
      BY <3>1 DEF Live, Pooled, Members
  <2>4. CASE \E v \in Senders \ {w} : t = sender[v].sess
    BY <1>8, <2>4 DEF Live
  <2>. QED
    BY <2>2, <2>3, <2>4
<1>14. \A t \in Sessions : SessionOK(t)' /\ (t \notin Live' => sess'[t] = NewSession)
  BY <1>1, <1>13, SessionOKSame DEF SessionsOK
<1>15. \A t \in Members(pool) : Rested(t)' /\ sess'[t].active
  <2>. SUFFICES ASSUME NEW t \in Members(pool) PROVE Rested(t)' /\ sess'[t].active
    OBVIOUS
  <2>1. t \in Sessions
    BY <1>2 DEF Members
  <2>2. sess'[t] = sess[t] /\ Rested(t) /\ sess[t].active /\ sess[t] \in SessionObjects
    BY <1>1, <1>2, <2>1 DEF SessionsOK
  <2>. QED
    BY <1>2, <1>9, <2>2, RestedSame
<1>16. ASSUME NEW t, t = s PROVE Rested(t)' /\ sess'[t].active
  <2>1. sess[t].active /\ (~sess[t].dirty => Clean(sess[t].link))
    BY <1>1, <1>4, <1>16 DEF WorkerOK, Commands, Link, s
  <2>2. Len(sess[t].link.answers) <= lag'
    BY <1>9, <1>16
  <2>. QED
    BY <1>1, <2>1, <2>2 DEF Rested
<1>17. \A v \in Senders : WorkerOK(v)'
  <2>1. WorkerOK(w)'
    BY <1>7, <1>8 DEF WorkerOK, Commands
  <2>2. ASSUME NEW v \in Senders \ {w} PROVE WorkerOK(v)'
    <3>1. Holding(v) => sess[sender[v].sess] \in SessionObjects
      BY HolderAlone
    <3>2. WorkerOK(v) /\ sender'[v] = sender[v] /\ sess' = sess
      BY <1>1, <1>8 DEF SessionsOK
    <3>. QED
      BY <1>2, <1>9, <3>1, <3>2, WorkerOKSame
  <2>. QED
    BY <2>1, <2>2
<1>. QED
  <2>1. \A t \in Members(pool') : Rested(t)' /\ sess'[t].active
    BY <1>6, <1>15, <1>16
  <2>. QED
    BY <1>10, <1>12, <1>14, <1>17, <2>1 DEF SessionsOK

\* cleanUp takes a session from the pool, ...
LEMMA CleanUpKeeps ==
    ASSUME SmtpCore, CleanUp
    PROVE  SmtpCore'
<1>. USE DEF SmtpCore
<1>1. UNCHANGED <<mail, sender, sess, lag>> /\ poolLock = NoSession
  BY DEF CleanUp, smtpGhosts
<1>2. /\ pool \in Seq(Sessions) /\ Distinct(pool) /\ lag \in Nat
      /\ sess \in [Sessions -> SessionObjects]
  BY DEF SmtpTypeOK, SessionHeld
<1>3. PICK s \in Members(pool) : /\ poolLock' = s
                                 /\ pool' \in Seq(Sessions) /\ Distinct(pool')
                                 /\ Members(pool') = Members(pool) \ {s}
  <2>1. PICK i \in DOMAIN pool : /\ poolLock' = pool[i]
                                 /\ pool' = SubSeq(pool, 1, i - 1) \o SubSeq(pool, i + 1, Len(pool))
    BY DEF CleanUp
  <2>. DEFINE r == SubSeq(pool, 1, i - 1) \o SubSeq(pool, i + 1, Len(pool))
  <2>2. r \in Seq(Sessions) /\ Distinct(r) /\ Members(r) = Members(pool) \ {pool[i]}
    BY <1>2, RemoveMember
  <2>3. pool' = r
    BY <2>1
  <2>4. pool[i] \in Members(pool)
    BY DEF Members
  <2>. HIDE DEF r
  <2>. QED
    BY <2>1, <2>2, <2>3, <2>4
<1>4. s \in Sessions /\ s # NoSession
  BY <1>2, SmtpAssumption DEF Members
<1>5. SmtpTypeOK'
  BY <1>1, <1>3, <1>4 DEF SmtpTypeOK
<1>6. SessionHeld'
  BY <1>1, <1>3, <1>4 DEF SessionHeld
<1>7. \A t \in Sessions : t \in Live => t \in Live'
  <2>. SUFFICES ASSUME NEW t \in Sessions, t \in Live PROVE t \in Live'
    OBVIOUS
  <2>1. t # NoSession
    BY SmtpAssumption
  <2>2. t \in Members(pool) \/ (\E v \in Senders : t = sender[v].sess)
    BY <1>1, <2>1 DEF Live, Pooled, Members
  <2>3. t \in Members(pool') \/ t = poolLock' \/ (\E v \in Senders : t = sender'[v].sess)
    BY <1>1, <1>3, <2>2
  <2>. QED
    BY <2>3 DEF Live, Pooled, Members
<1>8. \A t \in Sessions : SessionOK(t)' /\ (t \notin Live' => sess'[t] = NewSession)
  BY <1>1, <1>7, SessionOKSame DEF SessionsOK
<1>9. \A t \in Members(pool') : Rested(t)' /\ sess'[t].active
  BY <1>1, <1>3 DEF SessionsOK, Rested
<1>10. \A v \in Senders : WorkerOK(v)'
  <2>. SUFFICES ASSUME NEW v \in Senders PROVE WorkerOK(v)'
    OBVIOUS
  <2>1. Holding(v) => sess[sender[v].sess] \in SessionObjects
    BY HolderAlone
  <2>2. WorkerOK(v) /\ sender'[v] = sender[v] /\ sess' = sess /\ lag' = lag
    BY <1>1 DEF SessionsOK
  <2>. QED
    BY <1>2, <2>1, <2>2, WorkerOKSame
<1>. QED
  BY <1>5, <1>6, <1>8, <1>9, <1>10 DEF SessionsOK

\* ... and deletes it.
LEMMA CleanedUpKeeps ==
    ASSUME SmtpCore, CleanedUp
    PROVE  SmtpCore'
<1>. USE DEF SmtpCore
<1>1. /\ UNCHANGED <<mail, sender, pool, lag>> /\ poolLock # NoSession /\ poolLock' = NoSession
      /\ sess' = [sess EXCEPT ![poolLock] = NewSession]
  BY DEF CleanedUp, smtpGhosts
<1>2. /\ poolLock \in Sessions /\ lag \in Nat /\ sess \in [Sessions -> SessionObjects]
      /\ pool \in Seq(Sessions) /\ poolLock \notin Members(pool)
      /\ \A v \in Senders : sender[v].sess # poolLock
  BY <1>1 DEF SmtpTypeOK, SessionHeld
<1>3. NewSession \in SessionObjects
  BY NoLinkTypes DEF NewSession, SessionObjects
<1>4. /\ sess' \in [Sessions -> SessionObjects] /\ sess'[poolLock] = NewSession
      /\ \A t \in Sessions \ {poolLock} : sess'[t] = sess[t]
  BY <1>1, <1>2, <1>3
<1>5. SmtpTypeOK'
  BY <1>1, <1>4 DEF SmtpTypeOK
<1>6. NoSession \notin Members(pool)
  BY <1>2, SmtpAssumption DEF Members
<1>7. SessionHeld'
  BY <1>1, <1>6 DEF SessionHeld
<1>8. \A t \in Sessions : t \in Live => t \in Live' \/ t = poolLock
  BY <1>1 DEF Live, Pooled
<1>9. \A t \in Sessions : SessionOK(t)' /\ (t \notin Live' => sess'[t] = NewSession)
  <2>. SUFFICES ASSUME NEW t \in Sessions PROVE SessionOK(t)' /\ (t \notin Live' => sess'[t] = NewSession)
    OBVIOUS
  <2>1. CASE t = poolLock
    <3>1. sess'[t] = NewSession
      BY <1>4, <2>1
    <3>. QED
      BY <3>1 DEF SessionOK, NewSession, NoLink
  <2>2. CASE t # poolLock
    <3>1. sess'[t] = sess[t] /\ SessionOK(t) /\ (t \notin Live => sess[t] = NewSession)
      BY <1>4, <2>2 DEF SessionsOK
    <3>. QED
      BY <1>8, <2>2, <3>1, SessionOKSame
  <2>. QED
    BY <2>1, <2>2
<1>10. \A t \in Members(pool') : Rested(t)' /\ sess'[t].active
  <2>. SUFFICES ASSUME NEW t \in Members(pool) PROVE Rested(t)' /\ sess'[t].active
    BY <1>1
  <2>1. t \in Sessions /\ t # poolLock
    BY <1>2 DEF Members
  <2>2. sess'[t] = sess[t] /\ Rested(t) /\ sess[t].active
    BY <1>4, <2>1 DEF SessionsOK
  <2>. QED
    BY <1>1, <2>2 DEF Rested
<1>11. \A v \in Senders : WorkerOK(v)'
  <2>. SUFFICES ASSUME NEW v \in Senders PROVE WorkerOK(v)'
    OBVIOUS
  <2>1. Holding(v) => /\ sender[v].sess \in Sessions \ {poolLock}
                      /\ sess[sender[v].sess] \in SessionObjects
    BY HolderAlone
  <2>2. WorkerOK(v) /\ sender'[v] = sender[v] /\ lag' = lag
    BY <1>1 DEF SessionsOK
  <2>. QED
    BY <1>2, <1>4, <2>1, <2>2, WorkerOKSame
<1>. QED
  BY <1>5, <1>7, <1>9, <1>10, <1>11 DEF SessionsOK

-----------------------------------------------------------------------------
\* The steps of a worker but for commands.
LEMMA StartMailKeeps ==
    ASSUME SmtpCore, NEW w \in Senders, StartMail(w)
    PROVE  SmtpCore'
<1>. USE DEF SmtpCore
<1>1. /\ sender[w].at = "free" /\ UNCHANGED <<sess, pool, poolLock, lag>>
  BY DEF StartMail, smtpGhosts
<1>2. PICK m \in Mails : /\ mail' = [mail EXCEPT ![m] = "working"]
                         /\ sender' = [sender EXCEPT ![w] = [Free EXCEPT !.at = "get", !.mail = m]]
  BY DEF StartMail
<1>3. /\ sender \in [Senders -> Workers] /\ mail \in [Mails -> Statuses] /\ lag \in Nat
  BY DEF SmtpTypeOK, Statuses
<1>. DEFINE begun == [Free EXCEPT !.at = "get", !.mail = m]
<1>4. begun \in Workers /\ begun.at = "get" /\ begun.mail = m /\ begun.sess = NoSession
  BY DEF Free, Workers, Steps
<1>. HIDE DEF begun
<1>5. /\ sender' \in [Senders -> Workers] /\ sender'[w] = begun
      /\ \A v \in Senders \ {w} : sender'[v] = sender[v]
  BY <1>2, <1>3, <1>4 DEF begun
<1>6. SmtpTypeOK'
  BY <1>1, <1>2, <1>3, <1>5 DEF SmtpTypeOK, Statuses
<1>7. sender[w].sess = NoSession
  BY <1>1 DEF SessionHeld
<1>8. SessionHeld'
  BY <1>1, <1>4, <1>5, <1>7 DEF SessionHeld
<1>9. Live' = Live
  <2>1. \A v \in Senders : sender'[v].sess = sender[v].sess
    BY <1>4, <1>5, <1>7
  <2>. QED
    BY <1>1, <2>1 DEF Live, Pooled
<1>10. \A s \in Sessions : SessionOK(s)' /\ (s \notin Live' => sess'[s] = NewSession)
  BY <1>1, <1>9, SessionOKSame DEF SessionsOK
<1>11. \A s \in Members(pool') : Rested(s)' /\ sess'[s].active
  BY <1>1 DEF SessionsOK, Rested
<1>12. \A v \in Senders : WorkerOK(v)'
  <2>1. WorkerOK(w)'
    BY <1>4, <1>5 DEF WorkerOK, Commands
  <2>2. ASSUME NEW v \in Senders \ {w} PROVE WorkerOK(v)'
    <3>1. Holding(v) => sess[sender[v].sess] \in SessionObjects
      BY HolderAlone
    <3>2. WorkerOK(v) /\ sender'[v] = sender[v]
      BY <1>5 DEF SessionsOK
    <3>. QED
      BY <1>1, <1>3, <3>1, <3>2, WorkerOKSame
  <2>. QED
    BY <2>1, <2>2
<1>. QED
  BY <1>6, <1>8, <1>10, <1>11, <1>12 DEF SessionsOK

\* After the process has gone nothing is left to be wrong.
LEMMA WriteTimesOutKeeps ==
    ASSUME SmtpCore, NEW w \in Senders, WriteTimesOut(w)
    PROVE  SmtpCore'
<1>. USE DEF SmtpCore
<1>. DEFINE gone == [Free EXCEPT !.at = "gone"]
<1>1. gone \in Workers /\ gone.at = "gone" /\ gone.sess = NoSession
  BY DEF Free, Workers, Steps
<1>2. NewSession \in SessionObjects /\ ~NewSession.active /\ NewSession.link.mode = "idle"
  BY NoLinkTypes DEF NewSession, SessionObjects
<1>3. /\ sender' = [v \in Senders |-> gone] /\ sess' = [s \in Sessions |-> NewSession]
      /\ pool' = <<>> /\ poolLock' = NoSession /\ lag' = lag
      /\ mail' = [m \in Mails |-> IF mail[m] = "working" THEN "queued" ELSE mail[m]]
  BY DEF WriteTimesOut, smtpGhosts
<1>. HIDE DEF gone
<1>4. /\ \A v \in Senders : sender'[v] = gone
      /\ \A s \in Sessions : sess'[s] = NewSession
      /\ Members(pool') = {} /\ Distinct(pool')
  BY <1>3 DEF Members, Distinct
<1>5. SmtpTypeOK'
  <2>1. mail' \in [Mails -> Statuses]
    BY <1>3 DEF SmtpTypeOK, Statuses
  <2>2. sender' \in [Senders -> Workers] /\ sess' \in [Sessions -> SessionObjects]
    BY <1>1, <1>2, <1>3
  <2>3. pool' \in Seq(Sessions)
    BY <1>3
  <2>. QED
    BY <1>3, <2>1, <2>2, <2>3 DEF SmtpTypeOK, Statuses
<1>6. SessionHeld'
  BY <1>1, <1>3, <1>4 DEF SessionHeld
<1>7. \A s \in Sessions : SessionOK(s)'
  BY <1>2, <1>4 DEF SessionOK
<1>8. \A v \in Senders : WorkerOK(v)'
  BY <1>1, <1>4 DEF WorkerOK, Commands
<1>. QED
  BY <1>4, <1>5, <1>6, <1>7, <1>8 DEF SessionsOK

\* A new connection is clean; an active session stays as it is.
LEMMA BeginSessionKeeps ==
    ASSUME SmtpCore, NEW w \in Senders, BeginSession(w)
    PROVE  SmtpCore'
<1>. DEFINE s == sender[w].sess
<1>1. /\ sender[w].at = "begin" /\ sender' = [sender EXCEPT ![w].at = "rset"]
      /\ UNCHANGED <<mail, pool, poolLock, lag>>
  BY DEF BeginSession, GoOn, smtpGhosts
<1>2. /\ sender \in [Senders -> Workers] /\ mail \in [Mails -> Statuses] /\ lag \in Nat
      /\ sess \in [Sessions -> SessionObjects]
  BY DEF SmtpCore, SmtpTypeOK, Statuses
<1>3. Holding(w)
  BY <1>1 DEF Holding, Steps
<1>4. s \in Sessions /\ sess[s] \in SessionObjects /\ SessionOK(s) /\ WorkerOK(w)
  BY <1>3, HolderAlone
<1>5. /\ OnlySender(w) /\ sender'[w].at = "rset" /\ sender'[w].sess = s /\ sender'[w].mail = sender[w].mail
  BY <1>1, <1>2 DEF OnlySender, Workers, Steps
<1>6. Rested(s)
  BY <1>1, <1>4 DEF WorkerOK
<1>. HIDE DEF s
<1>7. /\ OnlySession(s) /\ sess'[s].active /\ sess'[s].link.answers = sess[s].link.answers
      /\ sess'[s].dirty \/ Clean(sess'[s].link)
      /\ sess'[s].link.open \/ sess'[s].link.mode = "idle"
  <2>1. CASE sess[s].active
    <3>1. sess' = sess
      BY <2>1 DEF BeginSession, s
    <3>. QED
      BY <1>2, <1>4, <1>6, <2>1, <3>1 DEF OnlySession, Rested, SessionOK, SessionObjects
  <2>2. CASE ~sess[s].active
    <3>1. sess' = [sess EXCEPT ![s] = [@ EXCEPT !.active = TRUE, !.dirty = FALSE, !.link.open = TRUE]]
      BY <2>2 DEF BeginSession, s
    <3>2. /\ sess'[s] = [sess[s] EXCEPT !.active = TRUE, !.dirty = FALSE, !.link.open = TRUE]
          /\ \A t \in Sessions \ {s} : sess'[t] = sess[t]
      BY <1>2, <1>4, <3>1
    <3>3. sess[s].link = NoLink /\ sess[s].link \in Links
      BY <1>4, <2>2, NoLinkTypes DEF SessionOK, NewSession
    <3>4. /\ sess'[s] \in SessionObjects /\ sess'[s].active
          /\ sess'[s].link = [sess[s].link EXCEPT !.open = TRUE]
      <4>1. PICK k \in Links : k = [sess[s].link EXCEPT !.open = TRUE]
        BY <3>3 DEF Links
      <4>2. sess'[s] = [sess[s] EXCEPT !.active = TRUE, !.dirty = FALSE,
                                       !.link = [sess[s].link EXCEPT !.open = TRUE]]
        BY <1>4, <3>2 DEF SessionObjects
      <4>3. sess'[s] = [sess[s] EXCEPT !.active = TRUE, !.dirty = FALSE, !.link = k]
        BY <4>1, <4>2, Zenon
      <4>4. sess'[s] \in SessionObjects /\ sess'[s].active /\ sess'[s].link = k
        BY <1>4, <4>3 DEF SessionObjects
      <4>. QED
        BY <4>1, <4>4
    <3>5. /\ sess'[s].link.open /\ sess'[s].link.answers = NoLink.answers /\ sess'[s].link.mode = NoLink.mode
          /\ sess'[s].link.to = NoLink.to /\ sess'[s].link.pure = NoLink.pure
      BY <3>3, <3>4 DEF Links
    <3>6. Clean(sess'[s].link)
      BY <3>5 DEF Clean, NoLink
    <3>7. sess' \in [Sessions -> SessionObjects]
      BY <1>2, <3>1, <3>2, <3>4
    <3>. QED
      BY <3>2, <3>3, <3>4, <3>5, <3>6, <3>7 DEF OnlySession
  <2>. QED
    BY <2>1, <2>2
<1>8. sess'[s] \in SessionObjects
  BY <1>4, <1>7 DEF OnlySession
<1>9. KeepsSession(w)
  BY <1>1, <1>2, <1>5, <1>7 DEF KeepsSession, Steps, s
<1>10. SessionOK(sender[w].sess)'
  BY <1>5, <1>7 DEF SessionOK, s
<1>11. WorkerOK(w)'
  <2>1. Rested(sender[w].sess)'
    BY <1>1, <1>5, <1>6, <1>7 DEF Rested, s
  <2>. QED
    BY <1>5, <1>7, <2>1 DEF WorkerOK, Commands
<1>. QED
  BY <1>3, <1>9, <1>10, <1>11, KeepsCore

\* A session that cannot begin is deleted.
LEMMA BeginFailsKeeps ==
    ASSUME SmtpCore, NEW w \in Senders, BeginFails(w)
    PROVE  SmtpCore'
<1>1. /\ sender[w].at = "begin" /\ sess' = [sess EXCEPT ![sender[w].sess] = NewSession]
      /\ UNCHANGED <<pool, poolLock, lag>>
  BY DEF BeginFails, Delete, smtpGhosts
<1>2. /\ sender \in [Senders -> Workers] /\ mail \in [Mails -> Statuses]
      /\ sess \in [Sessions -> SessionObjects]
  BY DEF SmtpCore, SmtpTypeOK, Statuses
<1>3. Holding(w)
  BY <1>1 DEF Holding, Steps
<1>4. sender[w].sess \in Sessions /\ sender[w].mail \in Mails
  BY <1>3, HolderAlone
<1>5. NewSession \in SessionObjects
  BY NoLinkTypes DEF NewSession, SessionObjects
<1>6. OnlySession(sender[w].sess) /\ sess'[sender[w].sess] = NewSession
  BY <1>1, <1>2, <1>4, <1>5 DEF OnlySession
<1>7. /\ mail' \in [Mails -> Statuses] /\ OnlySender(w)
      /\ sender'[w].sess = NoSession /\ sender'[w].at \in {"free", "get"}
      /\ sender'[w].at = "get" => sender'[w].mail = sender[w].mail
  <2>1. CASE /\ sender[w].mx < MXServers
             /\ sender' = [sender EXCEPT ![w].at = "get", ![w].sess = NoSession, ![w].mx = @ + 1]
             /\ mail' = mail
    <3>1. sender[w] \in Workers /\ sender[w].mx + 1 \in Nat
      BY <1>2 DEF Workers
    <3>. QED
      BY <1>2, <2>1, <3>1 DEF OnlySender, Workers, Steps
  <2>2. CASE /\ Settle(w, "queued") \/ Settle(w, "failed")
             /\ sender' = [sender EXCEPT ![w] = Free]
    <3>1. Free \in Workers /\ Free.at = "free" /\ Free.sess = NoSession
      BY DEF Free, Workers, Steps
    <3>2. mail' \in [Mails -> Statuses]
      BY <1>2, <2>2 DEF Settle, Statuses
    <3>. QED
      BY <1>2, <2>2, <3>1, <3>2 DEF OnlySender
  <2>. QED
    BY <2>1, <2>2 DEF BeginFails
<1>8. LosesSession(w)
  BY <1>1, <1>6, <1>7 DEF LosesSession
<1>. QED
  BY <1>3, <1>8, LosesCore

\* A session that is put back unused is as it was taken.
LEMMA OpenFailsKeeps ==
    ASSUME SmtpCore, NEW w \in Senders, OpenFails(w)
    PROVE  SmtpCore'
<1>1. /\ sender[w].at = "rset" /\ sender' = [sender EXCEPT ![w].at = "putBack"]
      /\ mail' = [mail EXCEPT ![sender[w].mail] = "queued"] /\ UNCHANGED <<sess, pool, poolLock, lag>>
  BY DEF OpenFails, GoOn, Settle, smtpGhosts
<1>2. /\ sender \in [Senders -> Workers] /\ mail \in [Mails -> Statuses]
      /\ sess \in [Sessions -> SessionObjects]
  BY DEF SmtpCore, SmtpTypeOK, Statuses
<1>3. Holding(w)
  BY <1>1 DEF Holding, Steps
<1>4. SessionOK(sender[w].sess) /\ WorkerOK(w)
  BY <1>3, HolderAlone
<1>5. /\ OnlySender(w) /\ sender'[w].at = "putBack" /\ sender'[w].sess = sender[w].sess
      /\ sender'[w].mail = sender[w].mail
  BY <1>1, <1>2 DEF OnlySender, Workers, Steps
<1>6. KeepsSession(w)
  BY <1>1, <1>2, <1>5 DEF KeepsSession, OnlySession, Steps, Statuses
<1>7. SessionOK(sender[w].sess)'
  BY <1>1, <1>4, <1>5 DEF SessionOK
<1>8. WorkerOK(w)'
  BY <1>1, <1>4, <1>5 DEF WorkerOK, Commands, Rested, Link
<1>. QED
  BY <1>3, <1>6, <1>7, <1>8, KeepsCore

\* rset() of a session that need not be reset.
LEMMA RsetSkippedKeeps ==
    ASSUME SmtpCore, NEW w \in Senders, Rset(w), ~sess[sender[w].sess].dirty
    PROVE  SmtpCore'
<1>1. /\ sender[w].at = "rset" /\ sender' = [sender EXCEPT ![w].at = "mail"]
      /\ UNCHANGED <<mail, sess, pool, poolLock, lag>>
  BY DEF Rset, GoOn, smtpGhosts
<1>2. /\ sender \in [Senders -> Workers] /\ mail \in [Mails -> Statuses]
      /\ sess \in [Sessions -> SessionObjects]
  BY DEF SmtpCore, SmtpTypeOK, Statuses
<1>3. Holding(w)
  BY <1>1 DEF Holding, Steps
<1>4. SessionOK(sender[w].sess) /\ WorkerOK(w)
  BY <1>3, HolderAlone
<1>5. /\ OnlySender(w) /\ sender'[w].at = "mail" /\ sender'[w].sess = sender[w].sess
      /\ sender'[w].mail = sender[w].mail
  BY <1>1, <1>2 DEF OnlySender, Workers, Steps, Commands
<1>6. KeepsSession(w)
  BY <1>1, <1>2, <1>5 DEF KeepsSession, OnlySession, Steps, Commands
<1>7. SessionOK(sender[w].sess)'
  BY <1>1, <1>4, <1>5 DEF SessionOK
<1>8. Clean(Link(w)) /\ sess[sender[w].sess].active
  BY <1>1, <1>4 DEF WorkerOK, Rested, Link
<1>9. OrderOK(Link(w), "mail", sender[w].mail) /\ DOMAIN Link(w).answers = {}
  <2>1. /\ Link(w).answers = <<>> /\ Link(w).mode = "idle" /\ Link(w).to = {} /\ Link(w).pure
    BY <1>8 DEF Clean
  <2>2. Link(w).open => InStep(Link(w), "mail", sender[w].mail)
    BY <2>1 DEF InStep
  <2>3. Len(Link(w).answers) = 0
    BY <2>1
  <2>. QED
    BY <2>1, <2>2, <2>3, Places DEF OrderOK
<1>10. Link(w)' = Link(w)
  BY <1>1, <1>5 DEF Link
<1>11. WorkerOK(w)'
  BY <1>1, <1>5, <1>8, <1>9, <1>10 DEF WorkerOK, Commands
<1>. QED
  BY <1>3, <1>6, <1>7, <1>11, KeepsCore


-----------------------------------------------------------------------------
\* The commands of a delivery, with the answer that leads on to the next one.
Delivering ==
    {<<"rset", "250", "mail">>, <<"mail", "250", "rcpt">>, <<"rcpt", "250", "data">>,
     <<"data", "354", "dot">>, <<"dot", "250", "putBack">>}

\* The answer ends the delivery for good.
Final(command, r) == command # "rset" /\ r.code = "5xx"

\* What the worker does after a command and the answer r; l1 is the connection then.
Exchange(w, command, ok, next, served, l1, r) ==
    /\ Carried(Link(w), command, sender[w].mail, served, l1, r)
    /\ taken' = IF /\ command = "dot" /\ Link(w).mode = "data"
                   /\ served = Accepted(Link(w), "dot", sender[w].mail)
                THEN taken \cup {[to |-> t, text |-> sender[w].mail, pure |-> Link(w).pure]
                                     : t \in Link(w).to}
                ELSE taken
    /\ Final(command, r) =>
          /\ LosesSession(w)
          /\ mail' = [mail EXCEPT ![sender[w].mail] = "failed"]
          /\ misread' = IF r.about = sender[w].mail THEN misread ELSE misread \cup {sender[w].mail}
    /\ ~Final(command, r) =>
          /\ KeepsSession(w)
          /\ sess'[sender[w].sess].link = l1
          /\ sess'[sender[w].sess].active = sess[sender[w].sess].active
          /\ sess'[sender[w].sess].dirty = ~(command = "rset" /\ r.code = ok)
          /\ sender'[w].at = (IF r.code = ok THEN next ELSE "putBack")
          /\ mail' = (CASE r.code # ok -> [mail EXCEPT ![sender[w].mail] = "queued"]
                        [] r.code = ok /\ command = "dot" -> [mail EXCEPT ![sender[w].mail] = "success"]
                        [] OTHER -> mail)
          /\ misread' = misread

\* What Command says of them.
Outcome(w, command, ok, next, served, l, r) ==
    LET s == sender[w].sess
        m == sender[w].mail
    IN  /\ taken' = IF command = "dot" /\ sess[s].link.mode = "data"
                       /\ served = Accepted(sess[s].link, "dot", m)
                    THEN taken \cup {[to |-> t, text |-> m, pure |-> sess[s].link.pure] : t \in sess[s].link.to}
                    ELSE taken
        /\ IF r.code \in FinalCodes(command)
           THEN /\ Delete(w) /\ Settle(w, "failed")
                /\ sender' = [sender EXCEPT ![w] = Free]
                /\ misread' = IF r.about = m THEN misread ELSE misread \cup {m}
           ELSE /\ sess' = [sess EXCEPT ![s] = After(s, command, l, r, ok)]
                /\ GoOn(w, IF r.code = ok THEN next ELSE "putBack")
                /\ CASE r.code # ok -> Settle(w, "queued")
                     [] r.code = ok /\ command = "dot" -> Settle(w, "success")
                     [] OTHER -> UNCHANGED mail
                /\ UNCHANGED misread

\* What Command says, with the bound on time-outs left aside.
LEMMA CommandOutcome ==
    ASSUME NEW w, NEW command, NEW ok, NEW next, Command(w, command, ok, next)
    PROVE  \E served \in IF Link(w).open THEN Served(Link(w), command, sender[w].mail) ELSE {Link(w)} :
           \E l \in IF served.open THEN Kept(served) ELSE {served} : \E r \in Reads(l) :
              Outcome(w, command, ok, next, served, l, r)
<1>. DEFINE inTime(r) == timeouts' = timeouts + r.late /\ timeouts' <= MaxTimeouts
<1>1. \E served \in IF Link(w).open THEN Served(Link(w), command, sender[w].mail) ELSE {Link(w)} :
      \E l \in IF served.open THEN Kept(served) ELSE {served} : \E r \in Reads(l) :
         inTime(r) /\ Outcome(w, command, ok, next, served, l, r)
  BY Zenon DEF Command, Outcome, Link
<1>. QED
  BY <1>1

\* Every command is such an exchange.
LEMMA CommandExchanges ==
    ASSUME SmtpCore, NEW w \in Senders, NEW command, NEW ok, NEW next,
           <<command, ok, next>> \in Delivering, Command(w, command, ok, next)
    PROVE  \E served, l1, r : Exchange(w, command, ok, next, served, l1, r)
<1>. DEFINE s == sender[w].sess
            m == sender[w].mail
            l0 == Link(w)
<1>0. /\ command \in Commands \cup {"rset"} /\ next \in (Commands \cup {"putBack"})
      /\ sender[w].at = command
  BY DEF Delivering, Commands, Command
<1>1. Holding(w)
  BY <1>0 DEF Holding, Steps, Commands
<1>2. /\ s \in Sessions /\ m \in Mails /\ sess[s] \in SessionObjects /\ l0 \in Links
      /\ ~l0.open => l0.mode = "idle"
  BY <1>1, HolderAlone DEF SessionOK, Link
<1>3. /\ sender \in [Senders -> Workers] /\ mail \in [Mails -> Statuses]
      /\ sess \in [Sessions -> SessionObjects]
  BY DEF SmtpCore, SmtpTypeOK, Statuses
<1>4. l0 = sess[s].link
  BY DEF Link
<1>5. PICK served \in IF l0.open THEN Served(l0, command, m) ELSE {l0} :
      \E l \in IF served.open THEN Kept(served) ELSE {served} : \E r \in Reads(l) :
         Outcome(w, command, ok, next, served, l, r)
  BY CommandOutcome
<1>6. PICK l \in IF served.open THEN Kept(served) ELSE {served} : \E r \in Reads(l) :
         Outcome(w, command, ok, next, served, l, r)
  BY <1>5
<1>7. PICK r \in Reads(l) : Outcome(w, command, ok, next, served, l, r)
  BY <1>6
<1>. HIDE DEF l0
<1>. PICK l1 : l1 = [l EXCEPT !.answers = r.left]
  OBVIOUS
<1>8. Carried(l0, command, m, served, l1, r) /\ l1 \in Links
  <2>1. Carried(l0, command, m, served, l1, r)
    BY <1>0, <1>2, Exchanged
  <2>. QED
    BY <2>1 DEF Carried
<1>9. Final(command, r) <=> r.code \in FinalCodes(command)
  BY DEF Final, FinalCodes
<1>10. UNCHANGED <<pool, poolLock, lag>>
  BY DEF Command
<1>11. ASSUME Final(command, r)
       PROVE  /\ LosesSession(w)
              /\ mail' = [mail EXCEPT ![m] = "failed"]
              /\ misread' = IF r.about = m THEN misread ELSE misread \cup {m}
  <2>1. /\ sess' = [sess EXCEPT ![s] = NewSession] /\ mail' = [mail EXCEPT ![m] = "failed"]
        /\ sender' = [sender EXCEPT ![w] = Free]
        /\ misread' = IF r.about = m THEN misread ELSE misread \cup {m}
    BY <1>7, <1>9, <1>11 DEF Outcome, Delete, Settle
  <2>2. NewSession \in SessionObjects
    BY NoLinkTypes DEF NewSession, SessionObjects
  <2>3. Free \in Workers /\ Free.at = "free" /\ Free.sess = NoSession
    BY DEF Free, Workers, Steps
  <2>4. OnlySession(s) /\ sess'[s] = NewSession
    BY <1>2, <1>3, <2>1, <2>2 DEF OnlySession
  <2>5. OnlySender(w) /\ sender'[w].sess = NoSession /\ sender'[w].at = "free"
    BY <1>3, <2>1, <2>3 DEF OnlySender
  <2>6. mail' \in [Mails -> Statuses]
    BY <1>2, <1>3, <2>1 DEF Statuses
  <2>. QED
    BY <1>10, <2>1, <2>4, <2>5, <2>6 DEF LosesSession
<1>12. ASSUME ~Final(command, r)
       PROVE  /\ KeepsSession(w) /\ sess'[s].link = l1
              /\ sess'[s].active = sess[s].active
              /\ sess'[s].dirty = ~(command = "rset" /\ r.code = ok)
              /\ sender'[w].at = (IF r.code = ok THEN next ELSE "putBack")
              /\ mail' = (CASE r.code # ok -> [mail EXCEPT ![m] = "queued"]
                            [] r.code = ok /\ command = "dot" -> [mail EXCEPT ![m] = "success"]
                            [] OTHER -> mail)
              /\ misread' = misread
  <2>. DEFINE dirty == ~(command = "rset" /\ r.code = ok)
              at == IF r.code = ok THEN next ELSE "putBack"
  <2>0. dirty \in BOOLEAN /\ at \in Commands \cup {"putBack"}
    BY <1>0
  <2>1. sess' = [sess EXCEPT ![s] = [sess[s] EXCEPT !.link = l1, !.dirty = dirty]]
    BY <1>7, <1>9, <1>12 DEF Outcome, After
  <2>2. sender' = [sender EXCEPT ![w].at = at]
    BY <1>7, <1>9, <1>12 DEF Outcome, GoOn
  <2>3. /\ mail' = (CASE r.code # ok -> [mail EXCEPT ![m] = "queued"]
                      [] r.code = ok /\ command = "dot" -> [mail EXCEPT ![m] = "success"]
                      [] OTHER -> mail)
        /\ misread' = misread
    BY <1>7, <1>9, <1>12 DEF Outcome, Settle
  <2>. HIDE DEF dirty, at
  <2>4. sess'[s] = [sess[s] EXCEPT !.link = l1, !.dirty = dirty]
        /\ \A t \in Sessions \ {s} : sess'[t] = sess[t]
    BY <1>2, <1>3, <2>1
  <2>5. /\ sess'[s] \in SessionObjects /\ sess'[s].link = l1 /\ sess'[s].active = sess[s].active
        /\ sess'[s].dirty = dirty
    BY <1>2, <1>8, <2>0, <2>4 DEF SessionObjects
  <2>6. sess' \in [Sessions -> SessionObjects]
    BY <1>2, <1>3, <2>1, <2>4, <2>5
  <2>7. /\ sender' \in [Senders -> Workers] /\ sender'[w].at = at
        /\ sender'[w].sess = s /\ sender'[w].mail = m
        /\ \A v \in Senders \ {w} : sender'[v] = sender[v]
    <3>1. at \in Steps
      BY <2>0 DEF Steps
    <3>. QED
      BY <1>3, <2>2, <3>1 DEF Workers
  <2>8. mail' \in [Mails -> Statuses]
    BY <1>2, <1>3, <2>3 DEF Statuses
  <2>9. at \in Steps \ {"free", "get", "gone"}
    BY <2>0 DEF Steps, Commands
  <2>10. OnlySession(s) /\ OnlySender(w)
    BY <2>4, <2>6, <2>7 DEF OnlySession, OnlySender
  <2>11. KeepsSession(w)
    BY <1>10, <2>7, <2>8, <2>9, <2>10 DEF KeepsSession
  <2>. QED
    BY <2>3, <2>5, <2>7, <2>11 DEF dirty, at
<1>13. Exchange(w, command, ok, next, served, l1, r)
  BY <1>7, <1>8, <1>11, <1>12 DEF Exchange, Outcome, Link, l0
<1>. QED
  BY <1>13

\* With a lag of less than four, whoever goes on is in order with the server.
LEMMA ExchangeOrder ==
    ASSUME SmtpCore, NEW w \in Senders, NEW command, NEW ok, NEW next,
           <<command, ok, next>> \in Delivering, sender[w].at = command,
           NEW served, NEW l1, NEW r, Exchange(w, command, ok, next, served, l1, r),
           r.code = ok, next # "putBack", lag < 4
    PROVE  OrderOK(l1, next, sender[w].mail)
<1>. DEFINE m == sender[w].mail
            l0 == Link(w)
<1>1. Holding(w)
  BY DEF Holding, Steps, Commands, Delivering
<1>2. m \in Mails /\ l0 \in Links /\ WorkerOK(w) /\ lag \in Nat
  BY <1>1, HolderAlone DEF SmtpCore, SmtpTypeOK
<1>3. Carried(l0, command, m, served, l1, r)
  BY DEF Exchange
<1>4. l1 \in Links /\ (Ignored(l0, command, l1, r) \/ \E x \in Answer : Replied(l0, command, m, l1, r, x))
  BY <1>3 DEF Carried, Delivering
<1>. HIDE DEF l0, m
<1>5. CASE command = "rset"
  <2>1. r.code = "250" /\ next = "mail"
    BY <1>5 DEF Delivering
  <2>2. Len(l0.answers) <= lag
    BY <1>2, <1>5 DEF WorkerOK, Rested, Link, l0
  <2>3. Len(l0.answers) \in Nat
    BY <1>2, AnswersCounted
  <2>4. Len(l0.answers) < 4
    BY <1>2, <2>2, <2>3
  <2>. QED
    BY <1>2, <1>4, <1>5, <2>1, <2>4, OrderAfterRset DEF m
<1>6. CASE command # "rset"
  <2>0. command \in {"mail", "rcpt", "data"}
    BY <1>6 DEF Delivering
  <2>1. OrderOK(l0, command, m)
    BY <1>2, <2>0 DEF WorkerOK, Commands, l0, m
  <2>2. CASE command = "mail" \/ command = "rcpt"
    <3>1. r.code = "250" /\ (command = "mail" => next = "rcpt") /\ (command = "rcpt" => next = "data")
      BY <2>2 DEF Delivering
    <3>. QED
      BY <1>2, <1>4, <2>1, <2>2, <3>1, OrderAfterMail DEF m
  <2>3. CASE command = "data"
    <3>1. r.code = "354" /\ next = "dot"
      BY <2>3 DEF Delivering
    <3>. QED
      BY <1>2, <1>4, <2>1, <2>3, <3>1, OrderAfterData DEF m
  <2>. QED
    BY <2>0, <2>2, <2>3
<1>. QED
  BY <1>5, <1>6

\* With a lag of less than two, the answers left are to the message's own commands.
LEMMA ExchangeOwn ==
    ASSUME SmtpCore, NEW w \in Senders, NEW command, NEW ok, NEW next,
           <<command, ok, next>> \in Delivering, sender[w].at = command,
           NEW served, NEW l1, NEW r, Exchange(w, command, ok, next, served, l1, r),
           r.code # "none", lag < 2
    PROVE  Own(l1, sender[w].mail) /\ (command # "rset" => r.about = sender[w].mail)
<1>. DEFINE m == sender[w].mail
            l0 == Link(w)
<1>1. Holding(w)
  BY DEF Holding, Steps, Commands, Delivering
<1>2. m \in Mails /\ l0 \in Links /\ WorkerOK(w) /\ lag \in Nat
  BY <1>1, HolderAlone DEF SmtpCore, SmtpTypeOK
<1>3. Carried(l0, command, m, served, l1, r)
  BY DEF Exchange
<1>4. l1 \in Links /\ (Ignored(l0, command, l1, r) \/ \E x \in Answer : Replied(l0, command, m, l1, r, x))
  BY <1>3 DEF Carried
<1>. HIDE DEF l0, m
<1>5. command = "rset" => Len(l0.answers) < 2
  <2>. SUFFICES ASSUME command = "rset" PROVE Len(l0.answers) < 2
    OBVIOUS
  <2>1. Len(l0.answers) <= lag
    BY <1>2 DEF WorkerOK, Rested, Link, l0
  <2>2. Len(l0.answers) \in Nat
    BY <1>2, AnswersCounted
  <2>. QED
    BY <1>2, <2>1, <2>2
<1>6. command # "rset" => Own(l0, m)
  <2>1. command # "rset" => command \in Commands
    BY DEF Delivering, Commands
  <2>. QED
    BY <1>2, <2>1 DEF WorkerOK, Own, l0, m
<1>7. Len(l0.answers) < 2 \/ Own(l0, m)
  BY <1>5, <1>6
<1>8. OwnLeft(l0, m, l1, r)
  BY <1>2, <1>4, <1>7, OwnAnswersLeft
<1>. QED
  BY <1>6, <1>8 DEF OwnLeft, m

\* A command keeps the core.
LEMMA ExchangeKeeps ==
    ASSUME SmtpCore, NEW w \in Senders, NEW command, NEW ok, NEW next,
           <<command, ok, next>> \in Delivering, sender[w].at = command,
           NEW served, NEW l1, NEW r, Exchange(w, command, ok, next, served, l1, r)
    PROVE  SmtpCore'
<1>1. Holding(w)
  BY DEF Holding, Steps, Commands, Delivering
<1>2. CASE Final(command, r)
  BY <1>1, <1>2, LosesCore DEF Exchange
<1>3. CASE ~Final(command, r)
  <2>1. /\ KeepsSession(w) /\ sess'[sender[w].sess].link = l1
        /\ sess'[sender[w].sess].active = sess[sender[w].sess].active
        /\ sess'[sender[w].sess].dirty = ~(command = "rset" /\ r.code = ok)
        /\ sender'[w].at = (IF r.code = ok THEN next ELSE "putBack")
    BY <1>3 DEF Exchange
  <2>2. sender'[w].sess = sender[w].sess /\ sender'[w].mail = sender[w].mail /\ lag' = lag
    BY <2>1 DEF KeepsSession
  <2>3. ~l1.open => l1.mode = "idle"
    BY DEF Exchange, Carried
  <2>4. command \in Commands \cup {"rset"} /\ next \in Commands \cup {"putBack"} /\ ok # "none"
        /\ (next = "putBack" => command # "rset")
    BY DEF Delivering, Commands
  <2>5. sess[sender[w].sess].active
    <3>1. WorkerOK(w)
      BY <1>1, HolderAlone
    <3>. QED
      BY <2>4, <3>1 DEF WorkerOK
  <2>6. SessionOK(sender[w].sess)'
    BY <2>1, <2>2, <2>3, <2>5 DEF SessionOK
  <2>7. Link(w)' = l1
    BY <2>1, <2>2 DEF Link
  <2>8. sender'[w].at \in Commands => r.code = ok /\ sender'[w].at = next /\ next # "putBack"
    BY <2>1, <2>4 DEF Commands
  <2>9. lag < 4 /\ sender'[w].at \in Commands => OrderOK(l1, sender'[w].at, sender[w].mail)
    BY <2>8, ExchangeOrder
  <2>10. lag < 2 /\ sender'[w].at \in Commands =>
            \A i \in DOMAIN l1.answers : l1.answers[i].about = sender[w].mail
    BY <2>4, <2>8, ExchangeOwn DEF Own
  <2>11. /\ sender'[w].at \in Commands \cup {"putBack"}
         /\ {"begin", "rset"} \cap (Commands \cup {"putBack"}) = {}
    BY <2>1, <2>4 DEF Commands
  <2>12. sender'[w].at = "putBack" => sess'[sender[w].sess].dirty
    BY <2>1, <2>4
  <2>13. WorkerOK(w)'
    BY <2>1, <2>2, <2>5, <2>7, <2>9, <2>10, <2>11, <2>12 DEF WorkerOK
  <2>. QED
    BY <1>1, <2>1, <2>6, <2>13, KeepsCore
<1>. QED
  BY <1>2, <1>3

\* A worker's command is one of those.
LEMMA CommandOf ==
    ASSUME SmtpCore, NEW w \in Senders,
           \/ (Rset(w) /\ sess[sender[w].sess].dirty) \/ MailFrom(w) \/ RcptTo(w) \/ Data(w) \/ EndOfData(w)
    PROVE  \E command, ok, next, served, l1, r :
              /\ <<command, ok, next>> \in Delivering /\ sender[w].at = command
              /\ Exchange(w, command, ok, next, served, l1, r)
<1>1. ASSUME NEW command, NEW ok, NEW next, <<command, ok, next>> \in Delivering,
             Command(w, command, ok, next)
      PROVE  \E served, l1, r : sender[w].at = command /\ Exchange(w, command, ok, next, served, l1, r)
  <2>1. sender[w].at = command
    BY <1>1 DEF Command
  <2>. QED
    BY <1>1, <2>1, CommandExchanges
<1>2. \E command, ok, next : <<command, ok, next>> \in Delivering /\ Command(w, command, ok, next)
  BY DEF Rset, MailFrom, RcptTo, Data, EndOfData, Delivering
<1>. QED
  BY <1>1, <1>2

-----------------------------------------------------------------------------
\* A step of no command: no text is delivered and no message reported.
Quiet ==
    /\ lag \in Nat /\ lag' \in Nat /\ lag <= lag'
    /\ UNCHANGED <<taken, misread>>
    /\ \A m \in Mails : mail'[m] = "success" => mail[m] = "success"

\* Quiet steps keep what is reported and delivered.
LEMMA QuietReports ==
    ASSUME Quiet, FatalIsOwn, SuccessIsTaken
    PROVE  FatalIsOwn' /\ SuccessIsTaken'
<1>1. (lag' < 2 => lag < 2) /\ (lag' < 4 => lag < 4)
  BY DEF Quiet
<1>. QED
  BY <1>1 DEF Quiet, FatalIsOwn, SuccessIsTaken

\* A message fails on an answer to itself.
LEMMA ExchangeFatal ==
    ASSUME SmtpCore, NEW w \in Senders, NEW command, NEW ok, NEW next,
           <<command, ok, next>> \in Delivering, sender[w].at = command,
           NEW served, NEW l1, NEW r, Exchange(w, command, ok, next, served, l1, r),
           FatalIsOwn
    PROVE  FatalIsOwn'
<1>1. lag' = lag
  BY DEF Exchange, KeepsSession, LosesSession
<1>2. ASSUME lag < 2, Final(command, r) PROVE misread' = misread
  <2>1. r.about = sender[w].mail
    BY <1>2, ExchangeOwn DEF Final
  <2>. QED
    BY <1>2, <2>1 DEF Exchange
<1>3. ASSUME ~Final(command, r) PROVE misread' = misread
  BY <1>3 DEF Exchange
<1>. QED
  BY <1>1, <1>2, <1>3 DEF FatalIsOwn

\* What the server takes for a message's text goes to its recipient as it is.
LEMMA ExchangeTakes ==
    ASSUME SmtpCore, NEW w \in Senders, NEW command, NEW ok, NEW next,
           <<command, ok, next>> \in Delivering, sender[w].at = command,
           NEW served, NEW l1, NEW r, Exchange(w, command, ok, next, served, l1, r),
           lag < 4
    PROVE  /\ taken \subseteq taken'
           /\ \A t \in taken' \ taken : t.to = t.text /\ t.pure
           /\ command = "dot" /\ r.code = "250" =>
                 \E t \in taken' : t.to = sender[w].mail /\ t.text = sender[w].mail
<1>. DEFINE m == sender[w].mail
            l0 == Link(w)
<1>1. Holding(w)
  BY DEF Holding, Steps, Commands, Delivering
<1>2. m \in Mails /\ l0 \in Links /\ WorkerOK(w) /\ (~l0.open => l0.mode = "idle")
  BY <1>1, HolderAlone DEF SessionOK, Link
<1>3. Carried(l0, command, m, served, l1, r)
  BY DEF Exchange
<1>4. taken' = IF command = "dot" /\ l0.mode = "data" /\ served = Accepted(l0, "dot", m)
               THEN taken \cup {[to |-> t, text |-> m, pure |-> l0.pure] : t \in l0.to}
               ELSE taken
  BY DEF Exchange
<1>. HIDE DEF l0, m
<1>5. CASE command # "dot"
  BY <1>4, <1>5
<1>6. CASE command = "dot"
  <2>1. OrderOK(l0, "dot", m)
    BY <1>2, <1>6 DEF WorkerOK, Commands, l0, m
  <2>2. /\ l0.answers = <<>>
        /\ l0.open => l0.mode = "data" /\ l0.to = {m} /\ l0.pure
        /\ \A k \in Links : \A q, x : Replied(l0, "dot", m, k, q, x) /\ x \in Answer => q.code = x.code
    BY <1>2, <2>1, OrderAtDot
  <2>3. l0.pure \in BOOLEAN
    BY <1>2 DEF Links
  <2>4. taken \subseteq taken' /\ \A t \in taken' \ taken : t.to = t.text /\ t.pure
    <3>1. CASE l0.mode = "data" /\ served = Accepted(l0, "dot", m)
      <4>1. l0.open /\ l0.to = {m} /\ l0.pure
        BY <1>2, <2>2, <3>1
      <4>2. taken' = taken \cup {[to |-> m, text |-> m, pure |-> l0.pure]}
        BY <1>4, <1>6, <3>1, <4>1
      <4>. QED
        BY <4>1, <4>2
    <3>2. CASE ~(l0.mode = "data" /\ served = Accepted(l0, "dot", m))
      BY <1>4, <3>2
    <3>. QED
      BY <3>1, <3>2
  <2>5. ASSUME r.code = "250" PROVE \E t \in taken' : t.to = m /\ t.text = m
    <3>1. PICK x \in Answer : /\ Replied(l0, "dot", m, l1, r, x)
                              /\ x.code = "250" => served = Accepted(l0, "dot", m)
      BY <1>3, <1>6, <2>2, <2>5 DEF Carried, Ignored
    <3>2. l1 \in Links
      BY <1>3 DEF Carried
    <3>3. x.code = "250"
      BY <2>2, <2>5, <3>1, <3>2
    <3>4. l0.open /\ l0.mode = "data" /\ l0.to = {m} /\ l0.pure /\ served = Accepted(l0, "dot", m)
      BY <2>2, <3>1, <3>3 DEF Replied
    <3>5. taken' = taken \cup {[to |-> t, text |-> m, pure |-> l0.pure] : t \in l0.to}
      BY <1>4, <1>6, <3>4
    <3>6. [to |-> m, text |-> m, pure |-> l0.pure] \in taken'
      BY <3>4, <3>5
    <3>. QED
      BY <3>6
  <2>. QED
    BY <2>4, <2>5 DEF m
<1>. QED
  BY <1>5, <1>6

\* So success is only reported of what was taken.
LEMMA ExchangeSuccess ==
    ASSUME SmtpCore, NEW w \in Senders, NEW command, NEW ok, NEW next,
           <<command, ok, next>> \in Delivering, sender[w].at = command,
           NEW served, NEW l1, NEW r, Exchange(w, command, ok, next, served, l1, r),
           SuccessIsTaken
    PROVE  SuccessIsTaken'
<1>. DEFINE m == sender[w].mail
<1>1. lag' = lag
  BY DEF Exchange, KeepsSession, LosesSession
<1>2. SUFFICES ASSUME lag < 4
               PROVE  /\ \A d \in Mails : mail'[d] = "success" => \E t \in taken' : t.to = d /\ t.text = d
                      /\ \A t \in taken' : t.to = t.text /\ t.pure
  BY <1>1 DEF SuccessIsTaken
<1>3. /\ \A d \in Mails : mail[d] = "success" => \E t \in taken : t.to = d /\ t.text = d
      /\ \A t \in taken : t.to = t.text /\ t.pure
  BY <1>2 DEF SuccessIsTaken
<1>4. /\ taken \subseteq taken'
      /\ \A t \in taken' \ taken : t.to = t.text /\ t.pure
      /\ command = "dot" /\ r.code = "250" => \E t \in taken' : t.to = m /\ t.text = m
  BY <1>2, ExchangeTakes
<1>5. mail \in [Mails -> Statuses]
  BY DEF SmtpCore, SmtpTypeOK, Statuses
<1>6. \/ mail' = [mail EXCEPT ![m] = "failed"]
      \/ mail' = [mail EXCEPT ![m] = "queued"]
      \/ mail' = mail
      \/ mail' = [mail EXCEPT ![m] = "success"] /\ command = "dot" /\ r.code = "250"
  BY DEF Exchange, Delivering
<1>. HIDE DEF m
<1>7. ASSUME NEW d \in Mails, mail'[d] = "success"
      PROVE  mail[d] = "success" \/ (d = m /\ command = "dot" /\ r.code = "250")
  <2>1. CASE mail' = [mail EXCEPT ![m] = "failed"]
    BY <1>5, <1>7, <2>1
  <2>2. CASE mail' = [mail EXCEPT ![m] = "queued"]
    BY <1>5, <1>7, <2>2
  <2>3. CASE mail' = mail
    BY <1>7, <2>3
  <2>4. CASE mail' = [mail EXCEPT ![m] = "success"] /\ command = "dot" /\ r.code = "250"
    BY <1>5, <1>7, <2>4
  <2>. QED
    BY <1>6, <2>1, <2>2, <2>3, <2>4
<1>. QED
  BY <1>3, <1>4, <1>7

-----------------------------------------------------------------------------
SmtpInv == SmtpCore /\ FatalIsOwn /\ SuccessIsTaken

\* Init ...
LEMMA SmtpStarts == SmtpInit => SmtpInv
<1>. SUFFICES ASSUME SmtpInit PROVE SmtpInv
  OBVIOUS
<1>1. /\ mail = [m \in Mails |-> "queued"] /\ sender = [w \in Senders |-> Free]
      /\ sess = [s \in Sessions |-> NewSession]
      /\ pool = <<>> /\ poolLock = NoSession /\ taken = {} /\ lag = 0 /\ misread = {}
  BY DEF SmtpInit
<1>2. NewSession \in SessionObjects /\ ~NewSession.active /\ NewSession.link.mode = "idle"
  BY NoLinkTypes DEF NewSession, SessionObjects
<1>3. Free \in Workers /\ Free.at = "free" /\ Free.sess = NoSession
  BY DEF Free, Workers, Steps
<1>4. /\ \A w \in Senders : sender[w] = Free
      /\ \A s \in Sessions : sess[s] = NewSession
      /\ Members(pool) = {} /\ Distinct(pool)
  BY <1>1 DEF Members, Distinct
<1>5. SmtpTypeOK
  <2>1. sender \in [Senders -> Workers] /\ sess \in [Sessions -> SessionObjects]
    BY <1>1, <1>2, <1>3
  <2>2. pool \in Seq(Sessions) /\ lag \in Nat
    BY <1>1
  <2>. QED
    BY <1>1, <2>1, <2>2 DEF SmtpTypeOK
<1>6. SessionHeld
  BY <1>1, <1>3, <1>4 DEF SessionHeld
<1>7. SessionsOK
  <2>1. \A s \in Sessions : SessionOK(s)
    BY <1>2, <1>4 DEF SessionOK
  <2>2. \A v \in Senders : WorkerOK(v)
    BY <1>3, <1>4 DEF WorkerOK, Commands
  <2>. QED
    BY <1>4, <2>1, <2>2 DEF SessionsOK
<1>8. FatalIsOwn /\ SuccessIsTaken
  BY <1>1 DEF FatalIsOwn, SuccessIsTaken
<1>. QED
  BY <1>5, <1>6, <1>7, <1>8 DEF SmtpInv, SmtpCore

\* A step that is no command.
LEMMA OtherStepQuiet ==
    ASSUME SmtpCore, SmtpCore',
           \/ CleanUp \/ CleanedUp
           \/ \E w \in Senders : \/ StartMail(w) \/ GetSession(w) \/ PutBack(w) \/ BeginSession(w)
                                 \/ BeginFails(w) \/ OpenFails(w) \/ WriteTimesOut(w)
                                 \/ (Rset(w) /\ ~sess[sender[w].sess].dirty)
    PROVE  Quiet
<1>1. lag \in Nat /\ lag' \in Nat /\ mail \in [Mails -> Statuses]
  BY DEF SmtpCore, SmtpTypeOK, Statuses
<1>2. CASE CleanUp \/ CleanedUp
  BY <1>1, <1>2 DEF CleanUp, CleanedUp, smtpGhosts, Quiet
<1>3. ASSUME NEW w \in Senders, PutBack(w) PROVE Quiet
  <2>1. UNCHANGED <<mail, taken, misread>>
    BY <1>3 DEF PutBack
  <2>2. PICK behind : behind = Len(sess[sender[w].sess].link.answers)
    OBVIOUS
  <2>3. lag' = IF behind > lag THEN behind ELSE lag
    BY <1>3, <2>2 DEF PutBack
  <2>4. behind \in Nat
    <3>1. Holding(w)
      BY <1>3 DEF PutBack, Holding, Steps
    <3>2. sess[sender[w].sess].link \in Links
      BY <3>1, HolderAlone DEF SessionObjects
    <3>. QED
      BY <2>2, <3>2, AnswersCounted
  <2>5. lag <= lag'
    BY <1>1, <2>3, <2>4
  <2>. QED
    BY <1>1, <2>1, <2>5 DEF Quiet
<1>4. ASSUME NEW w \in Senders, \/ GetSession(w) \/ BeginSession(w)
                                \/ (Rset(w) /\ ~sess[sender[w].sess].dirty)
      PROVE  Quiet
  <2>1. UNCHANGED <<mail, taken, misread, lag>>
    BY <1>4 DEF GetSession, BeginSession, Rset, smtpGhosts
  <2>. QED
    BY <1>1, <2>1 DEF Quiet
<1>5. ASSUME NEW w \in Senders, StartMail(w) \/ BeginFails(w) \/ OpenFails(w)
      PROVE  Quiet
  <2>1. UNCHANGED <<taken, misread, lag>>
    BY <1>5 DEF StartMail, BeginFails, OpenFails, smtpGhosts
  <2>2. \/ mail' = mail
        \/ \E m : mail' = [mail EXCEPT ![m] = "working"]
        \/ \E m : mail' = [mail EXCEPT ![m] = "queued"]
        \/ \E m : mail' = [mail EXCEPT ![m] = "failed"]
    BY <1>5 DEF StartMail, BeginFails, OpenFails, Settle
  <2>3. \A m \in Mails : mail'[m] = "success" => mail[m] = "success"
    BY <1>1, <2>2
  <2>. QED
    BY <1>1, <2>1, <2>3 DEF Quiet
<1>6. ASSUME NEW w \in Senders, WriteTimesOut(w) PROVE Quiet
  <2>1. UNCHANGED <<taken, misread, lag>>
    BY <1>6 DEF WriteTimesOut, smtpGhosts
  <2>2. mail' = [m \in Mails |-> IF mail[m] = "working" THEN "queued" ELSE mail[m]]
    BY <1>6 DEF WriteTimesOut
  <2>3. \A m \in Mails : mail'[m] = "success" => mail[m] = "success"
    BY <2>2
  <2>. QED
    BY <1>1, <2>1, <2>3 DEF Quiet
<1>. QED
  BY <1>2, <1>3, <1>4, <1>5, <1>6

\* ... every step ...
LEMMA SmtpStepKeeps == SmtpInv /\ SmtpNext => SmtpInv'
<1>. SUFFICES ASSUME SmtpCore, FatalIsOwn, SuccessIsTaken, SmtpNext PROVE SmtpInv'
  BY DEF SmtpInv
<1>1. ASSUME NEW w \in Senders,
             \/ (Rset(w) /\ sess[sender[w].sess].dirty) \/ MailFrom(w) \/ RcptTo(w) \/ Data(w) \/ EndOfData(w)
      PROVE  SmtpInv'
  <2>1. PICK command, ok, next, served, l1, r :
           /\ <<command, ok, next>> \in Delivering /\ sender[w].at = command
           /\ Exchange(w, command, ok, next, served, l1, r)
    BY <1>1, CommandOf
  <2>2. SmtpCore'
    BY <2>1, ExchangeKeeps
  <2>3. FatalIsOwn'
    BY <2>1, ExchangeFatal
  <2>4. SuccessIsTaken'
    BY <2>1, ExchangeSuccess
  <2>. QED
    BY <2>2, <2>3, <2>4 DEF SmtpInv
<1>2. CASE \/ CleanUp \/ CleanedUp
           \/ \E w \in Senders : \/ StartMail(w) \/ GetSession(w) \/ PutBack(w) \/ BeginSession(w)
                                 \/ BeginFails(w) \/ OpenFails(w) \/ WriteTimesOut(w)
                                 \/ (Rset(w) /\ ~sess[sender[w].sess].dirty)
  <2>1. SmtpCore'
    BY <1>2, CleanUpKeeps, CleanedUpKeeps, StartMailKeeps, GetSessionKeeps, PutBackKeeps, BeginSessionKeeps,
       BeginFailsKeeps, OpenFailsKeeps, WriteTimesOutKeeps, RsetSkippedKeeps
  <2>2. Quiet
    BY <1>2, <2>1, OtherStepQuiet
  <2>. QED
    BY <2>1, <2>2, QuietReports DEF SmtpInv
<1>. QED
  BY <1>1, <1>2 DEF SmtpNext, SmtpStep

\* ... and every step of something else keep the invariant.
LEMMA SmtpStutterKeeps == SmtpInv /\ UNCHANGED smtpVars => SmtpInv'
<1>. SUFFICES ASSUME SmtpInv, UNCHANGED smtpVars PROVE SmtpInv'
  OBVIOUS
<1>1. UNCHANGED <<mail, sender, sess, pool, poolLock, taken, lag, misread>>
  BY DEF smtpVars
<1>. USE DEF SmtpInv, SmtpCore
<1>2. SmtpTypeOK' /\ SessionHeld'
  BY <1>1 DEF SmtpTypeOK, SessionHeld
<1>3. Live' = Live
  BY <1>1 DEF Live, Pooled
<1>4. \A w \in Senders : WorkerOK(w)'
  BY <1>1 DEF SessionsOK, WorkerOK, Rested, Link
<1>5. SessionsOK'
  BY <1>1, <1>3, <1>4 DEF SessionsOK, SessionOK, Rested
<1>6. FatalIsOwn' /\ SuccessIsTaken'
  BY <1>1 DEF FatalIsOwn, SuccessIsTaken
<1>. QED
  BY <1>2, <1>5, <1>6

\* The invariant holds always.
LEMMA SmtpInvariant == Spec => []SmtpInv
<1>1. Init => SmtpInv
  BY SmtpStarts DEF Init
<1>2. SmtpInv /\ [Next]_vars => SmtpInv'
  BY SmtpStepKeeps, SmtpStutterKeeps DEF Next, vars
<1>. QED
  BY <1>1, <1>2, PTL DEF Spec

\* A session has one owner at a time, a worker, the pool or cleanUp, although the
\* pool hands out, takes back and deletes sessions from several threads.
THEOREM DeliveryOwnedOnce == Spec => []OwnedOnce
<1>1. SmtpInv => OwnedOnce
  <2>. SUFFICES ASSUME SmtpInv PROVE OwnedOnce
    OBVIOUS
  <2>1. /\ \A v, w \in Senders : v # w /\ sender[v].sess # NoSession => sender[v].sess # sender[w].sess
        /\ \A w \in Senders : sender[w].sess \notin Members(pool)
        /\ \A w \in Senders : sender[w].sess # NoSession => sender[w].sess # poolLock
        /\ poolLock \notin Members(pool) /\ Distinct(pool) /\ pool \in Seq(Sessions)
    BY DEF SmtpInv, SmtpCore, SmtpTypeOK, SessionHeld
  <2>2. Pooled = Members(pool)
    BY DEF Pooled, Members
  <2>3. Len(pool) = Cardinality(Pooled)
    BY <2>1, <2>2, CountMembers
  <2>. QED
    BY <2>1, <2>2, <2>3 DEF OwnedOnce
<1>. QED
  BY <1>1, SmtpInvariant, PTL

\* SMTPSession has no way to tell whose answer it reads; a 5xx that ends a
\* delivery is nevertheless an answer to that message, unless a session was put
\* back with two answers on their way.
THEOREM DeliveryFatalIsOwn == Spec => []FatalIsOwn
BY SmtpInvariant, PTL DEF SmtpInv

\* A message is only reported delivered if a server took its text for its
\* recipient, and nobody gets another's text or an added line, as long as no
\* session was put back with four answers on their way.
THEOREM DeliverySuccessIsTaken == Spec => []SuccessIsTaken
BY SmtpInvariant, PTL DEF SmtpInv

=============================================================================
