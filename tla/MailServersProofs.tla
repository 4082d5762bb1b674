------------------------- MODULE MailServersProofs -------------------------
(***************************************************************************)
(* What holds of the POP3 and IMAP sessions of a mailbox, for any number   *)
(* of sessions, folders and messages, killed sessions included.            *)
(*                                                                         *)
(* WantInv: what stands marked in a session's list, or is to be written    *)
(* back as marked, some client wanted; so what a stale list expunges was   *)
(* wanted too.  BodyInv: who deletes or stores a body holds its row.       *)
(* CurrentInv: a session's list is the folder's as of the generation it    *)
(* has read, unless rows have been changed and not announced yet; each     *)
(* step announces the rows it changes or will do so (Announced).           *)
(* AccountInv: what the account says and what the rows take differ by what *)
(* the sessions have in their books, and these are in order (LedgerOK):    *)
(* what one will refund is no row any more, what it will charge is one.    *)
(* SyncInv: but for a list read without telling the client, the client has *)
(* its session's list; for ReportDelta tells it all (AllTold).             *)
(***************************************************************************)
EXTENDS MailServers, FoldTheorems, SequenceTheorems, WellFoundedInduction, TLAPS

\* Some natural numbers have a smallest one, ...
LEMMA LeastThere ==
    ASSUME NEW T \in SUBSET Nat, T # {}
    PROVE  \E x \in T : \A y \in T : x <= y
<1>. DEFINE less == {p \in Nat \X Nat : p[1] < p[2]}
<1>1. IsWellFoundedOn(less, Nat)
  BY NatLessThanWellFounded DEF OpToRel
<1>2. \A x, y \in Nat : y < x => <<y, x>> \in less
  OBVIOUS
<1>. HIDE DEF less
<1>3. PICK x \in T : \A y \in T : ~(<<y, x>> \in less)
  BY <1>1, WFMin
<1>4. ASSUME NEW y \in T PROVE x <= y
  <2>1. x \in Nat /\ y \in Nat /\ ~(y < x)
    BY <1>2, <1>3
  <2>. QED
    BY <2>1
<1>. QED
  BY <1>4

\* ... which is the one Min chooses.
LEMMA LeastIsOne ==
    ASSUME NEW T \in SUBSET Nat, T # {}
    PROVE  Min(T) \in T
BY LeastThere DEF Min

\* Ids by which a list is sorted.
Ascends(l) == \A i, j \in DOMAIN l : i < j => l[i] < l[j]

\* How many come before.
Rank(m, S) == Cardinality({n \in S : n < m})

\* Of two elements the greater has the greater rank.
LEMMA RankAscends ==
    ASSUME NEW S \in SUBSET Nat, IsFiniteSet(S), NEW a \in S, NEW b \in S, a < b
    PROVE  Rank(a, S) \in Nat /\ Rank(b, S) \in Nat /\ Rank(a, S) < Rank(b, S)
<1>. DEFINE A == {n \in S : n < a}
            B == {n \in S : n < b}
<1>0. a \in Nat /\ b \in Nat /\ \A n \in S : n \in Nat
  OBVIOUS
<1>b. ~(a < a) /\ \A n \in S : n < a \/ n = a => n < b
  BY <1>0
<1>a. A \in SUBSET S /\ B \in SUBSET S /\ A \cup {a} \subseteq B /\ a \notin A
  BY <1>b
<1>. HIDE DEF A, B
<1>1. /\ IsFiniteSet(A) /\ IsFiniteSet(B) /\ A \cup {a} \subseteq B /\ a \notin A
  BY <1>a, FS_Subset
<1>2. Cardinality(A \cup {a}) = Cardinality(A) + 1 /\ Cardinality(A \cup {a}) <= Cardinality(B)
  BY <1>1, FS_AddElement, FS_Subset
<1>3. Cardinality(A) \in Nat /\ Cardinality(B) \in Nat
  BY <1>1, FS_CardinalityType
<1>. QED
  BY <1>2, <1>3 DEF Rank, A, B

\* A finite set of numbers has one of each rank.
LEMMA RanksThere ==
    ASSUME NEW S \in SUBSET Nat, IsFiniteSet(S), NEW k \in 0..(Cardinality(S) - 1)
    PROVE  \E m \in S : Rank(m, S) = k
<1>. DEFINE B == {i \in Nat : i < Cardinality(S) => \E m \in S : Rank(m, S) = i}
<1>0. Cardinality(S) \in Nat
  BY FS_CardinalityType
<1>1. 0 \in B
  <2>1. CASE S # {}
    <3>1. PICK m \in S : \A n \in S : m <= n
      BY <2>1, LeastThere
    <3>2. \A n \in S : ~(n < m)
      BY <3>1
    <3>3. {n \in S : n < m} = {}
      BY <3>2
    <3>. QED
      BY <3>3, FS_EmptySet DEF Rank
  <2>2. CASE S = {}
    BY <2>2, FS_EmptySet
  <2>. QED
    BY <2>1, <2>2
<1>2. ASSUME NEW i \in Nat, i \in B PROVE i + 1 \in B
  <2>1. ASSUME i + 1 < Cardinality(S) PROVE \E m \in S : Rank(m, S) = i + 1
    <3>1. PICK m \in S : Rank(m, S) = i
      BY <1>0, <1>2, <2>1
    <3>. DEFINE A == {n \in S : n < m}
                T == {n \in S : n > m}
    <3>2. IsFiniteSet(A) /\ m \notin A /\ Cardinality(A) = i
      BY <3>1, FS_Subset DEF Rank
    <3>3. Cardinality(A \cup {m}) = i + 1
      <4>. HIDE DEF A
      <4>. QED
        BY <3>2, FS_AddElement
    <3>a. m \in Nat /\ \A n \in S : n \in Nat /\ (n < m \/ n = m \/ n > m)
      OBVIOUS
    <3>4. T # {}
      <4>1. T = {} => S = A \cup {m}
        BY <3>a
      <4>2. Cardinality(A \cup {m}) # Cardinality(S)
        <5>. HIDE DEF A
        <5>. QED
          BY <1>0, <2>1, <3>3
      <4>. HIDE DEF A, T
      <4>. QED
        BY <4>1, <4>2
    <3>5. PICK x \in T : \A y \in T : x <= y
      <4>1. T \in SUBSET Nat
        OBVIOUS
      <4>. HIDE DEF T
      <4>. QED
        BY <3>4, <4>1, LeastThere
    <3>6. x \in S /\ x > m /\ x \in Nat /\ \A n \in S : n > m => x <= n
      BY <3>5
    <3>7. \A n \in S : n < x <=> (n < m \/ n = m)
      BY <3>a, <3>6
    <3>8. {n \in S : n < x} = A \cup {m}
      BY <3>7
    <3>. QED
      BY <3>3, <3>6, <3>8 DEF Rank
  <2>. QED
    BY <2>1
<1>. HIDE DEF B
<1>3. k \in B
  BY <1>0, <1>1, <1>2, NatSet
<1>. QED
  BY <1>0, <1>3 DEF B

\* What the list is by id: all of the rows, each once, with ascending ids.
THEOREM InOrderSorts ==
    ASSUME NEW S \in SUBSET Nat, IsFiniteSet(S)
    PROVE  /\ InOrder(S) \in Seq(S) /\ Len(InOrder(S)) = Cardinality(S)
           /\ ToSet(InOrder(S)) = S
           /\ Ascends(InOrder(S))
<1>. DEFINE N == Cardinality(S)
            l == InOrder(S)
<1>0. N \in Nat
  BY FS_CardinalityType
<1>1. l = [i \in 1..N |-> CHOOSE m \in S : Rank(m, S) = i - 1]
  BY DEF InOrder, Rank
<1>. HIDE DEF N, l
<1>2. ASSUME NEW i \in 1..N PROVE l[i] \in S /\ Rank(l[i], S) = i - 1
  <2>1. i - 1 \in 0..(N - 1)
    BY <1>0
  <2>2. \E m \in S : Rank(m, S) = i - 1
    BY <2>1, RanksThere DEF N
  <2>. QED
    BY <1>1, <2>2
<1>3. l \in Seq(S) /\ Len(l) = N /\ DOMAIN l = 1..N
  <2>1. l \in [1..N -> S] /\ DOMAIN l = 1..N
    BY <1>1, <1>2
  <2>. QED
    BY <1>0, <2>1
<1>4. ASSUME NEW i \in 1..N, NEW j \in 1..N, i < j PROVE l[i] < l[j]
  <2>1. /\ l[i] \in S /\ Rank(l[i], S) = i - 1 /\ l[j] \in S /\ Rank(l[j], S) = j - 1
    BY <1>2
  <2>2. ~(l[j] < l[i])
    <3>1. l[j] < l[i] => Rank(l[j], S) < Rank(l[i], S)
      BY <2>1, RankAscends
    <3>. QED
      BY <1>0, <1>4, <2>1, <3>1
  <2>3. l[i] # l[j]
    BY <1>0, <1>4, <2>1
  <2>4. l[i] \in Nat /\ l[j] \in Nat
    BY <2>1
  <2>. QED
    BY <2>2, <2>3, <2>4
<1>5. ASSUME NEW m \in S PROVE \E i \in 1..N : l[i] = m
  <2>. DEFINE k == Rank(m, S)
  <2>1. k \in 0..(N - 1)
    <3>. DEFINE A == {n \in S : n < m}
    <3>1. A \in SUBSET (S \ {m})
      OBVIOUS
    <3>2. IsFiniteSet(S \ {m}) /\ Cardinality(S \ {m}) = N - 1
      BY FS_RemoveElement DEF N
    <3>. HIDE DEF A
    <3>3. IsFiniteSet(A) /\ Cardinality(A) <= Cardinality(S \ {m})
      BY <3>1, <3>2, FS_Subset
    <3>4. Cardinality(A) \in Nat
      BY <3>3, FS_CardinalityType
    <3>. QED
      BY <1>0, <3>2, <3>3, <3>4 DEF Rank, A
  <2>. HIDE DEF k
  <2>2. k + 1 \in 1..N /\ (k + 1) - 1 = k
    BY <1>0, <2>1
  <2>3. l[k + 1] \in S /\ Rank(l[k + 1], S) = Rank(m, S)
    BY <1>2, <2>2 DEF k
  <2>4. l[k + 1] = m
    <3>1. ~(l[k + 1] < m)
      <4>1. l[k + 1] < m => Rank(l[k + 1], S) < Rank(m, S)
        BY <2>3, RankAscends
      <4>. QED
        BY <2>1, <2>3, <4>1 DEF k
    <3>2. ~(m < l[k + 1])
      <4>1. m < l[k + 1] => Rank(m, S) < Rank(l[k + 1], S)
        BY <2>3, RankAscends
      <4>. QED
        BY <2>1, <2>3, <4>1 DEF k
    <3>3. m \in Nat /\ l[k + 1] \in Nat
      BY <2>3
    <3>. QED
      BY <3>1, <3>2, <3>3
  <2>. QED
    BY <2>2, <2>4
<1>6. ToSet(l) = S
  BY <1>2, <1>3, <1>5 DEF ToSet
<1>7. Ascends(l)
  BY <1>3, <1>4 DEF Ascends
<1>. QED
  BY <1>3, <1>6, <1>7 DEF l, N

\* What is expunged next is marked in the session's list.
LEMMA FirstIsDeleted ==
    ASSUME NEW r, FirstDeleted(r) # 0
    PROVE  r.list[FirstDeleted(r)] \in r.dels
<1>. DEFINE marked == {i \in 1..Len(r.list) : r.list[i] \in r.dels}
<1>1. FirstDeleted(r) = IF marked # {} THEN Min(marked) ELSE 0
  BY DEF FirstDeleted, SelectInSeq
<1>2. marked \in SUBSET Nat
  OBVIOUS
<1>. QED
  BY <1>1, <1>2, LeastIsOne

\* FirstDeleted() looks at the list and its marks only.
LEMMA SameFirst ==
    ASSUME NEW r, NEW q, q.list = r.list, q.dels = r.dels
    PROVE  FirstDeleted(q) = FirstDeleted(r)
<1>1. FirstDeleted(r) = LET I == {i \in 1..Len(r.list) : r.list[i] \in r.dels} IN IF I # {} THEN Min(I) ELSE 0
  BY DEF FirstDeleted, SelectInSeq
<1>2. FirstDeleted(q) = LET I == {i \in 1..Len(q.list) : q.list[i] \in q.dels} IN IF I # {} THEN Min(I) ELSE 0
  BY DEF FirstDeleted, SelectInSeq
<1>. QED
  BY <1>1, <1>2

-----------------------------------------------------------------------------
(***************************************************************************)
(* Frames: what each step leaves alone.                                    *)
(***************************************************************************)

\* The variables of the processes and the rows are functions of their indices.
Shapes ==
    /\ DOMAIN folder = Mails
    /\ DOMAIN pop = PopSessions /\ \A p \in PopSessions : DOMAIN pop[p] = DOMAIN PopConnected
    /\ DOMAIN imap = ImapSessions /\ \A s \in ImapSessions : DOMAIN imap[s] = DOMAIN ImapConnected

\* What a session's step leaves alone.
OnlyImap(s) == Shapes' /\ \A t \in ImapSessions \ {s} : imap'[t] = imap[t]

OnlyPop(p) == Shapes' /\ \A q \in PopSessions \ {p} : pop'[q] = pop[q]

\* Skip changes fields, it adds none, ...
LEMMA SkipShape ==
    ASSUME NEW r, DOMAIN r = DOMAIN ImapConnected
    PROVE  DOMAIN Skip(r) = DOMAIN ImapConnected
BY DEF Skip, GoesOn, Waiting, ImapConnected

\* ... nor does Refetch.
LEMMA RefetchShape ==
    ASSUME NEW r, DOMAIN r = DOMAIN ImapConnected, NEW f
    PROVE  DOMAIN Refetch(r, f) = DOMAIN ImapConnected
BY DEF Refetch, ImapConnected

\* STATUS reads messages and only writes flags back.
LEMMA StatusWritesBack ==
    ASSUME Shapes, NEW s \in ImapSessions, Status(s)
    PROVE  \E back, backDels :
              /\ imap' = [imap EXCEPT ![s] = Skip([imap[s] EXCEPT !.pc = "writeback", !.then = "ready",
                                                  !.back = back, !.backDels = backDels])]
              /\ backDels \subseteq flagged
              /\ back = {} => backDels = {}
<1>1. PICK f, ro : LET r == Refetch([imap[s] EXCEPT !.ro = ro], f)
                   IN imap' = [imap EXCEPT ![s] = Skip([imap[s] EXCEPT !.pc = "writeback", !.then = "ready",
                                               !.back = r.back, !.backDels = r.backDels])]
  BY DEF Status, Shapes
<1>. DEFINE q == Refetch([imap[s] EXCEPT !.ro = ro], f)
<1>2. q.backDels \subseteq flagged /\ (q.back = {} => q.backDels = {})
  BY DEF Refetch, Shapes, ImapConnected
<1>3. imap' = [imap EXCEPT ![s] = Skip([imap[s] EXCEPT !.pc = "writeback", !.then = "ready",
                                               !.back = q.back, !.backDels = q.backDels])]
  BY <1>1
<1>. HIDE DEF q
<1>. QED
  BY <1>2, <1>3

\* A session's record after Expunge().
Expunged(r) ==
    CASE r.pc = "expunge"  -> Ready([r EXCEPT !.freed = {}])
      [] r.pc = "close"    -> Ready(Deselected([r EXCEPT !.freed = {}]))
      [] r.pc = "reselect" -> [Deselected([r EXCEPT !.freed = {}]) EXCEPT !.pc = "open"]
      [] r.pc = "logout"   -> LoggedOut

\* What ExpungeDone makes of the session's record.
LEMMA ExpungedRecord ==
    ASSUME Shapes, NEW s \in ImapSessions, ExpungeDone(s)
    PROVE  imap[s].pc \in Expunging /\ imap' = [imap EXCEPT ![s] = Expunged(imap[s])]
BY DEF ExpungeDone, Expunged, At

\* A session that waits for a command has in hand what it had.
LEMMA ReadyRecord ==
    ASSUME NEW r, DOMAIN r = DOMAIN ImapConnected
    PROVE  Ready(r).pc = "ready" /\ Ready(r).then = "ready" /\ Ready(r).freed = r.freed
BY DEF Ready, Waiting, ImapConnected

\* Expunged changes fields, it adds none.
LEMMA ExpungedShape ==
    ASSUME NEW r, DOMAIN r = DOMAIN ImapConnected, r.pc \in Expunging
    PROVE  DOMAIN Expunged(r) = DOMAIN ImapConnected
<1>. USE DEF Expunged, Ready, Waiting, Deselected, LoggedOut, ImapConnected
<1>1. CASE r.pc = "expunge"
  BY <1>1
<1>2. CASE r.pc = "close"
  BY <1>2
<1>3. CASE r.pc = "reselect"
  BY <1>3
<1>4. CASE r.pc = "logout"
  BY <1>4
<1>. QED
  BY <1>1, <1>2, <1>3, <1>4 DEF Expunging

\* What STORE and the like write.
LEMMA FlagsOnly ==
    ASSUME NEW s \in ImapSessions, Store(s) \/ WriteBack(s) \/ AppendFlags(s)
    PROVE  UNCHANGED <<folder, size>>
<1>1. ASSUME NEW S, NEW dels, NEW recs, WriteFlags(S, dels, recs) PROVE UNCHANGED <<folder, size>>
  BY <1>1 DEF WriteFlags
<1>2. CASE Store(s)
  <2>1. PICK m \in Listing(s), deleted \in BOOLEAN, unseen \in BOOLEAN :
          LET dels == IF deleted THEN imap[s].dels \cup {m} ELSE imap[s].dels \ {m}
              recs == IF unseen THEN imap[s].recs \cup {m} ELSE imap[s].recs \ {m}
          IN /\ imap' = [imap EXCEPT ![s].dels = dels, ![s].recs = recs,
                                     ![s].pc = "announce", ![s].then = "ready"]
             /\ WriteFlags({m}, dels, recs)
             /\ wanted' = IF deleted THEN wanted \cup {m}
                         ELSE IF m \notin Rows \/ WantedElsewhere(s, m) THEN wanted
                         ELSE wanted \ {m}
    BY <1>2 DEF Store
  <2>. QED
    BY <1>1, <2>1
<1>3. CASE WriteBack(s)
  BY <1>1, <1>3 DEF WriteBack
<1>4. CASE AppendFlags(s)
  BY <1>1, <1>4 DEF AppendFlags
<1>. QED
  BY <1>2, <1>3, <1>4

\* A session's record after its DELETE of a row.
LEMMA RowGone ==
    ASSUME Shapes, NEW s \in ImapSessions, ExpungeRow(s)
    PROVE  LET r == imap[s]  q == imap'[s]  m == r.list[FirstDeleted(r)] IN
           /\ r.pc = "row" /\ q.pc = r.then /\ q.then = r.then /\ q.dirs = r.dirs /\ q.arg = r.arg
           /\ q.dels = r.dels \ {m} /\ q.backDels = r.backDels /\ q.gen = r.gen /\ q.read = r.read
           /\ q.dirty
<1>. DEFINE m == imap[s].list[FirstDeleted(imap[s])]
<1>1. PICK list, dels, recs, client, freed :
         /\ imap' = [imap EXCEPT ![s].pc = imap[s].then, ![s].list = list, ![s].dels = dels,
                                 ![s].recs = recs, ![s].client = client, ![s].freed = freed, ![s].dirty = TRUE]
         /\ dels = imap[s].dels \ {m}
  BY DEF ExpungeRow
<1>2. imap[s].pc = "row"
  BY DEF ExpungeRow, At
<1>. HIDE DEF m
<1>. DEFINE r == imap[s]
            q == imap'[s]
<1>3. DOMAIN r = DOMAIN ImapConnected /\ DOMAIN imap = ImapSessions
  BY DEF Shapes
<1>4. q = [r EXCEPT !.pc = r.then, !.list = list, !.dels = dels, !.recs = recs, !.client = client,
                    !.freed = freed, !.dirty = TRUE]
  BY <1>1, <1>3
<1>5. /\ q.pc = r.then /\ q.then = r.then /\ q.dirs = r.dirs /\ q.arg = r.arg
      /\ q.dels = dels /\ q.backDels = r.backDels /\ q.gen = r.gen /\ q.read = r.read
      /\ q.dirty
  BY <1>3, <1>4 DEF ImapConnected
<1>. QED
  BY <1>1, <1>2, <1>5 DEF m

\* A step of an IMAP session changes no other's record and keeps the shapes.
LEMMA ImapAlone ==
    ASSUME Shapes, NEW s \in ImapSessions, ImapStep(s), UNCHANGED pop
    PROVE  OnlyImap(s)
<1>. USE DEF Shapes, OnlyImap, mailboxVars, rowVars
<1>1. DOMAIN folder' = Mails
  <2>1. CASE \/ ExpungeRow(s) \/ DeleteFolderRows(s)
    BY <2>1 DEF ExpungeRow, DeleteFolderRows, DeleteRows
  <2>2. CASE CopyRow(s)
    BY <2>2 DEF CopyRow, InsertRow
  <2>3. CASE AppendRow(s)
    BY <2>3 DEF AppendRow, InsertRow
  <2>4. CASE Store(s) \/ WriteBack(s) \/ AppendFlags(s)
    BY <2>4, FlagsOnly
  <2>5. CASE \/ Begin(s) \/ Login(s) \/ Refused(s) \/ Idle(s) \/ Poll(s) \/ Refresh(s)
             \/ Select(s) \/ Open(s) \/ Opened(s) \/ Status(s) \/ Reread(s)
             \/ Copy(s) \/ CopyCheck(s) \/ AppendCommand(s) \/ Rename(s) \/ Logout(s) \/ ImapDisconnect(s)
    <3>1. UNCHANGED mailboxVars
      BY <2>5 DEF Begin, Login, Refused, Idle, Poll, Refresh, Select, Open, Opened, Status, Reread,
         Copy, CopyCheck, AppendCommand, Rename, Logout, ImapDisconnect
    <3>. QED
      BY <3>1
  <2>6. CASE \/ Announce(s) \/ ExpungeBlob(s) \/ ExpungeGeneration(s) \/ ExpungeDone(s)
             \/ CopyBlob(s) \/ CopyGeneration(s) \/ CopyCharge(s)
             \/ AppendGeneration(s) \/ AppendBlob(s) \/ AppendCharge(s)
             \/ Delete(s) \/ DeleteRefund(s) \/ DeleteFolder(s) \/ ImapKilled(s)
    <3>1. UNCHANGED rowVars
      BY <2>6 DEF Announce, ExpungeBlob, ExpungeGeneration, ExpungeDone, CopyBlob, CopyGeneration,
         CopyCharge, AppendGeneration, AppendBlob, AppendCharge, Delete, DeleteRefund, DeleteFolder, ImapKilled
    <3>. QED
      BY <3>1
  <2>. QED
    BY <2>1, <2>2, <2>3, <2>4, <2>5, <2>6 DEF ImapStep
<1>2. DOMAIN imap' = ImapSessions /\ \A t \in ImapSessions \ {s} : imap'[t] = imap[t]
  <2>0. CASE Begin(s)
    BY <2>0 DEF Begin
  <2>6. CASE Store(s)
    BY <2>6 DEF Store
  <2>1. CASE Login(s) \/ Refused(s) \/ Idle(s) \/ Poll(s)
    BY <2>1 DEF Login, Refused, Idle, Poll
  <2>2. CASE \/ Refresh(s) \/ WriteBack(s) \/ Select(s) \/ Open(s) \/ Opened(s) \/ Status(s)
             \/ Announce(s) \/ ExpungeBlob(s)
    BY <2>2 DEF Refresh, WriteBack, Select, Open, Opened, Status, Announce, ExpungeBlob
  <2>3. CASE \/ ExpungeRow(s) \/ ExpungeGeneration(s) \/ ExpungeDone(s) \/ Copy(s) \/ CopyCheck(s)
             \/ CopyRow(s) \/ CopyBlob(s) \/ CopyGeneration(s) \/ CopyCharge(s)
    BY <2>3 DEF ExpungeRow, ExpungeGeneration, ExpungeDone, Copy, CopyCheck, CopyRow, CopyBlob,
       CopyGeneration, CopyCharge
  <2>4. CASE \/ AppendCommand(s) \/ AppendRow(s) \/ AppendGeneration(s) \/ AppendBlob(s)
             \/ AppendCharge(s) \/ AppendFlags(s) \/ Reread(s)
    BY <2>4 DEF AppendCommand, AppendRow, AppendGeneration, AppendBlob, AppendCharge, AppendFlags, Reread
  <2>5. CASE \/ Delete(s) \/ DeleteFolderRows(s) \/ DeleteRefund(s) \/ DeleteFolder(s) \/ Rename(s)
             \/ Logout(s) \/ ImapDisconnect(s) \/ ImapKilled(s)
    BY <2>5 DEF Delete, DeleteFolderRows, DeleteRefund, DeleteFolder, Rename, Logout, ImapDisconnect,
       ImapKilled
  <2>. QED
    BY <2>0, <2>1, <2>2, <2>3, <2>4, <2>5, <2>6 DEF ImapStep
<1>3. DOMAIN imap'[s] = DOMAIN ImapConnected
  <2>1. CASE Begin(s)
    BY <2>1 DEF Begin, ImapConnected
  <2>2. CASE Store(s)
    BY <2>2 DEF Store, ImapConnected
  <2>3. CASE Login(s)
    BY <2>3 DEF Login, ImapConnected
  <2>4. CASE Refused(s)
    BY <2>4 DEF Refused, ImapConnected, Ready, Waiting
  <2>5. CASE Idle(s)
    BY <2>5 DEF Idle, ImapConnected
  <2>6. CASE Poll(s)
    BY <2>6 DEF Poll, ImapConnected
  <2>7. CASE Refresh(s)
    <3>. DEFINE z == Refetch(imap[s], imap[s].sel)
    <3>1. PICK client : imap' = [imap EXCEPT ![s] = Skip([z EXCEPT !.gen = z.read, !.client = client,
                                                                   !.raced = FALSE])]
      BY <2>7 DEF Refresh
    <3>2. DOMAIN z = DOMAIN ImapConnected
      BY RefetchShape
    <3>. HIDE DEF z
    <3>. QED
      BY <3>1, <3>2, SkipShape
  <2>8. CASE WriteBack(s)
    BY <2>8 DEF WriteBack, ImapConnected, GoesOn, Waiting
  <2>9. CASE Select(s)
    <3>1. PICK f \in imap[s].dirs :
             imap' = [imap EXCEPT ![s].arg = f, ![s].ro = IF At(s, "examine") THEN "yes" ELSE "no",
                                  ![s].pc  = IF AutoExpunge /\ imap[s].sel # "none"
                                             THEN "reselect" ELSE "open"]
      BY <2>9 DEF Select
    <3>. QED
      BY <3>1 DEF ImapConnected
  <2>10. CASE Open(s)
    <3>. DEFINE z == [imap[s] EXCEPT !.sel = imap[s].arg, !.arg = "none", !.read = gen, !.then = "opened"]
    <3>1. imap' = [imap EXCEPT ![s] = Skip(Refetch(z, imap[s].arg))]
      BY <2>10 DEF Open
    <3>2. DOMAIN z = DOMAIN ImapConnected
      OBVIOUS
    <3>. HIDE DEF z
    <3>. QED
      BY <3>1, <3>2, SkipShape, RefetchShape
  <2>11. CASE Opened(s)
    BY <2>11 DEF Opened, ImapConnected, Ready, Waiting
  <2>12. CASE Status(s)
    <3>1. PICK back, backDels :
             /\ imap' = [imap EXCEPT ![s] = Skip([imap[s] EXCEPT !.pc = "writeback", !.then = "ready",
                                                 !.back = back, !.backDels = backDels])]
             /\ backDels \subseteq flagged
             /\ back = {} => backDels = {}
      BY <2>12, StatusWritesBack
    <3>. QED
      BY <3>1, SkipShape
  <2>13. CASE Announce(s)
    BY <2>13 DEF Announce, ImapConnected, GoesOn, Waiting
  <2>14. CASE ExpungeBlob(s)
    BY <2>14 DEF ExpungeBlob, ImapConnected
  <2>15. CASE ExpungeRow(s)
    BY <2>15 DEF ExpungeRow, ImapConnected
  <2>16. CASE ExpungeGeneration(s)
    BY <2>16 DEF ExpungeGeneration, ImapConnected
  <2>17. CASE ExpungeDone(s)
    BY <2>17, ExpungedRecord, ExpungedShape
  <2>18. CASE Copy(s)
    BY <2>18 DEF Copy, ImapConnected
  <2>19. CASE CopyCheck(s)
    BY <2>19 DEF CopyCheck, ImapConnected, Ready, Waiting
  <2>20. CASE CopyRow(s)
    BY <2>20 DEF CopyRow, ImapConnected
  <2>21. CASE CopyBlob(s)
    BY <2>21 DEF CopyBlob, ImapConnected
  <2>22. CASE CopyGeneration(s)
    BY <2>22 DEF CopyGeneration, ImapConnected
  <2>23. CASE CopyCharge(s)
    BY <2>23 DEF CopyCharge, ImapConnected
  <2>24. CASE AppendCommand(s)
    BY <2>24 DEF AppendCommand, ImapConnected, Ready, Waiting
  <2>25. CASE AppendRow(s)
    BY <2>25 DEF AppendRow, ImapConnected
  <2>26. CASE AppendGeneration(s)
    BY <2>26 DEF AppendGeneration, ImapConnected
  <2>27. CASE AppendBlob(s)
    BY <2>27 DEF AppendBlob, ImapConnected
  <2>28. CASE AppendCharge(s)
    BY <2>28 DEF AppendCharge, ImapConnected
  <2>29. CASE AppendFlags(s)
    BY <2>29 DEF AppendFlags, ImapConnected
  <2>30. CASE Reread(s)
    BY <2>30, SkipShape, RefetchShape DEF Reread
  <2>31. CASE Delete(s)
    BY <2>31 DEF Delete, ImapConnected
  <2>32. CASE DeleteFolderRows(s)
    BY <2>32 DEF DeleteFolderRows, ImapConnected
  <2>33. CASE DeleteRefund(s)
    BY <2>33 DEF DeleteRefund, ImapConnected
  <2>34. CASE DeleteFolder(s)
    BY <2>34 DEF DeleteFolder, ImapConnected
  <2>35. CASE Rename(s)
    BY <2>35 DEF Rename, ImapConnected
  <2>36. CASE Logout(s)
    BY <2>36 DEF Logout, ImapConnected, LoggedOut
  <2>37. CASE ImapDisconnect(s)
    BY <2>37 DEF ImapDisconnect, ImapConnected, LoggedOut
  <2>38. CASE ImapKilled(s)
    BY <2>38 DEF ImapKilled, ImapConnected, LoggedOut
  <2>. QED
    BY <2>1, <2>2, <2>3, <2>4, <2>5, <2>6, <2>7, <2>8, <2>9, <2>10, <2>11, <2>12, <2>13, <2>14, <2>15,
       <2>16, <2>17, <2>18, <2>19, <2>20, <2>21, <2>22, <2>23, <2>24, <2>25, <2>26, <2>27, <2>28, <2>29,
       <2>30, <2>31, <2>32, <2>33, <2>34, <2>35, <2>36, <2>37, <2>38 DEF ImapStep
<1>. QED
  BY <1>1, <1>2, <1>3

\* A session's record after the refund.
LEMMA Refunding ==
    ASSUME Shapes, NEW p \in PopSessions, QuitRefund(p)
    PROVE  /\ pop'[p].freed = {}
           /\ pop'[p].state = (IF pop[p].freed = {} THEN "closed" ELSE "generation")
<1>1. CASE pop[p].freed = {}
  <2>1. pop' = [pop EXCEPT ![p] = PopEnded]
    BY <1>1 DEF QuitRefund
  <2>. QED
    BY <1>1, <2>1 DEF Shapes, PopEnded, PopConnected
<1>2. CASE pop[p].freed # {}
  <2>1. pop' = [pop EXCEPT ![p] = [PopEnded EXCEPT !.state = "generation"]]
    BY <1>2 DEF QuitRefund
  <2>. QED
    BY <1>2, <2>1 DEF Shapes, PopEnded, PopConnected
<1>. QED
  BY <1>1, <1>2

\* So does a step of a POP3 session, ...
LEMMA PopAlone ==
    ASSUME Shapes, NEW p \in PopSessions, PopStep(p), UNCHANGED imapVars
    PROVE  OnlyPop(p)
<1>. USE DEF Shapes, OnlyPop, mailboxVars, rowVars, imapVars, PopConnected, PopEnded
<1>1. CASE User(p) \/ Redirect(p) \/ PassOk(p) \/ PassFails(p)
  BY <1>1 DEF User, Redirect, PassOk, PassFails
<1>2. CASE Dele(p) \/ Rset(p) \/ Quit(p)
  BY <1>2 DEF Dele, Rset, Quit
<1>3. CASE QuitBlob(p) \/ QuitRow(p)
  BY <1>3 DEF QuitBlob, QuitRow, DeleteRows
<1>4. CASE QuitRefund(p) \/ QuitGeneration(p)
  BY <1>4 DEF QuitRefund, QuitGeneration
<1>5. CASE PopDisconnect(p) \/ PopKilled(p)
  BY <1>5 DEF PopDisconnect, PopKilled
<1>. QED
  BY <1>1, <1>2, <1>3, <1>4, <1>5 DEF PopStep

\* ... and what the rest of b1gMail does.
LEMMA OutsideShape ==
    ASSUME Shapes, Outside, UNCHANGED <<pop, imapVars>>
    PROVE  Shapes'
BY DEF Shapes, Outside, Delivered, Moved, InsertRow, imapVars

-----------------------------------------------------------------------------
(***************************************************************************)
(* What goes was wanted.                                                   *)
(***************************************************************************)

\* A session's lists of marked messages, and its folder.
WishesOK(r) ==
    /\ r.dels \cup r.backDels \subseteq wanted
    /\ r.pc # "writeback" => r.backDels = {}
    /\ r.pc = "row" => r.list[FirstDeleted(r)] \in r.dels
    /\ r.then # "row" /\ r.dirs \subseteq Folders /\ r.arg \in Folders \cup {"none"}

\* QUIT works on messages that were ordered to go.
OrdersOK(r) ==
    /\ r.state \in {"quit", "row"} => {r.msgs[n] : n \in r.dele} \subseteq ordered
    /\ r.state = "row" => r.pos \in r.dele

\* Flags, lists and marks stand for wishes.
WantInv ==
    /\ flagged \subseteq wanted
    /\ OnlyWantedGo
    /\ \A s \in ImapSessions : WishesOK(imap[s])
    /\ \A p \in PopSessions : OrdersOK(pop[p])

\* Steps that leave the wishes and the flags alone keep WantInv if the session does.
LEMMA WishesKept ==
    ASSUME Shapes, WantInv, NEW s \in ImapSessions, OnlyImap(s), UNCHANGED <<rowVars, pop>>,
           wanted \subseteq wanted', ordered \subseteq ordered', WishesOK(imap[s])'
    PROVE  WantInv'
<1>1. ASSUME NEW t \in ImapSessions PROVE WishesOK(imap[t])'
  <2>1. CASE t = s
    BY <2>1
  <2>2. CASE t # s
    BY <2>2 DEF WantInv, WishesOK, OnlyImap
  <2>. QED
    BY <2>1, <2>2
<1>2. ASSUME NEW p \in PopSessions PROVE OrdersOK(pop[p])'
  BY DEF WantInv, OrdersOK
<1>. QED
  BY <1>1, <1>2 DEF WantInv, OnlyWantedGo, RowsIn, rowVars

\* FetchMessages and what follows it.
LEMMA SkipWishes ==
    ASSUME NEW r, DOMAIN r = DOMAIN ImapConnected, WishesOK(r), r.pc = "writeback",
           r.back = {} => r.backDels = {}
    PROVE  WishesOK(Skip(r))
<1>1. CASE r.back = {}
  BY <1>1 DEF Skip, GoesOn, Waiting, WishesOK, ImapConnected
<1>2. CASE r.back # {}
  BY <1>2 DEF Skip
<1>. QED
  BY <1>1, <1>2

\* A list read anew is marked as the rows are.
LEMMA RefetchWishes ==
    ASSUME NEW r, DOMAIN r = DOMAIN ImapConnected, NEW f, flagged \subseteq wanted,
           r.then # "row", r.dirs \subseteq Folders, r.arg \in Folders \cup {"none"}
    PROVE  LET q == Refetch(r, f) IN
           /\ q.pc = "writeback" /\ (q.back = {} => q.backDels = {}) /\ WishesOK(q)
           /\ DOMAIN q = DOMAIN ImapConnected
BY DEF Refetch, WishesOK, ImapConnected

\* A step of a session with another command in hand.
LEMMA SameWishes ==
    ASSUME NEW r, WishesOK(r), r.pc # "writeback", NEW q, q.dels = r.dels, q.backDels = r.backDels,
           q.pc # "row", q.then # "row", q.dirs \subseteq Folders, q.arg \in Folders \cup {"none"}
    PROVE  WishesOK(q)
BY DEF WishesOK

\* A session that waits for the next command keeps its marks.
LEMMA WaitingWishes ==
    ASSUME NEW r, DOMAIN r = DOMAIN ImapConnected, WishesOK(r), r.pc # "writeback" \/ r.backDels = {},
           NEW pc \in {"ready", "idle"}
    PROVE  WishesOK(Waiting(r, pc))
BY DEF WishesOK, Waiting, ImapConnected

\* Commands and lists.
LEMMA ListsKeepWishes ==
    ASSUME Shapes, WantInv, NEW s \in ImapSessions, OnlyImap(s), UNCHANGED <<rowVars, wishVars>>,
           \/ Begin(s) \/ Login(s) \/ Refused(s) \/ Idle(s) \/ Poll(s) \/ Refresh(s)
           \/ Select(s) \/ Open(s) \/ Opened(s) \/ Status(s) \/ Reread(s)
    PROVE  WishesOK(imap[s])'
<1>. DEFINE r == imap[s]
            q == imap'[s]
<1>0. /\ DOMAIN r = DOMAIN ImapConnected /\ DOMAIN imap = ImapSessions /\ WishesOK(r)
      /\ flagged \subseteq wanted /\ r.then # "row" /\ r.dirs \subseteq Folders
      /\ r.arg \in Folders \cup {"none"}
  BY DEF Shapes, WantInv, WishesOK
<1>a. WishesOK(q) => WishesOK(imap[s])'
  BY DEF wishVars, WishesOK
<1>1. CASE Begin(s)
  <2>1. PICK c \in Refreshing : q = [r EXCEPT !.pc = IF r.sel = "none" \/ r.gen = gen THEN c ELSE "refresh",
                                              !.then = c, !.read = gen, !.dirs = Folders \ removed]
    BY <1>0, <1>1 DEF Begin
  <2>2. /\ q.pc # "row" /\ q.then # "row" /\ q.dirs \subseteq Folders /\ q.arg = r.arg
        /\ q.dels = r.dels /\ q.backDels = r.backDels
    BY <1>0, <2>1 DEF ImapConnected, Refreshing
  <2>. QED
    BY <1>0, <1>1, <1>a, <2>2, SameWishes DEF Begin, At
<1>2. CASE Login(s) \/ Idle(s) \/ Poll(s)
  <2>1. /\ q.pc # "row" /\ q.then # "row" /\ q.dirs = r.dirs /\ q.arg = r.arg
        /\ q.dels = r.dels /\ q.backDels = r.backDels /\ r.pc # "writeback"
    BY <1>0, <1>2 DEF Login, Idle, Poll, ImapConnected, At
  <2>. QED
    BY <1>0, <1>a, <2>1, SameWishes
<1>3. CASE Refused(s)
  BY <1>0, <1>3, <1>a, WaitingWishes DEF Refused, Ready
<1>4. CASE Refresh(s)
  <2>1. PICK gen1, client, raced :
           q = Skip([Refetch(r, r.sel) EXCEPT !.gen = gen1, !.client = client, !.raced = raced])
    BY <1>0, <1>4 DEF Refresh
  <2>. DEFINE z == Refetch(r, r.sel)
  <2>2. /\ z.pc = "writeback" /\ (z.back = {} => z.backDels = {}) /\ WishesOK(z)
        /\ DOMAIN z = DOMAIN ImapConnected
        /\ q = Skip([z EXCEPT !.gen = gen1, !.client = client, !.raced = raced])
    BY <1>0, <2>1, RefetchWishes
  <2>. DEFINE y == [z EXCEPT !.gen = gen1, !.client = client, !.raced = raced]
  <2>. HIDE DEF z
  <2>3. /\ DOMAIN y = DOMAIN ImapConnected /\ y.pc = z.pc /\ y.dels = z.dels /\ y.back = z.back
        /\ y.backDels = z.backDels /\ y.then = z.then /\ y.dirs = z.dirs /\ y.arg = z.arg
    BY <2>2 DEF ImapConnected
  <2>. HIDE DEF y
  <2>4. WishesOK(y)
    BY <2>2, <2>3 DEF WishesOK
  <2>. QED
    BY <1>a, <2>2, <2>3, <2>4, SkipWishes DEF y
<1>5. CASE Select(s)
  <2>1. PICK f \in r.dirs :
           imap' = [imap EXCEPT ![s].arg = f, ![s].ro = IF At(s, "examine") THEN "yes" ELSE "no",
                                ![s].pc  = IF AutoExpunge /\ imap[s].sel # "none"
                                           THEN "reselect" ELSE "open"]
    BY <1>5 DEF Select
  <2>2. /\ q.pc # "row" /\ q.then # "row" /\ q.dirs = r.dirs /\ q.arg \in Folders
        /\ q.dels = r.dels /\ q.backDels = r.backDels /\ r.pc # "writeback"
    BY <1>0, <1>5, <2>1 DEF Select, ImapConnected
  <2>. QED
    BY <1>0, <1>a, <2>2, SameWishes
<1>6. CASE Open(s)
  <2>. DEFINE z == [r EXCEPT !.sel = r.arg, !.arg = "none", !.read = gen, !.then = "opened"]
  <2>1. q = Skip(Refetch(z, r.arg))
    BY <1>0, <1>6 DEF Open
  <2>2. /\ DOMAIN z = DOMAIN ImapConnected /\ z.then # "row" /\ z.dirs \subseteq Folders
        /\ z.arg \in Folders \cup {"none"}
    BY <1>0 DEF ImapConnected
  <2>. HIDE DEF z
  <2>. QED
    BY <1>0, <1>a, <2>1, <2>2, SkipWishes, RefetchWishes
<1>7. CASE Opened(s)
  <2>1. PICK gen1, client, raced :
           q = Waiting([r EXCEPT !.gen = gen1, !.client = client, !.untold = FALSE, !.raced = raced], "ready")
    BY <1>0, <1>7 DEF Opened, Ready
  <2>2. r.pc # "writeback"
    BY <1>7 DEF Opened, At
  <2>. QED
    BY <1>0, <1>a, <2>1, <2>2 DEF WishesOK, Waiting, ImapConnected
<1>8. CASE Status(s)
  <2>1. PICK back, backDels :
           /\ imap' = [imap EXCEPT ![s] = Skip([imap[s] EXCEPT !.pc = "writeback", !.then = "ready",
                                               !.back = back, !.backDels = backDels])]
           /\ backDels \subseteq flagged
           /\ back = {} => backDels = {}
    BY <1>8, StatusWritesBack
  <2>2. q = Skip([r EXCEPT !.pc = "writeback", !.then = "ready", !.back = back, !.backDels = backDels])
    BY <1>0, <2>1
  <2>3. WishesOK([r EXCEPT !.pc = "writeback", !.then = "ready", !.back = back, !.backDels = backDels])
    BY <1>0, <2>1 DEF WishesOK, ImapConnected
  <2>. QED
    BY <1>0, <1>a, <2>1, <2>2, <2>3, SkipWishes DEF ImapConnected
<1>9. CASE Reread(s)
  <2>. DEFINE z == Refetch([r EXCEPT !.then = "ready"], r.sel)
  <2>1. PICK untold : q = Skip([z EXCEPT !.untold = untold])
    BY <1>0, <1>9 DEF Reread
  <2>2. /\ z.pc = "writeback" /\ (z.back = {} => z.backDels = {}) /\ WishesOK(z)
        /\ DOMAIN z = DOMAIN ImapConnected
    BY <1>0, RefetchWishes DEF ImapConnected
  <2>. HIDE DEF z
  <2>. QED
    BY <1>a, <2>1, <2>2, SkipWishes DEF WishesOK, ImapConnected
<1>. QED
  BY <1>1, <1>2, <1>3, <1>4, <1>5, <1>6, <1>7, <1>8, <1>9

\* A session that has ended.
LEMMA LoggedOutWishes == WishesOK(LoggedOut)
BY DEF WishesOK, LoggedOut, ImapConnected

\* The end of Expunge() leaves no mark that was not there.
LEMMA ExpungedWishes ==
    ASSUME NEW r, DOMAIN r = DOMAIN ImapConnected, WishesOK(r), r.pc \in Expunging
    PROVE  WishesOK(Expunged(r))
<1>. USE DEF Expunged, Ready, Waiting, Deselected, WishesOK, ImapConnected, Expunging
<1>1. CASE r.pc = "expunge"
  BY <1>1
<1>2. CASE r.pc = "close"
  BY <1>2
<1>3. CASE r.pc = "reselect"
  BY <1>3
<1>4. CASE r.pc = "logout"
  BY <1>4, LoggedOutWishes
<1>. QED
  BY <1>1, <1>2, <1>3, <1>4

\* The steps of commands that change no row.
LEMMA CommandsKeepWishes ==
    ASSUME Shapes, WantInv, NEW s \in ImapSessions, OnlyImap(s), UNCHANGED rowVars,
           wanted \subseteq wanted',
           \/ Announce(s) \/ ExpungeBlob(s) \/ ExpungeGeneration(s) \/ ExpungeDone(s)
           \/ Copy(s) \/ CopyCheck(s) \/ CopyBlob(s) \/ CopyGeneration(s) \/ CopyCharge(s)
           \/ AppendCommand(s) \/ AppendGeneration(s) \/ AppendBlob(s) \/ AppendCharge(s)
           \/ Delete(s) \/ DeleteRefund(s) \/ DeleteFolder(s) \/ Rename(s)
           \/ Logout(s) \/ ImapDisconnect(s) \/ ImapKilled(s)
    PROVE  WishesOK(imap[s])'
<1>. DEFINE r == imap[s]
            q == imap'[s]
<1>0. /\ DOMAIN r = DOMAIN ImapConnected /\ DOMAIN imap = ImapSessions /\ WishesOK(r)
      /\ flagged \subseteq wanted /\ r.then # "row" /\ r.dirs \subseteq Folders
      /\ r.arg \in Folders \cup {"none"}
  BY DEF Shapes, WantInv, WishesOK
<1>a. WishesOK(q) => WishesOK(imap[s])'
  BY DEF WishesOK
<1>1. CASE Announce(s)
  <2>1. q = GoesOn(r, r.then) /\ r.pc = "announce"
    BY <1>0, <1>1 DEF Announce, At
  <2>2. CASE r.then \in {"ready", "idle"}
    BY <1>0, <1>a, <2>1, <2>2, WaitingWishes DEF GoesOn
  <2>3. CASE r.then \notin {"ready", "idle"}
    <3>1. /\ q.pc = r.then /\ q.then = r.then /\ q.dirs = r.dirs /\ q.arg = r.arg
          /\ q.dels = r.dels /\ q.backDels = r.backDels
      BY <1>0, <2>1, <2>3 DEF GoesOn, ImapConnected
    <3>. QED
      BY <1>0, <1>a, <2>1, <3>1, SameWishes
  <2>. QED
    BY <2>2, <2>3
<1>2. CASE ExpungeBlob(s)
  <2>1. /\ q.pc = "row" /\ q.then = r.pc /\ q.dirs = r.dirs /\ q.arg = r.arg /\ q.list = r.list
        /\ q.dels = r.dels /\ q.backDels = r.backDels /\ r.pc \in Expunging /\ FirstDeleted(r) # 0
    BY <1>0, <1>2 DEF ExpungeBlob, ImapConnected
  <2>2. FirstDeleted(q) = FirstDeleted(r) /\ r.list[FirstDeleted(r)] \in r.dels
    BY <2>1, FirstIsDeleted, SameFirst
  <2>. QED
    BY <1>0, <1>a, <2>1, <2>2 DEF WishesOK, Expunging
<1>3. CASE ExpungeGeneration(s) \/ DeleteRefund(s) \/ DeleteFolder(s) \/ Rename(s)
  <2>1. /\ q.pc # "row" /\ q.then # "row" /\ q.dirs = r.dirs /\ q.arg \in {r.arg, "none"}
        /\ q.dels = r.dels /\ q.backDels = r.backDels /\ r.pc # "writeback"
    BY <1>0, <1>3 DEF ExpungeGeneration, DeleteRefund, DeleteFolder, Rename, At, Expunging, ImapConnected
  <2>. QED
    BY <1>0, <1>a, <2>1, SameWishes
<1>4. CASE ExpungeDone(s)
  BY <1>0, <1>4, <1>a, ExpungedRecord, ExpungedWishes
<1>5. CASE CopyBlob(s) \/ CopyGeneration(s) \/ CopyCharge(s)
  <2>1. /\ q.pc # "row" /\ q.then = r.then /\ q.dirs = r.dirs /\ q.arg \in Folders \cup {"none"}
        /\ q.dels = r.dels /\ q.backDels = r.backDels /\ r.pc # "writeback"
    BY <1>0, <1>5 DEF CopyBlob, CopyGeneration, CopyCharge, At, ImapConnected
  <2>. QED
    BY <1>0, <1>a, <2>1, SameWishes
<1>6. CASE CopyCheck(s)
  <2>1. \/ q = Waiting(r, "ready")
        \/ /\ q.pc # "row" /\ q.then = r.then /\ q.dirs = r.dirs /\ q.arg = r.arg
           /\ q.dels = r.dels /\ q.backDels = r.backDels
    BY <1>0, <1>6 DEF CopyCheck, At, Ready, ImapConnected
  <2>2. r.pc = "copying"
    BY <1>6 DEF CopyCheck, At
  <2>. QED
    BY <1>0, <1>a, <2>1, <2>2, SameWishes, WaitingWishes
<1>7. CASE AppendCommand(s)
  <2>1. \/ q = Waiting(r, "ready")
        \/ /\ q.pc # "row" /\ q.then = r.then /\ q.dirs = r.dirs /\ q.arg \in r.dirs
           /\ q.dels = r.dels /\ q.backDels = r.backDels
    <3>1. PICK f \in r.dirs, n \in Sizes :
             imap' = IF used + n > SizeLimit \/ Fresh = {}
                     THEN [imap EXCEPT ![s] = Ready(@)]
                     ELSE [imap EXCEPT ![s].pc = "appendrow", ![s].arg = f, ![s].octets = n]
      BY <1>7 DEF AppendCommand
    <3>2. CASE used + n > SizeLimit \/ Fresh = {}
      BY <1>0, <3>1, <3>2 DEF Ready
    <3>3. CASE ~(used + n > SizeLimit \/ Fresh = {})
      BY <1>0, <3>1, <3>3 DEF ImapConnected
    <3>. QED
      BY <3>2, <3>3
  <2>2. r.pc = "append"
    BY <1>7 DEF AppendCommand, At
  <2>. QED
    BY <1>0, <1>a, <2>1, <2>2, SameWishes, WaitingWishes
<1>8. CASE AppendGeneration(s) \/ AppendBlob(s) \/ AppendCharge(s)
  <2>1. /\ q.pc # "row" /\ q.then = r.then /\ q.dirs = r.dirs /\ q.arg \in Folders \cup {"none"}
        /\ q.dels = r.dels /\ q.backDels = r.backDels /\ r.pc # "writeback"
    BY <1>0, <1>8 DEF AppendGeneration, AppendBlob, AppendCharge, At, ImapConnected
  <2>. QED
    BY <1>0, <1>a, <2>1, SameWishes
<1>9. CASE Logout(s)
  <2>1. q = LoggedOut \/ (q = [r EXCEPT !.pc = "logout"] /\ r.pc = "ready")
    BY <1>0, <1>9 DEF Logout, At
  <2>. QED
    BY <1>0, <1>a, <2>1, LoggedOutWishes DEF WishesOK, ImapConnected
<1>10. CASE ImapDisconnect(s) \/ ImapKilled(s)
  BY <1>0, <1>10, <1>a, LoggedOutWishes DEF ImapDisconnect, ImapKilled
<1>11. CASE Copy(s)
  <2>1. PICK f, S : /\ f \in r.dirs
                     /\ imap' = [imap EXCEPT ![s].pc = "copying", ![s].arg = f, ![s].todo = S]
    BY <1>11 DEF Copy
  <2>2. /\ q.pc # "row" /\ q.then = r.then /\ q.dirs = r.dirs /\ q.arg \in r.dirs
        /\ q.dels = r.dels /\ q.backDels = r.backDels /\ r.pc # "writeback"
    BY <1>0, <1>11, <2>1 DEF Copy, At, ImapConnected
  <2>. QED
    BY <1>0, <1>a, <2>2, SameWishes
<1>12. CASE Delete(s)
  <2>1. PICK f, S : /\ f \in r.dirs
                     /\ imap' = [imap EXCEPT ![s].pc = "deleterows", ![s].arg = f, ![s].todo = S]
    BY <1>12 DEF Delete
  <2>2. /\ q.pc # "row" /\ q.then = r.then /\ q.dirs = r.dirs /\ q.arg \in r.dirs
        /\ q.dels = r.dels /\ q.backDels = r.backDels /\ r.pc # "writeback"
    BY <1>0, <1>12, <2>1 DEF Delete, At, ImapConnected
  <2>. QED
    BY <1>0, <1>a, <2>2, SameWishes
<1>. QED
  BY <1>1, <1>2, <1>3, <1>4, <1>5, <1>6, <1>7, <1>8, <1>9, <1>10, <1>11, <1>12

\* What is left to show of a step that changes rows or flags.
LEMMA WantInvFrom ==
    ASSUME Shapes, WantInv, NEW s \in ImapSessions, OnlyImap(s), UNCHANGED pop,
           flagged' \subseteq wanted', RowsIn("gone")' \subseteq wanted' \cup ordered',
           ordered \subseteq ordered', WishesOK(imap[s])',
           \A t \in ImapSessions \ {s} : imap[t].dels \cup imap[t].backDels \subseteq wanted'
    PROVE  WantInv'
<1>1. ASSUME NEW t \in ImapSessions PROVE WishesOK(imap[t])'
  <2>1. CASE t = s
    BY <2>1
  <2>2. CASE t # s
    BY <2>2 DEF WantInv, WishesOK, OnlyImap
  <2>. QED
    BY <2>1, <2>2
<1>2. ASSUME NEW p \in PopSessions PROVE OrdersOK(pop[p])'
  BY DEF WantInv, OrdersOK
<1>. QED
  BY <1>1, <1>2 DEF WantInv, OnlyWantedGo

\* STORE takes a wish back only if no other session has the message marked.
LEMMA StoreKeepsWishes ==
    ASSUME Shapes, WantInv, NEW s \in ImapSessions, OnlyImap(s), UNCHANGED pop, Store(s)
    PROVE  WantInv'
<1>. DEFINE r == imap[s]
            q == imap'[s]
<1>0. /\ DOMAIN r = DOMAIN ImapConnected /\ DOMAIN imap = ImapSessions /\ WishesOK(r)
      /\ flagged \subseteq wanted /\ r.pc = "ready" /\ r.backDels = {}
      /\ RowsIn("gone") \subseteq wanted \cup ordered
  BY DEF Shapes, WantInv, WishesOK, Store, At, OnlyWantedGo
<1>1. PICK m \in Listing(s), deleted \in BOOLEAN, unseen \in BOOLEAN :
          LET dels == IF deleted THEN imap[s].dels \cup {m} ELSE imap[s].dels \ {m}
              recs == IF unseen THEN imap[s].recs \cup {m} ELSE imap[s].recs \ {m}
          IN /\ imap' = [imap EXCEPT ![s].dels = dels, ![s].recs = recs,
                                     ![s].pc = "announce", ![s].then = "ready"]
             /\ WriteFlags({m}, dels, recs)
             /\ wanted' = IF deleted THEN wanted \cup {m}
                         ELSE IF m \notin Rows \/ WantedElsewhere(s, m) THEN wanted
                         ELSE wanted \ {m}
  BY DEF Store
<1>2. /\ q.dels = (IF deleted THEN r.dels \cup {m} ELSE r.dels \ {m}) /\ q.backDels = {}
      /\ q.pc = "announce" /\ q.then = "ready" /\ q.dirs = r.dirs /\ q.arg = r.arg
  BY <1>0, <1>1 DEF ImapConnected
<1>3. /\ folder' = folder /\ ordered' = ordered
      /\ flagged' = (flagged \ ({m} \cap Rows)) \cup (({m} \cap Rows) \cap q.dels)
  <2>1. ordered' = ordered
    BY DEF Store
  <2>2. /\ folder' = folder
        /\ flagged' = (flagged \ ({m} \cap Rows))
                        \cup (({m} \cap Rows) \cap (IF deleted THEN r.dels \cup {m} ELSE r.dels \ {m}))
    BY <1>1 DEF WriteFlags
  <2>. QED
    BY <1>2, <2>1, <2>2
<1>4. RowsIn("gone")' = RowsIn("gone") /\ RowsIn("gone") \cap Rows = {}
  BY <1>3, MailboxAssumption DEF RowsIn, Rows
<1>5. CASE deleted
  <2>1. wanted' = wanted \cup {m}
    BY <1>1, <1>5
  <2>2. WishesOK(imap[s])'
    BY <1>0, <1>2, <1>5, <2>1 DEF WishesOK
  <2>. QED
    BY <1>0, <1>3, <1>4, <2>1, <2>2, WantInvFrom DEF WantInv, WishesOK
<1>6. CASE ~deleted /\ (m \notin Rows \/ WantedElsewhere(s, m))
  <2>1. wanted' = wanted /\ flagged' \subseteq wanted
    BY <1>0, <1>1, <1>2, <1>3, <1>6
  <2>2. WishesOK(imap[s])'
    BY <1>0, <1>2, <1>6, <2>1 DEF WishesOK
  <2>. QED
    BY <1>0, <1>3, <1>4, <2>1, <2>2, WantInvFrom DEF WantInv, WishesOK
<1>7. CASE ~deleted /\ m \in Rows /\ ~WantedElsewhere(s, m)
  <2>1. wanted' = wanted \ {m} /\ flagged' = flagged \ {m}
    BY <1>0, <1>1, <1>2, <1>3, <1>7
  <2>2. WishesOK(imap[s])'
    BY <1>0, <1>2, <1>7, <2>1 DEF WishesOK
  <2>3. \A t \in ImapSessions \ {s} : imap[t].dels \cup imap[t].backDels \subseteq wanted'
    BY <1>7, <2>1 DEF WantedElsewhere, WantInv, WishesOK
  <2>. QED
    BY <1>0, <1>3, <1>4, <1>7, <2>1, <2>2, <2>3, WantInvFrom
<1>. QED
  BY <1>5, <1>6, <1>7

\* The other steps that write flags or rows.
LEMMA RowsKeepWishes ==
    ASSUME Shapes, WantInv, NEW s \in ImapSessions, OnlyImap(s), UNCHANGED pop,
           \/ WriteBack(s) \/ AppendFlags(s) \/ CopyRow(s) \/ AppendRow(s)
           \/ ExpungeRow(s) \/ DeleteFolderRows(s)
    PROVE  WantInv'
<1>. DEFINE r == imap[s]
            q == imap'[s]
<1>0. /\ DOMAIN r = DOMAIN ImapConnected /\ DOMAIN imap = ImapSessions /\ WishesOK(r)
      /\ flagged \subseteq wanted /\ RowsIn("gone") \subseteq wanted \cup ordered
      /\ r.then # "row" /\ r.dirs \subseteq Folders /\ r.arg \in Folders \cup {"none"}
  BY DEF Shapes, WantInv, WishesOK, OnlyWantedGo
<1>a. \A t \in ImapSessions \ {s} : imap[t].dels \cup imap[t].backDels \subseteq wanted
  BY DEF WantInv, WishesOK
<1>b. DOMAIN folder = Mails
  BY DEF Shapes
<1>1. CASE WriteBack(s)
  <2>1. /\ q = GoesOn([r EXCEPT !.back = {}, !.backDels = {}], r.then)
        /\ folder' = folder /\ wanted' = wanted /\ ordered' = ordered
        /\ flagged' \subseteq flagged \cup r.backDels
    BY <1>0, <1>1 DEF WriteBack, WriteFlags, wishVars
  <2>2. WishesOK(q)
    BY <1>0, <2>1 DEF GoesOn, Waiting, WishesOK, ImapConnected
  <2>. QED
    BY <1>0, <1>a, <2>1, <2>2, WantInvFrom DEF WishesOK, RowsIn
<1>2. CASE AppendFlags(s)
  <2>1. PICK deleted \in BOOLEAN :
          /\ WriteFlags({r.new}, IF deleted THEN {r.new} ELSE {}, {r.new})
          /\ wanted' = IF deleted THEN wanted \cup {r.new} ELSE wanted
    BY <1>2 DEF AppendFlags
  <2>2. /\ folder' = folder /\ ordered' = ordered /\ wanted \subseteq wanted' /\ flagged' \subseteq wanted'
    BY <1>0, <1>2, <2>1 DEF AppendFlags, WriteFlags
  <2>3. /\ q.pc = "announce" /\ q.then \in {"ready", "reread"} /\ q.dirs = r.dirs /\ q.arg = r.arg
        /\ q.dels = r.dels /\ q.backDels = r.backDels /\ r.backDels = {}
    BY <1>0, <1>2 DEF AppendFlags, At, WishesOK, ImapConnected
  <2>4. WishesOK(imap[s])'
    BY <1>0, <2>2, <2>3 DEF WishesOK
  <2>. QED
    BY <1>0, <1>a, <2>2, <2>4, WantInvFrom DEF RowsIn
<1>3. CASE CopyRow(s)
  <2>. DEFINE m == Min(r.todo)
              new == Min(Fresh)
  <2>0. /\ q.pc \in {"copyblob", "copying"} /\ q.then = r.then /\ q.dirs = r.dirs /\ q.arg = r.arg
        /\ q.dels = r.dels /\ q.backDels = r.backDels /\ r.pc = "copyrow"
    BY <1>0, <1>3 DEF CopyRow, At, ImapConnected
  <2>1. CASE m \in Rows /\ Fresh # {}
    <3>1. /\ InsertRow(new, r.arg, size[m], m \in flagged) /\ ordered' = ordered
          /\ wanted' = IF m \in flagged THEN wanted \cup {new} ELSE wanted
      BY <1>3, <2>1 DEF CopyRow
    <3>2. flagged' \subseteq wanted' /\ wanted \subseteq wanted' /\ folder' = [folder EXCEPT ![new] = r.arg]
      BY <1>0, <3>1 DEF InsertRow
    <3>. HIDE DEF m, new
    <3>3. RowsIn("gone")' \subseteq RowsIn("gone")
      BY <1>0, <1>b, <3>2, MailboxAssumption DEF RowsIn
    <3>4. WishesOK(imap[s])'
      BY <1>0, <2>0, <3>2 DEF WishesOK
    <3>. QED
      BY <1>0, <1>a, <3>1, <3>2, <3>3, <3>4, WantInvFrom
  <2>2. CASE ~(m \in Rows /\ Fresh # {})
    <3>1. UNCHANGED <<rowVars, wanted>> /\ ordered' = ordered
      BY <1>3, <2>2 DEF CopyRow
    <3>2. WishesOK(imap[s])'
      BY <1>0, <2>0, <3>1 DEF WishesOK
    <3>. QED
      BY <3>1, <3>2, WishesKept
  <2>. QED
    BY <2>1, <2>2
<1>4. CASE AppendRow(s)
  <2>1. PICK new \in Fresh :
           /\ InsertRow(new, r.arg, r.octets, FALSE)
           /\ imap' = [imap EXCEPT ![s].pc = "appendgeneration", ![s].new = new,
                                   ![s].arg = "none", ![s].octets = 0]
    BY <1>4 DEF AppendRow
  <2>2. /\ q.pc = "appendgeneration" /\ q.then = r.then /\ q.dirs = r.dirs /\ q.arg = "none"
        /\ q.dels = r.dels /\ q.backDels = r.backDels /\ r.pc = "appendrow"
    BY <1>0, <1>4, <2>1 DEF AppendRow, At, ImapConnected
  <2>3. /\ wanted' = wanted /\ ordered' = ordered
        /\ flagged' = flagged /\ folder' = [folder EXCEPT ![new] = r.arg]
    BY <1>4, <2>1 DEF AppendRow, InsertRow, wishVars
  <2>4. RowsIn("gone")' \subseteq RowsIn("gone")
    BY <1>0, <1>b, <2>3, MailboxAssumption DEF RowsIn
  <2>5. WishesOK(imap[s])'
    BY <1>0, <2>2, <2>3 DEF WishesOK
  <2>. QED
    BY <1>0, <1>a, <2>3, <2>4, <2>5, WantInvFrom
<1>5. CASE ExpungeRow(s)
  <2>. DEFINE m == r.list[FirstDeleted(r)]
  <2>1. /\ q.pc = r.then /\ q.then = r.then /\ q.dirs = r.dirs /\ q.arg = r.arg
        /\ q.dels = r.dels \ {m} /\ q.backDels = r.backDels /\ r.pc = "row"
    BY <1>5, RowGone
  <2>2. m \in wanted
    BY <1>0, <2>1 DEF WishesOK
  <2>3. /\ wanted' = wanted /\ ordered' = ordered /\ flagged' \subseteq flagged
        /\ folder' = [n \in Mails |-> IF n \in {m} /\ n \in Rows THEN "gone" ELSE folder[n]]
    BY <1>5 DEF ExpungeRow, DeleteRows, wishVars
  <2>. HIDE DEF m
  <2>4. RowsIn("gone")' \subseteq RowsIn("gone") \cup {m}
    BY <2>3 DEF RowsIn
  <2>5. WishesOK(imap[s])'
    BY <1>0, <2>1, <2>3 DEF WishesOK
  <2>. QED
    BY <1>0, <1>a, <2>2, <2>3, <2>4, <2>5, WantInvFrom
<1>6. CASE DeleteFolderRows(s)
  <2>. DEFINE now == RowsIn(r.arg)
  <2>1. /\ q.pc = "deleterefund" /\ q.then = r.then /\ q.dirs = r.dirs /\ q.arg = r.arg
        /\ q.dels = r.dels /\ q.backDels = r.backDels /\ r.pc = "deleterows"
    BY <1>0, <1>6 DEF DeleteFolderRows, At, ImapConnected
  <2>2. /\ wanted' = wanted /\ ordered' = ordered \cup now /\ flagged' \subseteq flagged
        /\ folder' = [n \in Mails |-> IF n \in now /\ n \in Rows THEN "gone" ELSE folder[n]]
    BY <1>6 DEF DeleteFolderRows, DeleteRows
  <2>. HIDE DEF now
  <2>3. RowsIn("gone")' \subseteq RowsIn("gone") \cup now
    BY <2>2 DEF RowsIn
  <2>4. WishesOK(imap[s])'
    BY <1>0, <2>1, <2>2 DEF WishesOK
  <2>. QED
    BY <1>0, <1>a, <2>2, <2>3, <2>4, WantInvFrom
<1>. QED
  BY <1>1, <1>2, <1>3, <1>4, <1>5, <1>6

-----------------------------------------------------------------------------
\* What the POP3 sessions and the rest of b1gMail do to the wishes.
LEMMA PopKeepsWishes ==
    ASSUME Shapes, WantInv, NEW p \in PopSessions, OnlyPop(p), PopStep(p), UNCHANGED imapVars
    PROVE  WantInv'
<1>. DEFINE r == pop[p]
            q == pop'[p]
<1>0. /\ DOMAIN r = DOMAIN PopConnected /\ DOMAIN pop = PopSessions /\ OrdersOK(r)
      /\ flagged \subseteq wanted /\ RowsIn("gone") \subseteq wanted \cup ordered
  BY DEF Shapes, WantInv, OnlyWantedGo
<1>1. SUFFICES /\ wanted' = wanted /\ ordered \subseteq ordered' /\ flagged' \subseteq flagged
               /\ RowsIn("gone")' \subseteq wanted \cup ordered'
               /\ OrdersOK(pop[p])'
  <2>1. ASSUME NEW t \in PopSessions PROVE OrdersOK(pop[t])'
    <3>1. CASE t = p
      BY <1>1, <3>1
    <3>2. CASE t # p
      BY <1>1, <3>2 DEF WantInv, OrdersOK, OnlyPop
    <3>. QED
      BY <3>1, <3>2
  <2>2. ASSUME NEW s \in ImapSessions PROVE WishesOK(imap[s])'
    BY <1>1 DEF WantInv, WishesOK, imapVars
  <2>. QED
    BY <1>0, <1>1, <2>1, <2>2 DEF WantInv, OnlyWantedGo
<1>2. CASE User(p) \/ Redirect(p) \/ PassOk(p) \/ PassFails(p) \/ Dele(p) \/ Rset(p) \/ PopDisconnect(p)
  <2>1. UNCHANGED mailboxVars
    BY <1>2 DEF User, Redirect, PassOk, PassFails, Dele, Rset, PopDisconnect
  <2>2. q.state \in {"authorization", "transaction", "closed"}
    <3>1. CASE User(p) \/ Redirect(p)
      BY <1>0, <3>1 DEF User, Redirect, PopEnded, PopConnected
    <3>2. CASE PassOk(p) \/ PassFails(p)
      BY <1>0, <3>2 DEF PassOk, PassFails, PopEnded, PopConnected
    <3>3. CASE Dele(p)
      BY <1>0, <3>3 DEF Dele, PopConnected
    <3>4. CASE Rset(p) \/ PopDisconnect(p)
      BY <1>0, <3>4 DEF Rset, PopDisconnect, PopEnded, PopConnected
    <3>. QED
      BY <1>2, <3>1, <3>2, <3>3, <3>4
  <2>. QED
    BY <1>0, <2>1, <2>2 DEF mailboxVars, rowVars, wishVars, OrdersOK, RowsIn
<1>3. CASE Quit(p)
  <2>1. UNCHANGED rowVars /\ wanted' = wanted
    BY <1>3 DEF Quit
  <2>2. \/ q.state = "closed" /\ ordered' = ordered
        \/ q.state = "quit" /\ q.dele = r.dele /\ q.msgs = r.msgs /\ ordered' = ordered \cup Marked(p)
    BY <1>0, <1>3 DEF Quit, PopEnded, PopConnected
  <2>3. ordered \subseteq ordered' /\ OrdersOK(pop[p])'
    BY <2>2 DEF OrdersOK, Marked
  <2>. QED
    BY <1>0, <2>1, <2>3 DEF rowVars, RowsIn
<1>4. CASE QuitBlob(p)
  <2>1. PICK n \in r.dele : pop' = [pop EXCEPT ![p].state = "row", ![p].pos = n]
    BY <1>4 DEF QuitBlob
  <2>2. /\ q.state = "row" /\ q.pos = n /\ q.dele = r.dele /\ q.msgs = r.msgs /\ r.state = "quit"
        /\ UNCHANGED <<rowVars, wishVars>>
    BY <1>0, <1>4, <2>1 DEF QuitBlob, PopConnected
  <2>. QED
    BY <1>0, <2>1, <2>2 DEF rowVars, wishVars, OrdersOK, RowsIn
<1>5. CASE QuitRow(p)
  <2>. DEFINE m == r.msgs[r.pos]
  <2>1. m \in ordered
    BY <1>0, <1>5 DEF QuitRow, OrdersOK
  <2>2. /\ q.state = "quit" /\ q.dele = r.dele /\ q.msgs = r.msgs /\ r.state = "row"
        /\ UNCHANGED wishVars /\ flagged' \subseteq flagged
        /\ folder' = [n \in Mails |-> IF n \in {m} /\ n \in Rows THEN "gone" ELSE folder[n]]
    BY <1>0, <1>5 DEF QuitRow, DeleteRows, PopConnected
  <2>. HIDE DEF m
  <2>3. RowsIn("gone")' \subseteq RowsIn("gone") \cup {m}
    BY <2>2 DEF RowsIn
  <2>4. OrdersOK(pop[p])'
    BY <1>0, <2>2 DEF OrdersOK, wishVars
  <2>. QED
    BY <1>0, <2>1, <2>2, <2>3, <2>4 DEF wishVars
<1>6. CASE QuitRefund(p) \/ QuitGeneration(p) \/ PopKilled(p)
  <2>1. UNCHANGED <<rowVars, wishVars>> /\ q.state \in {"generation", "closed"}
    <3>1. CASE QuitRefund(p)
      BY <3>1, Refunding DEF QuitRefund
    <3>2. CASE QuitGeneration(p)
      BY <1>0, <3>2 DEF QuitGeneration, PopEnded, PopConnected
    <3>3. CASE PopKilled(p)
      BY <1>0, <3>3 DEF PopKilled, PopEnded, PopConnected
    <3>. QED
      BY <1>6, <3>1, <3>2, <3>3
  <2>. QED
    BY <1>0, <2>1 DEF rowVars, wishVars, OrdersOK, RowsIn
<1>. QED
  BY <1>2, <1>3, <1>4, <1>5, <1>6 DEF PopStep

\* Deliveries and moves delete nothing.
LEMMA OutsideKeepsWishes ==
    ASSUME Shapes, WantInv, Outside, UNCHANGED <<pop, imapVars>>
    PROVE  WantInv'
<1>1. /\ UNCHANGED wishVars /\ flagged' \subseteq flagged
      /\ \E m \in Mails, f \in Folders : folder' = [folder EXCEPT ![m] = f]
  <2>1. CASE Delivered
    BY <2>1, MailboxAssumption DEF Delivered, InsertRow, Fresh
  <2>2. CASE Moved
    BY <2>2 DEF Moved, Rows
  <2>. QED
    BY <2>1, <2>2 DEF Outside
<1>2. RowsIn("gone")' \subseteq RowsIn("gone")
  BY <1>1, MailboxAssumption DEF RowsIn, Shapes
<1>. QED
  BY <1>1, <1>2 DEF WantInv, OnlyWantedGo, WishesOK, OrdersOK, wishVars, imapVars

\* Every step of an IMAP session keeps WantInv.
LEMMA ImapKeepsWishes ==
    ASSUME Shapes, WantInv, NEW s \in ImapSessions, ImapStep(s), UNCHANGED pop
    PROVE  WantInv'
<1>1. OnlyImap(s)
  BY ImapAlone
<1>2. CASE Store(s)
  BY <1>1, <1>2, StoreKeepsWishes
<1>3. CASE \/ WriteBack(s) \/ AppendFlags(s) \/ CopyRow(s) \/ AppendRow(s)
           \/ ExpungeRow(s) \/ DeleteFolderRows(s)
  BY <1>1, <1>3, RowsKeepWishes
<1>4. CASE \/ Begin(s) \/ Login(s) \/ Refused(s) \/ Idle(s) \/ Poll(s) \/ Refresh(s)
           \/ Select(s) \/ Open(s) \/ Opened(s) \/ Status(s) \/ Reread(s)
  <2>1. UNCHANGED mailboxVars
    BY <1>4 DEF Begin, Login, Refused, Idle, Poll, Refresh, Select, Open, Opened, Status, Reread
  <2>2. WishesOK(imap[s])'
    BY <1>1, <1>4, <2>1, ListsKeepWishes DEF mailboxVars
  <2>. QED
    BY <1>1, <2>1, <2>2, WishesKept DEF mailboxVars, wishVars
<1>5. CASE \/ Announce(s) \/ ExpungeBlob(s) \/ ExpungeGeneration(s) \/ ExpungeDone(s)
           \/ Copy(s) \/ CopyCheck(s) \/ CopyBlob(s) \/ CopyGeneration(s) \/ CopyCharge(s)
           \/ AppendCommand(s) \/ AppendGeneration(s) \/ AppendBlob(s) \/ AppendCharge(s)
           \/ Delete(s) \/ DeleteRefund(s) \/ DeleteFolder(s) \/ Rename(s)
           \/ Logout(s) \/ ImapDisconnect(s) \/ ImapKilled(s)
  <2>1. UNCHANGED rowVars /\ wanted' = wanted /\ ordered \subseteq ordered'
    BY <1>5 DEF Announce, ExpungeBlob, ExpungeGeneration, ExpungeDone, Copy, CopyCheck, CopyBlob,
       CopyGeneration, CopyCharge, AppendCommand, AppendGeneration, AppendBlob, AppendCharge, Delete,
       DeleteRefund, DeleteFolder, Rename, Logout, ImapDisconnect, ImapKilled, mailboxVars, wishVars
  <2>2. WishesOK(imap[s])'
    BY <1>1, <1>5, <2>1, CommandsKeepWishes
  <2>. QED
    BY <1>1, <2>1, <2>2, WishesKept
<1>. QED
  BY <1>2, <1>3, <1>4, <1>5 DEF ImapStep

\* At the start the marked rows are those clients wanted deleted.
LEMMA WishesStart == Init => Shapes /\ WantInv
<1>1. ASSUME Init PROVE Shapes
  BY <1>1 DEF Init, MailboxInit, PopInit, ImapInit, Shapes
<1>2. ASSUME Init PROVE WantInv
  <2>1. RowsIn("gone") = {}
    BY <1>2, MailboxAssumption DEF Init, MailboxInit, RowsIn
  <2>2. \A s \in ImapSessions : WishesOK(imap[s])
    BY <1>2 DEF Init, ImapInit, ImapConnected, WishesOK
  <2>3. \A p \in PopSessions : OrdersOK(pop[p])
    BY <1>2 DEF Init, PopInit, PopConnected, OrdersOK
  <2>. QED
    BY <1>2, <2>1, <2>2, <2>3 DEF Init, MailboxInit, WantInv, OnlyWantedGo
<1>. QED
  BY <1>1, <1>2

\* WantInv is inductive.
LEMMA WishesStep ==
    ASSUME Shapes, WantInv, [Next]_vars
    PROVE  Shapes' /\ WantInv'
<1>1. CASE Outside /\ UNCHANGED <<pop, imapVars>>
  BY <1>1, OutsideShape, OutsideKeepsWishes
<1>2. ASSUME NEW p \in PopSessions, PopStep(p), UNCHANGED imapVars PROVE Shapes' /\ WantInv'
  BY <1>2, PopAlone, PopKeepsWishes DEF OnlyPop
<1>3. ASSUME NEW s \in ImapSessions, ImapStep(s), UNCHANGED pop PROVE Shapes' /\ WantInv'
  BY <1>3, ImapAlone, ImapKeepsWishes DEF OnlyImap
<1>4. CASE UNCHANGED vars
  BY <1>4 DEF vars, mailboxVars, rowVars, wishVars, imapVars, Shapes, WantInv, OnlyWantedGo, RowsIn,
     WishesOK, OrdersOK
<1>. QED
  BY <1>1, <1>2, <1>3, <1>4 DEF Next

\* A message is deleted only because a client marked it and did not take that back,
\* a QUIT had it marked, or the DELETE of its folder came: whatever the list says by which
\* a session expunges, and whoever has changed the flags meanwhile.
THEOREM MailOnlyWantedGo == Spec => []OnlyWantedGo
<1>1. Shapes /\ WantInv /\ [Next]_vars => (Shapes /\ WantInv)'
  BY WishesStep
<1>2. WantInv => OnlyWantedGo
  BY DEF WantInv
<1>. QED
  BY <1>1, <1>2, WishesStart, PTL DEF Spec

-----------------------------------------------------------------------------
(***************************************************************************)
(* A row keeps its body.                                                   *)
(***************************************************************************)

\* The bodies that are missing, without the wishes of clients: a session that has
\* deleted one still holds its row, or has been killed, or a command was ordered.
BodyInv ==
    \A m \in Rows \ blobs :
        m \in hollow \cup ordered \/ \E s \in ImapSessions : m \in Bodiless(s)

\* What one IMAP session has to show.
LEMMA BodyFrom ==
    ASSUME BodyInv, NEW s \in ImapSessions, OnlyImap(s),
           hollow \subseteq hollow', ordered \subseteq ordered',
           \A m \in (Rows \ blobs)' :
              \/ m \in (hollow \cup ordered \cup Bodiless(s))'
              \/ m \in (Rows \ blobs) \ Bodiless(s)
    PROVE  BodyInv'
<1>1. ASSUME NEW t \in ImapSessions \ {s} PROVE Bodiless(t)' = Bodiless(t)
  BY DEF OnlyImap, Bodiless, At
<1>. QED
  BY <1>1 DEF BodyInv

\* Where Bodiless(s) is empty.
Whole(r) == r.pc \notin {"row", "copyblob", "appendgeneration", "appendblob"}

\* A step of a session that neither stores nor deletes a body, and adds no row.
LEMMA BodyQuiet ==
    ASSUME BodyInv, NEW s \in ImapSessions, OnlyImap(s), Whole(imap[s]),
           hollow \subseteq hollow', ordered \subseteq ordered', Rows' \subseteq Rows, blobs \subseteq blobs'
    PROVE  BodyInv'
<1>1. Bodiless(s) = {}
  BY DEF Bodiless, Whole, At
<1>. QED
  BY <1>1, BodyFrom

\* The rows there are depend on their folders only.
LEMMA SameRows ==
    ASSUME folder' = folder
    PROVE  Rows' = Rows
BY DEF Rows

\* Every step of an IMAP session keeps BodyInv.
LEMMA ImapKeepsBodies ==
    ASSUME Shapes, BodyInv, NEW s \in ImapSessions, OnlyImap(s), ImapStep(s)
    PROVE  BodyInv'
<1>. DEFINE r == imap[s]
            q == imap'[s]
<1>0. DOMAIN r = DOMAIN ImapConnected /\ DOMAIN imap = ImapSessions /\ DOMAIN folder = Mails
  BY DEF Shapes
<1>1. CASE \/ Begin(s) \/ Login(s) \/ Refused(s) \/ Idle(s) \/ Poll(s) \/ Refresh(s)
           \/ Select(s) \/ Open(s) \/ Opened(s) \/ Status(s) \/ Reread(s)
           \/ Copy(s) \/ CopyCheck(s) \/ AppendCommand(s) \/ Rename(s) \/ Logout(s) \/ ImapDisconnect(s)
  <2>1. UNCHANGED mailboxVars
    BY <1>1 DEF Begin, Login, Refused, Idle, Poll, Refresh, Select, Open, Opened, Status, Reread,
       Copy, CopyCheck, AppendCommand, Rename, Logout, ImapDisconnect
  <2>2. Whole(r)
    BY <1>1 DEF Begin, Login, Refused, Idle, Poll, Refresh, Select, Open, Opened, Status, Reread,
       Copy, CopyCheck, AppendCommand, Rename, Logout, ImapDisconnect, At, Whole
  <2>. QED
    BY <2>1, <2>2, SameRows, BodyQuiet DEF mailboxVars, rowVars, wishVars, ledgerVars
<1>2. CASE \/ Store(s) \/ WriteBack(s) \/ Announce(s) \/ ExpungeGeneration(s) \/ ExpungeDone(s)
           \/ CopyGeneration(s) \/ CopyCharge(s) \/ AppendCharge(s) \/ AppendFlags(s)
           \/ DeleteRefund(s) \/ DeleteFolder(s)
  <2>1. /\ UNCHANGED <<folder, blobs, ordered, hollow>>
    <3>1. CASE Store(s) \/ WriteBack(s) \/ AppendFlags(s)
      BY <3>1, FlagsOnly DEF Store, WriteBack, AppendFlags, wishVars, ledgerVars
    <3>2. CASE ~(Store(s) \/ WriteBack(s) \/ AppendFlags(s))
      BY <1>2, <3>2 DEF Announce, ExpungeGeneration, ExpungeDone, CopyGeneration, CopyCharge, AppendCharge,
         DeleteRefund, DeleteFolder, rowVars, wishVars, ledgerVars
    <3>. QED
      BY <3>1, <3>2
  <2>2. Whole(r)
    BY <1>2 DEF Store, WriteBack, Announce, ExpungeGeneration, ExpungeDone, CopyGeneration,
       CopyCharge, AppendCharge, AppendFlags, DeleteRefund, DeleteFolder, At, Expunging, Whole
  <2>. QED
    BY <2>1, <2>2, SameRows, BodyQuiet
<1>3. CASE DeleteFolderRows(s)
  <2>1. /\ hollow' = hollow /\ ordered \subseteq ordered' /\ blobs' = blobs /\ Whole(r)
        /\ folder' = [n \in Mails |-> IF n \in RowsIn(r.arg) /\ n \in Rows THEN "gone" ELSE folder[n]]
    BY <1>3 DEF DeleteFolderRows, DeleteRows, At, Whole
  <2>2. Rows' \subseteq Rows
    BY <2>1, MailboxAssumption DEF Rows
  <2>. QED
    BY <2>1, <2>2, BodyQuiet
<1>4. CASE Delete(s)
  <2>1. PICK f : blobs' = blobs \ RowsIn(f) /\ ordered' = ordered \cup RowsIn(f)
    BY <1>4 DEF Delete
  <2>2. Bodiless(s) = {} /\ hollow' = hollow /\ Rows' = Rows
    BY <1>4, SameRows DEF Delete, At, Bodiless, rowVars, ledgerVars
  <2>. QED
    BY <2>1, <2>2, BodyFrom
<1>5. CASE ExpungeBlob(s)
  <2>. DEFINE m == r.list[FirstDeleted(r)]
  <2>1. /\ blobs' = blobs \ {m} /\ q.pc = "row" /\ q.list = r.list /\ q.dels = r.dels
        /\ UNCHANGED <<folder, hollow, ordered>> /\ Whole(r)
    BY <1>0, <1>5 DEF ExpungeBlob, Expunging, Whole, rowVars, wishVars, ledgerVars, ImapConnected
  <2>2. FirstDeleted(q) = FirstDeleted(r)
    BY <2>1, SameFirst
  <2>3. Bodiless(s)' = {m} /\ Bodiless(s) = {}
    BY <2>1, <2>2 DEF Bodiless, At, Whole
  <2>. HIDE DEF m
  <2>. QED
    BY <2>1, <2>3, SameRows, BodyFrom
<1>6. CASE ExpungeRow(s)
  <2>. DEFINE m == r.list[FirstDeleted(r)]
  <2>1. /\ UNCHANGED <<blobs, hollow, ordered>> /\ Bodiless(s) = {m}
        /\ folder' = [n \in Mails |-> IF n \in {m} /\ n \in Rows THEN "gone" ELSE folder[n]]
    BY <1>6 DEF ExpungeRow, DeleteRows, At, Bodiless, wishVars, ledgerVars
  <2>. HIDE DEF m
  <2>2. Rows' \subseteq Rows \ {m}
    BY <2>1, MailboxAssumption DEF Rows
  <2>. QED
    BY <2>1, <2>2, BodyFrom
<1>7. CASE CopyRow(s)
  <2>1. CASE Min(r.todo) \in Rows /\ Fresh # {}
    <3>1. /\ q.pc = "copyblob" /\ q.new = Min(Fresh) /\ folder' = [folder EXCEPT ![Min(Fresh)] = r.arg]
          /\ UNCHANGED <<blobs, hollow, ordered>> /\ Whole(r)
      BY <1>0, <1>7, <2>1 DEF CopyRow, InsertRow, At, Whole, ledgerVars, ImapConnected
    <3>2. Rows' \subseteq Rows \cup {q.new} /\ Bodiless(s)' = {q.new} /\ Bodiless(s) = {}
      BY <1>0, <3>1 DEF Rows, Bodiless, At, Whole
    <3>. QED
      BY <3>1, <3>2, BodyFrom
  <2>2. CASE ~(Min(r.todo) \in Rows /\ Fresh # {})
    <3>1. UNCHANGED <<folder, blobs, hollow, ordered>> /\ Whole(r)
      BY <1>7, <2>2 DEF CopyRow, At, Whole, rowVars, ledgerVars
    <3>. QED
      BY <3>1, SameRows, BodyQuiet
  <2>. QED
    BY <2>1, <2>2
<1>8. CASE CopyBlob(s)
  <2>1. /\ Bodiless(s) = {r.new} /\ Rows' = Rows /\ ordered' = ordered
        /\ \/ blobs' = blobs \cup {r.new} /\ hollow' = hollow
           \/ blobs' = blobs /\ hollow' = hollow \cup {r.new}
    BY <1>8, SameRows DEF CopyBlob, At, Bodiless, rowVars, wishVars
  <2>. QED
    BY <2>1, BodyFrom
<1>9. CASE AppendRow(s)
  <2>1. PICK new \in Fresh :
           /\ InsertRow(new, r.arg, r.octets, FALSE)
           /\ imap' = [imap EXCEPT ![s].pc = "appendgeneration", ![s].new = new,
                                   ![s].arg = "none", ![s].octets = 0]
    BY <1>9 DEF AppendRow
  <2>2. /\ q.pc = "appendgeneration" /\ q.new = new /\ folder' = [folder EXCEPT ![new] = r.arg]
        /\ UNCHANGED <<blobs, hollow, ordered>> /\ Whole(r)
    BY <1>0, <1>9, <2>1 DEF AppendRow, InsertRow, At, Whole, wishVars, ledgerVars, ImapConnected
  <2>3. Rows' \subseteq Rows \cup {new} /\ Bodiless(s)' = {new} /\ Bodiless(s) = {}
    BY <1>0, <2>2 DEF Rows, Bodiless, At, Whole
  <2>. QED
    BY <2>2, <2>3, BodyFrom
<1>10. CASE AppendGeneration(s)
  <2>1. /\ q.pc = "appendblob" /\ q.new = r.new /\ r.pc = "appendgeneration"
        /\ UNCHANGED <<folder, blobs, hollow, ordered>>
    BY <1>0, <1>10 DEF AppendGeneration, At, rowVars, wishVars, ledgerVars, ImapConnected
  <2>2. Bodiless(s)' = Bodiless(s)
    BY <2>1 DEF Bodiless, At
  <2>. QED
    BY <2>1, <2>2, SameRows, BodyFrom
<1>11. CASE AppendBlob(s)
  <2>1. /\ Bodiless(s) = {r.new} /\ blobs' = blobs \cup {r.new} /\ UNCHANGED <<folder, hollow, ordered>>
    BY <1>11 DEF AppendBlob, At, Bodiless, rowVars, wishVars, ledgerVars
  <2>. QED
    BY <2>1, SameRows, BodyFrom
<1>12. CASE ImapKilled(s)
  <2>1. hollow' = hollow \cup Bodiless(s) /\ UNCHANGED <<folder, blobs, ordered>>
    BY <1>12 DEF ImapKilled, rowVars, wishVars
  <2>. QED
    BY <2>1, SameRows, BodyFrom
<1>. QED
  BY <1>1, <1>2, <1>3, <1>4, <1>5, <1>6, <1>7, <1>8, <1>9, <1>10, <1>11, <1>12 DEF ImapStep

\* What a step of anybody else has to show.
LEMMA BodyOthers ==
    ASSUME BodyInv, UNCHANGED imapVars, hollow \subseteq hollow', ordered \subseteq ordered',
           \A m \in (Rows \ blobs)' : m \in (Rows \ blobs) \/ m \in (hollow \cup ordered)'
    PROVE  BodyInv'
<1>1. ASSUME NEW t \in ImapSessions PROVE Bodiless(t)' = Bodiless(t)
  BY DEF imapVars, Bodiless, At
<1>. QED
  BY <1>1 DEF BodyInv

\* QUIT deletes the bodies of messages it was ordered to delete.
LEMMA PopKeepsBodies ==
    ASSUME Shapes, WantInv, BodyInv, NEW p \in PopSessions, PopStep(p), UNCHANGED imapVars
    PROVE  BodyInv'
<1>1. CASE QuitBlob(p)
  <2>1. PICK n \in pop[p].dele : blobs' = blobs \ {pop[p].msgs[n]}
    BY <1>1 DEF QuitBlob
  <2>2. pop[p].msgs[n] \in ordered /\ UNCHANGED <<folder, hollow, ordered>>
    BY <1>1, <2>1 DEF QuitBlob, WantInv, OrdersOK, rowVars, wishVars, ledgerVars
  <2>. QED
    BY <2>1, <2>2, SameRows, BodyOthers
<1>2. CASE QuitRow(p)
  <2>1. /\ UNCHANGED <<blobs, hollow, ordered>>
        /\ folder' = [n \in Mails |-> IF n \in {pop[p].msgs[pop[p].pos]} /\ n \in Rows THEN "gone" ELSE folder[n]]
    BY <1>2 DEF QuitRow, DeleteRows, wishVars, ledgerVars
  <2>2. Rows' \subseteq Rows
    BY <2>1, MailboxAssumption DEF Rows
  <2>. QED
    BY <2>1, <2>2, BodyOthers
<1>3. CASE ~QuitBlob(p) /\ ~QuitRow(p)
  <2>1. /\ UNCHANGED <<folder, blobs>> /\ hollow \subseteq hollow' /\ ordered \subseteq ordered'
    BY <1>3 DEF PopStep, User, Redirect, PassOk, PassFails, Dele, Rset, Quit, QuitRefund, QuitGeneration,
       PopDisconnect, PopKilled, mailboxVars, rowVars, wishVars, ledgerVars
  <2>. QED
    BY <2>1, SameRows, BodyOthers
<1>. QED
  BY <1>1, <1>2, <1>3

\* A delivered message comes with its body.
LEMMA OutsideKeepsBodies ==
    ASSUME Shapes, BodyInv, Outside, UNCHANGED <<pop, imapVars>>
    PROVE  BodyInv'
<1>1. CASE Delivered
  <2>1. PICK m \in Fresh : folder' = [folder EXCEPT ![m] = Inbox] /\ blobs' = blobs \cup {m}
    BY <1>1 DEF Delivered, InsertRow
  <2>2. Rows' \subseteq Rows \cup {m} /\ UNCHANGED <<hollow, ordered>>
    BY <1>1, <2>1 DEF Rows, Shapes, Delivered, wishVars, ledgerVars
  <2>. QED
    BY <2>1, <2>2, BodyOthers
<1>2. CASE Moved
  <2>1. PICK m \in Rows, f \in Folders : folder' = [folder EXCEPT ![m] = f]
    BY <1>2 DEF Moved
  <2>2. Rows' \subseteq Rows /\ UNCHANGED <<blobs, hollow, ordered>>
    BY <1>2, <2>1 DEF Rows, Shapes, Moved, wishVars, ledgerVars
  <2>. QED
    BY <2>2, BodyOthers
<1>. QED
  BY <1>1, <1>2 DEF Outside

\* BodyInv is inductive, with WantInv for what QUIT deletes.
LEMMA BodyStep ==
    ASSUME Shapes, WantInv, BodyInv, [Next]_vars
    PROVE  BodyInv'
<1>1. CASE Outside /\ UNCHANGED <<pop, imapVars>>
  BY <1>1, OutsideKeepsBodies
<1>2. ASSUME NEW p \in PopSessions, PopStep(p), UNCHANGED imapVars PROVE BodyInv'
  BY <1>2, PopKeepsBodies
<1>3. ASSUME NEW s \in ImapSessions, ImapStep(s), UNCHANGED pop PROVE BodyInv'
  BY <1>3, ImapAlone, ImapKeepsBodies
<1>4. CASE UNCHANGED vars
  BY <1>4, SameRows, BodyOthers DEF vars, mailboxVars, rowVars, wishVars, ledgerVars
<1>. QED
  BY <1>1, <1>2, <1>3, <1>4 DEF Next

\* A row keeps its body unless its deletion was wanted or ordered, a session is just
\* storing or deleting it, or was killed while it did.
THEOREM MailBodyKept == Spec => []BodyKept
<1>1. Init => BodyInv
  BY DEF Init, MailboxInit, BodyInv
<1>2. Shapes /\ WantInv /\ BodyInv /\ [Next]_vars => (Shapes /\ WantInv /\ BodyInv)'
  BY WishesStep, BodyStep
<1>3. BodyInv => BodyKept
  BY DEF BodyInv, BodyKept
<1>. QED
  BY <1>1, <1>2, <1>3, WishesStart, PTL DEF Spec

-----------------------------------------------------------------------------
(***************************************************************************)
(* A session that has the generation has the list.                         *)
(***************************************************************************)

\* The list of r is the folder's as of generation g, or a change is still to come.
UpToDate(r, g) == g < gen \/ silent \/ Changing \/ r.list = Visible(r.sel, r.limit)

\* What a session knows, and where it may have changed rows unannounced.
CurrentOK(r) ==
    /\ r.gen \in Nat /\ r.read \in Nat /\ r.gen <= gen /\ r.read <= gen
    /\ r.pc = "login" => r.sel = "none"
    /\ r.pc = "opened" => r.then = "opened"
    /\ r.then \notin {"login", "row"}
    /\ r.then = "opened" => r.pc \in {"writeback", "opened"}
    /\ r.pc = "row" => r.then \in Expunging
    /\ r.dirty => r.pc \in Expunging \cup {"row"}
    /\ r.sel # "none" /\ ~r.raced => UpToDate(r, r.gen)
    /\ r.then = "opened" => UpToDate(r, r.read)

\* All sessions; a POP3 session that has deleted rows is still in QUIT.
CurrentInv ==
    /\ gen \in Nat
    /\ \A s \in ImapSessions : CurrentOK(imap[s])
    /\ \A p \in PopSessions : pop[p].freed # {} => pop[p].state \in {"quit", "row"}

\* No message changes its folder.
SameFolders == \A m \in Mails : folder'[m] = folder[m]

\* A step announces the rows it changes, will do so, or changes none and takes
\* no announcement back.
Announced ==
    \/ gen' = gen + 1
    \/ gen' = gen /\ Changing'
    \/ gen' = gen /\ SameFolders /\ (silent \/ Changing => silent' \/ Changing')

\* Visible() depends on the rows' folders only.
LEMMA SameVisible ==
    ASSUME SameFolders, NEW f, NEW limit
    PROVE  Visible(f, limit)' = Visible(f, limit)
<1>. DEFINE cut(S) ==
                LET all == InOrder(S) IN
                IF limit # 0 /\ Len(all) > limit
                THEN SubSeq(all, Len(all) - limit + 2, Len(all))
                ELSE all
<1>1. Visible(f, limit) = cut(RowsIn(f)) /\ Visible(f, limit)' = cut(RowsIn(f))'
  BY DEF Visible
<1>. HIDE DEF cut
<1>2. cut(RowsIn(f))' = cut(RowsIn(f)')
  OBVIOUS
<1>3. RowsIn(f)' = RowsIn(f)
  BY DEF RowsIn, SameFolders
<1>. QED
  BY <1>1, <1>2, <1>3

\* A list that was up to date as of a generation stays so: what changes it is announced.
LEMMA StaysUpToDate ==
    ASSUME gen \in Nat, Announced, NEW r, NEW g \in Nat, g <= gen, UpToDate(r, g)
    PROVE  UpToDate(r, g)'
<1>1. CASE gen' = gen + 1
  BY <1>1 DEF UpToDate
<1>2. CASE gen' = gen /\ Changing'
  BY <1>2 DEF UpToDate
<1>3. CASE gen' = gen /\ SameFolders /\ (silent \/ Changing => silent' \/ Changing')
  <2>1. Visible(r.sel, r.limit)' = Visible(r.sel, r.limit)
    BY <1>3, SameVisible
  <2>. QED
    BY <1>3, <2>1 DEF UpToDate
<1>. QED
  BY <1>1, <1>2, <1>3 DEF Announced

\* So does what a session knows that takes no step.
LEMMA StaysCurrent ==
    ASSUME gen \in Nat, Announced, NEW r, CurrentOK(r)
    PROVE  CurrentOK(r)'
<1>1. gen \in Nat /\ gen' \in Nat /\ gen <= gen'
  BY DEF Announced
<1>2. r.gen \in Nat /\ r.read \in Nat /\ r.gen <= gen /\ r.read <= gen
  BY DEF CurrentOK
<1>3. r.sel # "none" /\ ~r.raced => UpToDate(r, r.gen)'
  BY <1>2, StaysUpToDate DEF CurrentOK
<1>4. r.then = "opened" => UpToDate(r, r.read)'
  BY <1>2, StaysUpToDate DEF CurrentOK
<1>. QED
  BY <1>1, <1>2, <1>3, <1>4 DEF CurrentOK

\* What one IMAP session has to show.
LEMMA CurrentFrom ==
    ASSUME Shapes, CurrentInv, NEW s \in ImapSessions, OnlyImap(s), UNCHANGED pop, Announced,
           CurrentOK(imap[s])'
    PROVE  CurrentInv'
<1>1. ASSUME NEW t \in ImapSessions PROVE CurrentOK(imap[t])'
  <2>1. CASE t = s
    BY <2>1
  <2>2. CASE t # s
    <3>1. gen \in Nat /\ CurrentOK(imap[t]) /\ imap'[t] = imap[t]
      BY <2>2 DEF CurrentInv, OnlyImap
    <3>. QED
      BY <3>1, StaysCurrent DEF CurrentOK, UpToDate
  <2>. QED
    BY <2>1, <2>2
<1>. QED
  BY <1>1 DEF CurrentInv, Announced

\* A step that announces nothing and takes nothing back.
LEMMA QuietStep ==
    ASSUME NEW s \in ImapSessions, OnlyImap(s), UNCHANGED <<pop, folder, gen>>, silent => silent',
           ImapUnannounced(s) => silent' \/ ImapUnannounced(s)'
    PROVE  Announced
<1>1. ASSUME NEW t \in ImapSessions \ {s} PROVE ImapUnannounced(t)' = ImapUnannounced(t)
  BY DEF OnlyImap, ImapUnannounced
<1>2. ASSUME NEW p \in PopSessions PROVE PopUnannounced(p)' = PopUnannounced(p)
  BY DEF PopUnannounced
<1>. QED
  BY <1>1, <1>2 DEF Announced, Changing, SameFolders

\* A step of a session that leaves its list as it is.
LEMMA SameList ==
    ASSUME CurrentInv, Announced, NEW r, CurrentOK(r), NEW q, q.read \in {r.read, 0, gen},
           q.sel = r.sel, q.list = r.list, q.limit = r.limit, q.gen = r.gen, q.raced = r.raced,
           q.pc \notin {"login", "opened"}, q.then \notin {"opened", "login", "row"},
           q.pc = "row" => q.then \in Expunging, q.dirty => q.pc \in Expunging \cup {"row"}
    PROVE  CurrentOK(q)'
<1>1. gen \in Nat /\ gen' \in Nat /\ gen <= gen'
  BY DEF Announced, CurrentInv
<1>2. r.gen \in Nat /\ r.read \in Nat /\ r.gen <= gen /\ r.read <= gen
  BY DEF CurrentOK
<1>3. r.sel # "none" /\ ~r.raced => UpToDate(r, r.gen)'
  BY <1>1, <1>2, StaysUpToDate DEF CurrentOK
<1>4. q.sel # "none" /\ ~q.raced => UpToDate(q, q.gen)'
  BY <1>3 DEF UpToDate
<1>. QED
  BY <1>1, <1>2, <1>4 DEF CurrentOK

\* A session that has nothing selected.
LEMMA NoList ==
    ASSUME CurrentInv, Announced, NEW q, q.sel = "none", q.gen \in Nat, q.gen <= gen,
           q.read \in Nat, q.read <= gen,
           q.pc # "opened", q.then \notin {"opened", "login", "row"}, q.pc # "row", ~q.dirty
    PROVE  CurrentOK(q)'
BY DEF CurrentOK, CurrentInv, Announced

\* A list that has just been read.
LEMMA FreshList ==
    ASSUME CurrentInv, Announced, UNCHANGED folder, NEW q, q.list = Visible(q.sel, q.limit),
           q.gen \in Nat, q.gen <= gen, q.read \in Nat, q.read <= gen,
           q.pc = "writeback", q.then \notin {"login", "row"}, ~q.dirty
    PROVE  CurrentOK(q)'
<1>1. q.list = Visible(q.sel, q.limit)'
  BY SameVisible DEF SameFolders
<1>. QED
  BY <1>1 DEF CurrentOK, UpToDate, CurrentInv, Announced

\* The list FetchMessages reads.
LEMMA RefetchList ==
    ASSUME NEW r, DOMAIN r = DOMAIN ImapConnected, NEW f
    PROVE  LET q == Refetch(r, f) IN
           /\ DOMAIN q = DOMAIN ImapConnected /\ q.pc = "writeback" /\ q.list = Visible(f, r.limit)
           /\ q.sel = r.sel /\ q.limit = r.limit /\ q.gen = r.gen /\ q.read = r.read
           /\ q.then = r.then /\ q.dirty = r.dirty
BY DEF Refetch, ImapConnected

\* After the messages are read and written back.
LEMMA GoesOnCurrent ==
    ASSUME NEW r, DOMAIN r = DOMAIN ImapConnected, r.pc = "writeback", CurrentOK(r)', gen' \in Nat
    PROVE  CurrentOK(GoesOn(r, r.then))'
<1>1. CASE r.then \in {"ready", "idle"}
  <2>. DEFINE q == Waiting(r, r.then)
  <2>1. /\ q.sel = r.sel /\ q.list = r.list /\ q.limit = r.limit /\ q.gen = r.gen /\ q.raced = r.raced
        /\ q.read = 0 /\ q.pc = r.then /\ q.then = "ready" /\ q.dirty = r.dirty
    BY DEF Waiting, ImapConnected
  <2>. HIDE DEF q
  <2>2. CurrentOK(q)'
    BY <1>1, <2>1 DEF CurrentOK, UpToDate, Expunging
  <2>. QED
    BY <1>1, <2>2 DEF GoesOn, q
<1>2. CASE r.then \notin {"ready", "idle"}
  <2>. DEFINE q == [r EXCEPT !.pc = r.then]
  <2>1. /\ q.sel = r.sel /\ q.list = r.list /\ q.limit = r.limit /\ q.gen = r.gen /\ q.raced = r.raced
        /\ q.read = r.read /\ q.pc = r.then /\ q.then = r.then /\ q.dirty = r.dirty
    BY DEF ImapConnected
  <2>. HIDE DEF q
  <2>2. CurrentOK(q)'
    BY <1>2, <2>1 DEF CurrentOK, UpToDate, Expunging
  <2>. QED
    BY <1>2, <2>2 DEF GoesOn, q
<1>. QED
  BY <1>1, <1>2

\* The same when nothing is to be written back.
LEMMA SkipCurrent ==
    ASSUME NEW r, DOMAIN r = DOMAIN ImapConnected, r.pc = "writeback", CurrentOK(r)', gen' \in Nat
    PROVE  CurrentOK(Skip(r))'
BY GoesOnCurrent DEF Skip

\* Steps that change nothing but what the session knows.
LEMMA ListsKeepCurrent ==
    ASSUME Shapes, CurrentInv, NEW s \in ImapSessions, OnlyImap(s), UNCHANGED <<pop, mailboxVars>>,
           \/ Begin(s) \/ Login(s) \/ Refused(s) \/ Idle(s) \/ Poll(s) \/ Refresh(s)
           \/ Select(s) \/ Open(s) \/ Opened(s) \/ Status(s) \/ Reread(s)
           \/ Copy(s) \/ CopyCheck(s) \/ AppendCommand(s) \/ Rename(s) \/ Logout(s) \/ ImapDisconnect(s)
    PROVE  CurrentInv'
<1>. DEFINE r == imap[s]
<1>. PICK q : q = imap'[s]
  OBVIOUS
<1>0. /\ DOMAIN r = DOMAIN ImapConnected /\ DOMAIN imap = ImapSessions /\ CurrentOK(r) /\ gen \in Nat
      /\ r.then \notin {"login", "row"} /\ r.gen \in Nat /\ r.read \in Nat /\ r.gen <= gen /\ r.read <= gen
  BY DEF Shapes, CurrentInv, CurrentOK
<1>1. r.pc \in {"ready", "idle", "login", "refresh", "select", "examine", "open", "opened", "status", "reread",
                "append", "copy", "copying", "delete", "rename"}
  BY DEF Begin, Login, Refused, Idle, Poll, Refresh, Select, Open, Opened, Status, Reread, Copy, CopyCheck,
     AppendCommand, Rename, Logout, ImapDisconnect, At
<1>2. ~r.dirty /\ ~ImapUnannounced(s)
  BY <1>0, <1>1 DEF CurrentOK, Expunging, ImapUnannounced
<1>3. Announced
  BY <1>2, QuietStep DEF mailboxVars, rowVars, ledgerVars
<1>4. UNCHANGED <<folder, gen>>
  BY DEF mailboxVars, rowVars
<1>5. SUFFICES CurrentOK(q)'
  BY <1>3, CurrentFrom DEF CurrentOK, UpToDate
<1>6. CASE Begin(s)
  <2>. DEFINE current == r.sel = "none" \/ r.gen = gen
  <2>0. PICK c \in Refreshing : q = [r EXCEPT !.pc = IF current THEN c ELSE "refresh", !.then = c,
                                              !.read = gen, !.dirs = Folders \ removed]
    BY <1>0, <1>6 DEF Begin
  <2>. HIDE DEF current
  <2>1. PICK pc \in Refreshing \cup {"refresh"} :
           q = [r EXCEPT !.pc = pc, !.then = c, !.read = gen, !.dirs = Folders \ removed]
    BY <2>0
  <2>2. /\ q.sel = r.sel /\ q.list = r.list /\ q.limit = r.limit /\ q.gen = r.gen /\ q.raced = r.raced
        /\ q.read = gen /\ q.pc = pc /\ q.then = c /\ ~q.dirty
    BY <1>0, <1>2, <2>1 DEF ImapConnected
  <2>. QED
    BY <1>0, <1>3, <2>2, SameList DEF Refreshing
<1>7. CASE Login(s)
  <2>1. PICK n : q = [r EXCEPT !.pc = "ready", !.limit = n]
    BY <1>0, <1>7 DEF Login
  <2>2. r.sel = "none" /\ r.then # "opened"
    BY <1>0, <1>7 DEF Login, At, CurrentOK
  <2>3. q.sel = "none" /\ q.gen = r.gen /\ q.read = r.read /\ q.pc = "ready" /\ q.then = r.then /\ ~q.dirty
    BY <1>0, <1>2, <2>1, <2>2 DEF ImapConnected
  <2>. QED
    BY <1>0, <1>3, <2>2, <2>3, NoList
<1>8. CASE \/ Refused(s) \/ Idle(s) \/ Poll(s) \/ Select(s) \/ Copy(s) \/ Rename(s)
  <2>1. r.then # "opened"
    BY <1>0, <1>8 DEF CurrentOK, Refused, Idle, Poll, Select, Copy, Rename, At
  <2>2. /\ q.sel = r.sel /\ q.list = r.list /\ q.limit = r.limit /\ q.gen = r.gen /\ q.raced = r.raced
        /\ q.read \in {r.read, gen, 0} /\ ~q.dirty
        /\ q.pc \in {"ready", "idle", "refresh", "reselect", "open", "copying", "announce"}
        /\ q.then \in {r.then, "ready", "idle"}
    <3>1. CASE Refused(s)
      BY <1>0, <1>2, <3>1 DEF Refused, Ready, Waiting, ImapConnected
    <3>2. CASE Idle(s) \/ Poll(s)
      BY <1>0, <1>2, <3>2 DEF Idle, Poll, ImapConnected
    <3>3. CASE Select(s)
      <4>1. PICK f \in r.dirs :
               imap' = [imap EXCEPT ![s].arg = f, ![s].ro = IF At(s, "examine") THEN "yes" ELSE "no",
                                    ![s].pc  = IF AutoExpunge /\ imap[s].sel # "none"
                                               THEN "reselect" ELSE "open"]
        BY <3>3 DEF Select
      <4>. QED
        BY <1>0, <1>2, <4>1 DEF ImapConnected
    <3>4. CASE Copy(s)
      <4>1. PICK f, S : imap' = [imap EXCEPT ![s].pc = "copying", ![s].arg = f, ![s].todo = S]
        BY <3>4 DEF Copy
      <4>. QED
        BY <1>0, <1>2, <4>1 DEF ImapConnected
    <3>5. CASE Rename(s)
      BY <1>0, <1>2, <3>5 DEF Rename, ImapConnected
    <3>. QED
      BY <1>8, <3>1, <3>2, <3>3, <3>4, <3>5
  <2>. QED
    BY <1>0, <1>3, <2>1, <2>2, SameList
<1>9. CASE CopyCheck(s) \/ AppendCommand(s)
  <2>1. r.then # "opened"
    BY <1>0, <1>9 DEF CurrentOK, CopyCheck, AppendCommand, At
  <2>2. \/ q = Waiting(r, "ready")
        \/ \E todo : q = [r EXCEPT !.todo = todo] /\ r.pc = "copying"
        \/ q = [r EXCEPT !.pc = "copyrow"]
        \/ \E f, n : q = [r EXCEPT !.pc = "appendrow", !.arg = f, !.octets = n]
    <3>1. CASE CopyCheck(s)
      BY <1>0, <3>1 DEF CopyCheck, At, Ready
    <3>2. CASE AppendCommand(s)
      <4>1. PICK f \in r.dirs, n \in Sizes :
               imap' = IF used + n > SizeLimit \/ Fresh = {}
                       THEN [imap EXCEPT ![s] = Ready(@)]
                       ELSE [imap EXCEPT ![s].pc = "appendrow", ![s].arg = f, ![s].octets = n]
        BY <3>2 DEF AppendCommand
      <4>. QED
        BY <1>0, <4>1 DEF Ready
    <3>. QED
      BY <1>9, <3>1, <3>2
  <2>3. /\ q.sel = r.sel /\ q.list = r.list /\ q.limit = r.limit /\ q.gen = r.gen /\ q.raced = r.raced
        /\ q.read \in {r.read, 0} /\ ~q.dirty /\ q.pc \in {"ready", "copying", "copyrow", "appendrow"}
        /\ q.then \in {r.then, "ready"}
    <3>1. CASE q = Waiting(r, "ready")
      BY <1>0, <1>2, <3>1 DEF Waiting, ImapConnected
    <3>2. CASE \E todo : q = [r EXCEPT !.todo = todo] /\ r.pc = "copying"
      BY <1>0, <1>2, <3>2 DEF ImapConnected
    <3>4. CASE q = [r EXCEPT !.pc = "copyrow"]
      BY <1>0, <1>2, <3>4 DEF ImapConnected
    <3>3. CASE \E f, n : q = [r EXCEPT !.pc = "appendrow", !.arg = f, !.octets = n]
      BY <1>0, <1>2, <3>3 DEF ImapConnected
    <3>. QED
      BY <2>2, <3>1, <3>2, <3>3, <3>4
  <2>. QED
    BY <1>0, <1>3, <2>1, <2>3, SameList
<1>10. CASE Refresh(s)
  <2>. DEFINE z == Refetch(r, r.sel)
  <2>1. PICK client : q = Skip([z EXCEPT !.gen = z.read, !.client = client, !.raced = FALSE])
    BY <1>0, <1>10 DEF Refresh
  <2>2. /\ DOMAIN z = DOMAIN ImapConnected /\ z.pc = "writeback" /\ z.list = Visible(r.sel, r.limit)
        /\ z.sel = r.sel /\ z.limit = r.limit /\ z.read = r.read /\ z.then = r.then /\ z.dirty = r.dirty
    BY <1>0, RefetchList
  <2>. DEFINE y == [z EXCEPT !.gen = z.read, !.client = client, !.raced = FALSE]
  <2>. HIDE DEF z
  <2>3. /\ DOMAIN y = DOMAIN ImapConnected /\ y.pc = "writeback" /\ y.list = Visible(y.sel, y.limit)
        /\ y.gen = r.read /\ y.read = r.read /\ y.then = r.then /\ ~y.dirty
    BY <1>2, <2>2 DEF ImapConnected
  <2>4. q = Skip(y)
    BY <2>1
  <2>. HIDE DEF y
  <2>5. PICK x : x = y
    OBVIOUS
  <2>6. CurrentOK(x)'
    BY <1>0, <1>3, <1>4, <2>3, <2>5, FreshList
  <2>. QED
    BY <1>0, <1>4, <2>3, <2>4, <2>5, <2>6, SkipCurrent
<1>11. CASE Open(s)
  <2>. DEFINE w == [r EXCEPT !.sel = r.arg, !.arg = "none", !.read = gen, !.then = "opened"]
              y == Refetch(w, r.arg)
  <2>1. q = Skip(y)
    BY <1>0, <1>11 DEF Open
  <2>2. /\ DOMAIN w = DOMAIN ImapConnected /\ w.sel = r.arg /\ w.read = gen /\ w.then = "opened"
        /\ w.limit = r.limit /\ w.gen = r.gen /\ w.dirty = r.dirty
    BY <1>0 DEF ImapConnected
  <2>. HIDE DEF w
  <2>3. /\ DOMAIN y = DOMAIN ImapConnected /\ y.pc = "writeback" /\ y.list = Visible(y.sel, y.limit)
        /\ y.gen = r.gen /\ y.read = gen /\ y.then = "opened" /\ ~y.dirty
    BY <1>2, <2>2, RefetchList
  <2>. HIDE DEF y
  <2>4. PICK x : x = y
    OBVIOUS
  <2>5. CurrentOK(x)'
    BY <1>0, <1>3, <1>4, <2>3, <2>4, FreshList
  <2>. QED
    BY <1>0, <1>4, <2>1, <2>3, <2>4, <2>5, SkipCurrent
<1>12. CASE Opened(s)
  <2>1. PICK client : q = Waiting([r EXCEPT !.gen = gen, !.client = client, !.untold = FALSE,
                                            !.raced = (r.read # gen)], "ready")
    BY <1>0, <1>12 DEF Opened, Ready
  <2>2. r.then = "opened"
    BY <1>0, <1>12 DEF Opened, At, CurrentOK
  <2>3. /\ q.sel = r.sel /\ q.list = r.list /\ q.limit = r.limit /\ q.gen = gen /\ q.raced = (r.read # gen)
        /\ q.read = 0 /\ q.pc = "ready" /\ q.then = "ready" /\ ~q.dirty
    BY <1>0, <1>2, <2>1 DEF Waiting, ImapConnected
  <2>4. PICK x : x = r
    OBVIOUS
  <2>5. UpToDate(x, x.read)'
    BY <1>0, <1>3, <2>2, <2>4, StaysUpToDate DEF CurrentOK
  <2>6. ~q.raced => UpToDate(q, q.gen)'
    BY <1>4, <2>3, <2>4, <2>5 DEF UpToDate
  <2>. QED
    BY <1>0, <1>4, <2>3, <2>6 DEF CurrentOK
<1>13. CASE Status(s)
  <2>1. PICK back, backDels :
           /\ imap' = [imap EXCEPT ![s] = Skip([imap[s] EXCEPT !.pc = "writeback", !.then = "ready",
                                               !.back = back, !.backDels = backDels])]
           /\ backDels \subseteq flagged
           /\ back = {} => backDels = {}
    BY <1>13, StatusWritesBack
  <2>. DEFINE y == [r EXCEPT !.pc = "writeback", !.then = "ready", !.back = back, !.backDels = backDels]
  <2>2. q = Skip(y)
    BY <1>0, <2>1
  <2>3. /\ DOMAIN y = DOMAIN ImapConnected /\ y.pc = "writeback" /\ y.then = "ready" /\ ~y.dirty
        /\ y.sel = r.sel /\ y.list = r.list /\ y.limit = r.limit /\ y.gen = r.gen /\ y.raced = r.raced
        /\ y.read = r.read
    BY <1>0, <1>2 DEF ImapConnected
  <2>. HIDE DEF y
  <2>4. PICK x : x = y
    OBVIOUS
  <2>5. CurrentOK(x)'
    BY <1>0, <1>3, <2>3, <2>4, SameList
  <2>. QED
    BY <1>0, <1>4, <2>2, <2>3, <2>4, <2>5, SkipCurrent
<1>14. CASE Reread(s)
  <2>. DEFINE w == [r EXCEPT !.then = "ready"]
              z == Refetch(w, r.sel)
  <2>1. PICK untold : q = Skip([z EXCEPT !.untold = untold])
    BY <1>0, <1>14 DEF Reread
  <2>2. /\ DOMAIN w = DOMAIN ImapConnected /\ w.sel = r.sel /\ w.read = r.read /\ w.then = "ready"
        /\ w.limit = r.limit /\ w.gen = r.gen /\ w.dirty = r.dirty
    BY <1>0 DEF ImapConnected
  <2>. HIDE DEF w
  <2>3. /\ DOMAIN z = DOMAIN ImapConnected /\ z.pc = "writeback" /\ z.list = Visible(r.sel, r.limit)
        /\ z.sel = r.sel /\ z.limit = r.limit /\ z.gen = r.gen /\ z.read = r.read
        /\ z.then = "ready" /\ ~z.dirty
    BY <1>2, <2>2, RefetchList
  <2>. DEFINE y == [z EXCEPT !.untold = untold]
  <2>4. q = Skip(y)
    BY <2>1
  <2>. HIDE DEF z
  <2>5. /\ DOMAIN y = DOMAIN ImapConnected /\ y.pc = "writeback" /\ y.list = Visible(y.sel, y.limit)
        /\ y.gen = r.gen /\ y.read = r.read /\ y.then = "ready" /\ ~y.dirty
    BY <2>3 DEF ImapConnected
  <2>. HIDE DEF y
  <2>6. PICK x : x = y
    OBVIOUS
  <2>7. CurrentOK(x)'
    BY <1>0, <1>3, <1>4, <2>5, <2>6, FreshList
  <2>. QED
    BY <1>0, <1>4, <2>4, <2>5, <2>6, <2>7, SkipCurrent
<1>15. CASE Logout(s) \/ ImapDisconnect(s)
  <2>1. r.then # "opened"
    BY <1>0, <1>15 DEF CurrentOK, Logout, ImapDisconnect, At
  <2>2. \/ q = LoggedOut
        \/ q = [r EXCEPT !.pc = "logout"]
    BY <1>0, <1>15 DEF Logout, ImapDisconnect
  <2>3. CASE q = LoggedOut
    <3>1. q.sel = "none" /\ q.gen = 0 /\ q.read = 0 /\ q.pc = "out" /\ q.then = "ready" /\ ~q.dirty
      BY <2>3 DEF LoggedOut, ImapConnected
    <3>. QED
      BY <1>0, <1>3, <3>1, NoList
  <2>4. CASE q = [r EXCEPT !.pc = "logout"]
    <3>1. /\ q.sel = r.sel /\ q.list = r.list /\ q.limit = r.limit /\ q.gen = r.gen /\ q.raced = r.raced
          /\ q.read = r.read /\ ~q.dirty /\ q.pc = "logout" /\ q.then = r.then
      BY <1>0, <1>2, <2>4 DEF ImapConnected
    <3>. QED
      BY <1>0, <1>3, <2>1, <3>1, SameList
  <2>. QED
    BY <2>2, <2>3, <2>4
<1>. QED
  BY <1>6, <1>7, <1>8, <1>9, <1>10, <1>11, <1>12, <1>13, <1>14, <1>15

\* A step that leaves the rows changed and the generation for later.
LEMMA WillAnnounce ==
    ASSUME NEW s \in ImapSessions, gen' = gen, ImapUnannounced(s)'
    PROVE  Announced /\ Changing'
BY DEF Announced, Changing

\* The steps of a command.
LEMMA CommandsKeepCurrent ==
    ASSUME Shapes, CurrentInv, NEW s \in ImapSessions, OnlyImap(s), UNCHANGED pop,
           \/ Store(s) \/ WriteBack(s) \/ Announce(s)
           \/ CopyRow(s) \/ CopyBlob(s) \/ CopyGeneration(s) \/ CopyCharge(s)
           \/ AppendRow(s) \/ AppendGeneration(s) \/ AppendBlob(s) \/ AppendCharge(s) \/ AppendFlags(s)
           \/ Delete(s) \/ DeleteFolderRows(s) \/ DeleteRefund(s) \/ DeleteFolder(s)
    PROVE  CurrentInv'
<1>. DEFINE r == imap[s]
<1>. PICK q : q = imap'[s]
  OBVIOUS
<1>0. /\ DOMAIN r = DOMAIN ImapConnected /\ DOMAIN imap = ImapSessions /\ CurrentOK(r) /\ gen \in Nat
      /\ r.then \notin {"login", "row"} /\ r.gen \in Nat /\ r.read \in Nat /\ r.gen <= gen /\ r.read <= gen
  BY DEF Shapes, CurrentInv, CurrentOK
<1>1. r.pc \in {"ready", "writeback", "announce", "copyrow", "copyblob", "copygeneration", "copycharge",
                "appendrow", "appendgeneration", "appendblob", "appendcharge", "appendflags",
                "delete", "deleterows", "deleterefund", "deletefolder"}
  BY DEF Store, WriteBack, Announce, CopyRow, CopyBlob, CopyGeneration, CopyCharge, AppendRow,
     AppendGeneration, AppendBlob, AppendCharge, AppendFlags, Delete, DeleteFolderRows, DeleteRefund,
     DeleteFolder, At
<1>2. ~r.dirty /\ (r.pc # "writeback" => r.then # "opened")
  BY <1>0, <1>1 DEF CurrentOK, Expunging
<1>3. SUFFICES Announced /\ CurrentOK(q)'
  BY CurrentFrom DEF CurrentOK, UpToDate
<1>4. CASE WriteBack(s)
  <2>. DEFINE y == [r EXCEPT !.back = {}, !.backDels = {}]
  <2>1. q = GoesOn(y, y.then) /\ UNCHANGED <<folder, gen, silent>>
    BY <1>0, <1>4 DEF WriteBack, WriteFlags, ledgerVars, ImapConnected
  <2>2. /\ DOMAIN y = DOMAIN ImapConnected /\ y.pc = "writeback" /\ y.then = r.then /\ y.dirty = r.dirty
        /\ y.sel = r.sel /\ y.list = r.list /\ y.limit = r.limit /\ y.gen = r.gen /\ y.raced = r.raced
        /\ y.read = r.read
    BY <1>0, <1>4 DEF WriteBack, At, ImapConnected
  <2>3. Announced
    <3>1. ~ImapUnannounced(s)
      BY <1>2, <1>4 DEF WriteBack, At, ImapUnannounced
    <3>. QED
      BY <2>1, <3>1, QuietStep
  <2>. HIDE DEF y
  <2>4. PICK x : x = y
    OBVIOUS
  <2>5. CurrentOK(x)
    BY <1>0, <1>2, <2>2, <2>4 DEF CurrentOK, UpToDate, Expunging
  <2>6. CurrentOK(x)'
    BY <1>0, <2>3, <2>5, StaysCurrent
  <2>. QED
    BY <1>0, <2>1, <2>2, <2>3, <2>4, <2>6, GoesOnCurrent
<1>5. SUFFICES ASSUME ~WriteBack(s)
               PROVE  /\ Announced
                      /\ q.sel = r.sel /\ q.list = r.list /\ q.limit = r.limit /\ q.gen = r.gen
                      /\ q.raced = r.raced /\ q.read \in {r.read, 0}
                      /\ q.pc \notin {"login", "opened", "row"} /\ q.then \notin {"opened", "login", "row"}
                      /\ ~q.dirty
  BY <1>0, <1>4, <1>5, SameList
<1>6. CASE Store(s)
  <2>0. PICK m \in Listing(s), deleted \in BOOLEAN, unseen \in BOOLEAN :
          LET dels == IF deleted THEN imap[s].dels \cup {m} ELSE imap[s].dels \ {m}
              recs == IF unseen THEN imap[s].recs \cup {m} ELSE imap[s].recs \ {m}
          IN /\ imap' = [imap EXCEPT ![s].dels = dels, ![s].recs = recs,
                                     ![s].pc = "announce", ![s].then = "ready"]
             /\ WriteFlags({m}, dels, recs)
             /\ wanted' = IF deleted THEN wanted \cup {m}
                         ELSE IF m \notin Rows \/ WantedElsewhere(s, m) THEN wanted
                         ELSE wanted \ {m}
    BY <1>6 DEF Store
  <2>1. PICK dels, recs : imap' = [imap EXCEPT ![s].dels = dels, ![s].recs = recs,
                                     ![s].pc = "announce", ![s].then = "ready"]
    BY <2>0
  <2>2. gen' = gen /\ q.pc = "announce"
    BY <1>0, <1>6, <2>1 DEF Store, ImapConnected
  <2>3. Announced
    BY <2>2, WillAnnounce DEF ImapUnannounced
  <2>. QED
    BY <1>0, <1>2, <2>1, <2>3 DEF ImapConnected
<1>7. CASE Announce(s)
  <2>1. q = GoesOn(r, r.then) /\ gen' = gen + 1 /\ r.then # "opened"
    BY <1>0, <1>2, <1>7 DEF Announce, IncGeneration, At
  <2>. QED
    BY <1>0, <1>2, <2>1 DEF GoesOn, Waiting, Announced, ImapConnected
<1>8. CASE CopyRow(s)
  <2>1. CASE Min(r.todo) \in Rows /\ Fresh # {}
    <3>1. imap' = [imap EXCEPT ![s].pc = "copyblob", ![s].new = Min(Fresh)] /\ gen' = gen /\ r.pc = "copyrow"
      BY <1>8, <2>1 DEF CopyRow, At
    <3>2. /\ q.pc = "copyblob"
          /\ q.sel = r.sel /\ q.list = r.list /\ q.limit = r.limit /\ q.gen = r.gen
          /\ q.raced = r.raced /\ q.read = r.read /\ q.then = r.then /\ q.dirty = r.dirty
      BY <1>0, <3>1 DEF ImapConnected
    <3>3. Announced
      BY <3>1, <3>2, WillAnnounce DEF ImapUnannounced
    <3>. QED
      BY <1>0, <1>2, <3>1, <3>2, <3>3
  <2>2. CASE ~(Min(r.todo) \in Rows /\ Fresh # {})
    <3>1. /\ imap' = [imap EXCEPT ![s].pc = "copying", ![s].todo = @ \ {Min(r.todo)}]
          /\ UNCHANGED <<folder, gen, silent>> /\ r.pc = "copyrow"
      BY <1>8, <2>2 DEF CopyRow, At, rowVars, ledgerVars
    <3>2. /\ q.pc = "copying"
          /\ q.sel = r.sel /\ q.list = r.list /\ q.limit = r.limit /\ q.gen = r.gen
          /\ q.raced = r.raced /\ q.read = r.read /\ q.then = r.then /\ q.dirty = r.dirty
      BY <1>0, <3>1 DEF ImapConnected
    <3>3. Announced
      BY <1>2, <3>1, QuietStep DEF ImapUnannounced
    <3>. QED
      BY <1>0, <1>2, <3>1, <3>2, <3>3
  <2>. QED
    BY <2>1, <2>2
<1>9. CASE \/ CopyBlob(s) \/ AppendRow(s) \/ AppendFlags(s)
           \/ DeleteFolderRows(s) \/ DeleteRefund(s) \/ DeleteFolder(s)
  <2>1. /\ q.pc \in {"copygeneration", "appendgeneration", "announce", "deleterefund", "deletefolder"}
        /\ q.sel = r.sel /\ q.list = r.list /\ q.limit = r.limit /\ q.gen = r.gen
        /\ q.raced = r.raced /\ q.read = r.read /\ q.then \in {r.then, "ready", "reread"} /\ q.dirty = r.dirty
    <3>1. CASE CopyBlob(s) \/ AppendFlags(s)
      BY <1>0, <3>1 DEF CopyBlob, AppendFlags, ImapConnected
    <3>2. CASE AppendRow(s)
      <4>1. PICK new : imap' = [imap EXCEPT ![s].pc = "appendgeneration", ![s].new = new,
                                            ![s].arg = "none", ![s].octets = 0]
        BY <3>2 DEF AppendRow
      <4>. QED
        BY <1>0, <4>1 DEF ImapConnected
    <3>3. CASE DeleteFolderRows(s) \/ DeleteRefund(s) \/ DeleteFolder(s)
      BY <1>0, <3>3 DEF DeleteFolderRows, DeleteRefund, DeleteFolder, ImapConnected
    <3>. QED
      BY <1>9, <3>1, <3>2, <3>3
  <2>2. gen' = gen /\ r.then # "opened"
    BY <1>2, <1>9 DEF CopyBlob, AppendRow, AppendFlags, DeleteFolderRows, DeleteRefund, DeleteFolder, At
  <2>3. Announced
    BY <2>1, <2>2, WillAnnounce DEF ImapUnannounced
  <2>. QED
    BY <1>0, <1>2, <2>1, <2>2, <2>3
<1>10. CASE CopyGeneration(s) \/ AppendGeneration(s)
  <2>1. /\ q.pc \in {"copycharge", "appendblob"}
        /\ q.sel = r.sel /\ q.list = r.list /\ q.limit = r.limit /\ q.gen = r.gen
        /\ q.raced = r.raced /\ q.read = r.read /\ q.then = r.then /\ q.dirty = r.dirty
    BY <1>0, <1>10 DEF CopyGeneration, AppendGeneration, ImapConnected
  <2>2. gen' = gen + 1 /\ r.then # "opened"
    BY <1>2, <1>10 DEF CopyGeneration, AppendGeneration, IncGeneration, At
  <2>. QED
    BY <1>0, <1>2, <2>1, <2>2 DEF Announced
<1>11. CASE CopyCharge(s) \/ AppendBlob(s) \/ AppendCharge(s)
  <2>1. /\ q.pc \in {"copying", "appendcharge", "appendflags"}
        /\ q.sel = r.sel /\ q.list = r.list /\ q.limit = r.limit /\ q.gen = r.gen
        /\ q.raced = r.raced /\ q.read = r.read /\ q.then = r.then /\ q.dirty = r.dirty
    BY <1>0, <1>11 DEF CopyCharge, AppendBlob, AppendCharge, ImapConnected
  <2>2. /\ UNCHANGED <<folder, gen, silent>> /\ r.then # "opened"
        /\ r.pc \in {"copycharge", "appendblob", "appendcharge"}
    BY <1>2, <1>11 DEF CopyCharge, AppendBlob, AppendCharge, At, rowVars, ledgerVars
  <2>3. Announced
    BY <1>2, <2>2, QuietStep DEF ImapUnannounced
  <2>. QED
    BY <1>0, <1>2, <2>1, <2>2, <2>3
<1>12. CASE Delete(s)
  <2>1. PICK f, S : imap' = [imap EXCEPT ![s].pc = "deleterows", ![s].arg = f, ![s].todo = S]
    BY <1>12 DEF Delete
  <2>2. /\ UNCHANGED <<folder, gen, silent>> /\ r.pc = "delete"
    BY <1>12 DEF Delete, At, rowVars, ledgerVars
  <2>3. Announced
    BY <1>2, <2>2, QuietStep DEF ImapUnannounced
  <2>. QED
    BY <1>0, <1>2, <2>1, <2>2, <2>3 DEF ImapConnected
<1>. QED
  BY <1>5, <1>6, <1>7, <1>8, <1>9, <1>10, <1>11, <1>12

\* EXPUNGE and what else expunges, and the end of a killed session.
LEMMA ExpungesKeepCurrent ==
    ASSUME Shapes, CurrentInv, NEW s \in ImapSessions, OnlyImap(s), UNCHANGED pop,
           ExpungeBlob(s) \/ ExpungeRow(s) \/ ExpungeGeneration(s) \/ ExpungeDone(s) \/ ImapKilled(s)
    PROVE  CurrentInv'
<1>. DEFINE r == imap[s]
<1>. PICK q : q = imap'[s]
  OBVIOUS
<1>0. /\ DOMAIN r = DOMAIN ImapConnected /\ DOMAIN imap = ImapSessions /\ CurrentOK(r) /\ gen \in Nat
      /\ r.then \notin {"login", "row"} /\ r.gen \in Nat /\ r.read \in Nat /\ r.gen <= gen /\ r.read <= gen
  BY DEF Shapes, CurrentInv, CurrentOK
<1>1. SUFFICES Announced /\ CurrentOK(q)'
  BY CurrentFrom DEF CurrentOK, UpToDate
<1>2. CASE ExpungeBlob(s)
  <2>1. /\ q.pc = "row" /\ q.then = r.pc /\ r.pc \in Expunging
        /\ q.sel = r.sel /\ q.list = r.list /\ q.limit = r.limit /\ q.gen = r.gen
        /\ q.raced = r.raced /\ q.read = r.read /\ q.dirty = r.dirty
    BY <1>0, <1>2 DEF ExpungeBlob, ImapConnected
  <2>2. UNCHANGED <<folder, gen, silent>>
    BY <1>2 DEF ExpungeBlob, rowVars, ledgerVars
  <2>3. ImapUnannounced(s) => ImapUnannounced(s)'
    BY <2>1 DEF ImapUnannounced, Expunging
  <2>4. Announced
    BY <2>2, <2>3, QuietStep
  <2>. QED
    BY <1>0, <2>1, <2>4, SameList DEF Expunging
<1>3. CASE ExpungeRow(s)
  <2>1. /\ q.pc = r.then /\ q.then = r.then /\ r.pc = "row" /\ q.dirty /\ q.gen = r.gen /\ q.read = r.read
        /\ gen' = gen
    BY <1>3, RowGone DEF ExpungeRow
  <2>2. Announced /\ Changing'
    BY <2>1, WillAnnounce DEF ImapUnannounced
  <2>3. r.then \in Expunging
    BY <1>0, <2>1 DEF CurrentOK
  <2>. QED
    BY <1>0, <2>1, <2>2, <2>3 DEF CurrentOK, UpToDate, Expunging
<1>4. CASE ExpungeGeneration(s)
  <2>1. /\ q.pc = r.pc /\ q.then = r.then /\ r.pc \in Expunging /\ ~q.dirty
        /\ q.sel = r.sel /\ q.list = r.list /\ q.limit = r.limit /\ q.gen = r.gen
        /\ q.raced = r.raced /\ q.read = r.read
    BY <1>0, <1>4 DEF ExpungeGeneration, ImapConnected
  <2>2. Announced
    BY <1>4 DEF ExpungeGeneration, IncGeneration, Announced
  <2>3. r.then # "opened"
    BY <1>0, <2>1 DEF CurrentOK, Expunging
  <2>. QED
    BY <1>0, <2>1, <2>2, <2>3, SameList DEF Expunging
<1>5. CASE ExpungeDone(s)
  <2>1. q = Expunged(r) /\ r.pc \in Expunging /\ ~r.dirty /\ UNCHANGED <<folder, gen, silent>>
    BY <1>0, <1>5, ExpungedRecord DEF ExpungeDone, rowVars, ledgerVars
  <2>2. Announced
    BY <2>1, QuietStep DEF ImapUnannounced, Expunging
  <2>3. r.then # "opened"
    BY <1>0, <2>1 DEF CurrentOK, Expunging
  <2>4. CASE r.pc = "expunge"
    <3>1. /\ q.pc = "ready" /\ q.then = "ready" /\ ~q.dirty
          /\ q.sel = r.sel /\ q.list = r.list /\ q.limit = r.limit /\ q.gen = r.gen
          /\ q.raced = r.raced /\ q.read = 0
      <4>. DEFINE y == [r EXCEPT !.freed = {}]
      <4>1. q = Waiting(y, "ready")
        BY <2>1, <2>4 DEF Expunged, Ready
      <4>2. /\ DOMAIN y = DOMAIN ImapConnected /\ y.sel = r.sel /\ y.list = r.list /\ y.limit = r.limit
            /\ y.gen = r.gen /\ y.raced = r.raced /\ y.dirty = r.dirty
        BY <1>0 DEF ImapConnected
      <4>. HIDE DEF y
      <4>. QED
        BY <2>1, <4>1, <4>2 DEF Waiting, ImapConnected
    <3>. QED
      BY <1>0, <2>2, <3>1, SameList
  <2>5. CASE r.pc # "expunge"
    <3>1. /\ q.sel = "none" /\ q.gen = 0 /\ q.read \in {0, r.read} /\ q.pc \in {"ready", "open", "out"}
          /\ q.then \in {"ready", r.then} /\ ~q.dirty
      <4>. DEFINE y == Deselected([r EXCEPT !.freed = {}])
      <4>0. /\ DOMAIN y = DOMAIN ImapConnected /\ y.sel = "none" /\ y.gen = 0 /\ y.read = r.read
            /\ y.then = r.then /\ y.dirty = r.dirty
        BY <1>0 DEF Deselected, ImapConnected
      <4>1. CASE r.pc = "close"
        <5>1. q = Waiting(y, "ready")
          BY <2>1, <4>1 DEF Expunged, Ready
        <5>. HIDE DEF y
        <5>. QED
          BY <2>1, <4>0, <5>1 DEF Waiting, ImapConnected
      <4>2. CASE r.pc = "reselect"
        <5>1. q = [y EXCEPT !.pc = "open"]
          BY <2>1, <4>2 DEF Expunged
        <5>. HIDE DEF y
        <5>. QED
          BY <2>1, <4>0, <5>1 DEF ImapConnected
      <4>3. CASE r.pc = "logout"
        BY <2>1, <4>3 DEF Expunged, LoggedOut, ImapConnected
      <4>. QED
        BY <2>1, <2>5, <4>1, <4>2, <4>3 DEF Expunging
    <3>. QED
      BY <1>0, <2>2, <2>3, <3>1, NoList
  <2>. QED
    BY <2>4, <2>5, <2>2
<1>6. CASE ImapKilled(s)
  <2>1. q = LoggedOut /\ UNCHANGED <<folder, gen>> /\ (ImapUnannounced(s) => silent') /\ (silent => silent')
    BY <1>0, <1>6 DEF ImapKilled, rowVars
  <2>2. Announced
    BY <2>1, QuietStep
  <2>3. q.sel = "none" /\ q.gen = 0 /\ q.read = 0 /\ q.pc = "out" /\ q.then = "ready" /\ ~q.dirty
    BY <2>1 DEF LoggedOut, ImapConnected
  <2>. QED
    BY <1>0, <2>2, <2>3, NoList
<1>. QED
  BY <1>2, <1>3, <1>4, <1>5, <1>6

\* Every step of an IMAP session keeps CurrentInv.
LEMMA ImapKeepsCurrent ==
    ASSUME Shapes, CurrentInv, NEW s \in ImapSessions, ImapStep(s), UNCHANGED pop
    PROVE  CurrentInv'
<1>1. OnlyImap(s)
  BY ImapAlone
<1>2. CASE \/ Begin(s) \/ Login(s) \/ Refused(s) \/ Idle(s) \/ Poll(s) \/ Refresh(s)
           \/ Select(s) \/ Open(s) \/ Opened(s) \/ Status(s) \/ Reread(s)
           \/ Copy(s) \/ CopyCheck(s) \/ AppendCommand(s) \/ Rename(s) \/ Logout(s) \/ ImapDisconnect(s)
  <2>1. UNCHANGED mailboxVars
    BY <1>2 DEF Begin, Login, Refused, Idle, Poll, Refresh, Select, Open, Opened, Status, Reread,
       Copy, CopyCheck, AppendCommand, Rename, Logout, ImapDisconnect
  <2>. QED
    BY <1>1, <1>2, <2>1, ListsKeepCurrent
<1>3. CASE \/ Store(s) \/ WriteBack(s) \/ Announce(s)
           \/ CopyRow(s) \/ CopyBlob(s) \/ CopyGeneration(s) \/ CopyCharge(s)
           \/ AppendRow(s) \/ AppendGeneration(s) \/ AppendBlob(s) \/ AppendCharge(s) \/ AppendFlags(s)
           \/ Delete(s) \/ DeleteFolderRows(s) \/ DeleteRefund(s) \/ DeleteFolder(s)
  BY <1>1, <1>3, CommandsKeepCurrent
<1>4. CASE ExpungeBlob(s) \/ ExpungeRow(s) \/ ExpungeGeneration(s) \/ ExpungeDone(s) \/ ImapKilled(s)
  BY <1>1, <1>4, ExpungesKeepCurrent
<1>. QED
  BY <1>2, <1>3, <1>4 DEF ImapStep

\* What a step of anybody else has to show.
LEMMA OthersKeepCurrent ==
    ASSUME CurrentInv, Announced, UNCHANGED imapVars,
           \A p \in PopSessions : pop'[p].freed # {} => pop'[p].state \in {"quit", "row"}
    PROVE  CurrentInv'
<1>1. ASSUME NEW t \in ImapSessions PROVE CurrentOK(imap[t])'
  <2>1. gen \in Nat /\ CurrentOK(imap[t]) /\ imap'[t] = imap[t]
    BY DEF CurrentInv, imapVars
  <2>. QED
    BY <2>1, StaysCurrent DEF CurrentOK, UpToDate
<1>. QED
  BY <1>1 DEF CurrentInv, Announced

\* A quiet step of a POP3 session.
LEMMA QuietPop ==
    ASSUME NEW p \in PopSessions, OnlyPop(p), SameFolders, UNCHANGED <<imapVars, gen>>, silent => silent',
           PopUnannounced(p) => silent' \/ PopUnannounced(p)'
    PROVE  Announced
<1>1. ASSUME NEW s \in ImapSessions PROVE ImapUnannounced(s)' = ImapUnannounced(s)
  BY DEF imapVars, ImapUnannounced
<1>2. ASSUME NEW t \in PopSessions \ {p} PROVE PopUnannounced(t)' = PopUnannounced(t)
  BY DEF PopUnannounced, OnlyPop
<1>. QED
  BY <1>1, <1>2 DEF Announced, Changing

\* QUIT announces what it deleted, unless it is killed.
LEMMA PopKeepsCurrent ==
    ASSUME Shapes, CurrentInv, NEW p \in PopSessions, PopStep(p), UNCHANGED imapVars
    PROVE  CurrentInv'
<1>. DEFINE r == pop[p]
            q == pop'[p]
<1>0. /\ DOMAIN r = DOMAIN PopConnected /\ DOMAIN pop = PopSessions /\ OnlyPop(p)
      /\ r.freed # {} => r.state \in {"quit", "row"}
  BY PopAlone DEF Shapes, CurrentInv
<1>1. SUFFICES Announced /\ (q.freed # {} => q.state \in {"quit", "row"})
  <2>1. \A t \in PopSessions : pop'[t].freed # {} => pop'[t].state \in {"quit", "row"}
    BY <1>0, <1>1 DEF OnlyPop, CurrentInv
  <2>. QED
    BY <1>1, <2>1, OthersKeepCurrent
<1>2. CASE User(p) \/ Redirect(p) \/ PassOk(p) \/ PassFails(p) \/ Dele(p) \/ Rset(p) \/ PopDisconnect(p)
  <2>1. UNCHANGED <<folder, gen, silent>>
    BY <1>2 DEF User, Redirect, PassOk, PassFails, Dele, Rset, PopDisconnect, mailboxVars, rowVars,
       ledgerVars
  <2>2. r.state \in {"authorization", "transaction"}
    BY <1>2 DEF User, Redirect, PassOk, PassFails, Dele, Rset, PopDisconnect
  <2>3. q.freed \in {r.freed, {}}
    <3>1. CASE User(p) \/ Redirect(p)
      BY <1>0, <3>1 DEF User, Redirect, PopEnded, PopConnected
    <3>2. CASE PassOk(p)
      BY <1>0, <3>2 DEF PassOk, PopConnected
    <3>5. CASE PassFails(p)
      BY <1>0, <3>5 DEF PassFails, PopEnded, PopConnected
    <3>3. CASE Dele(p)
      <4>1. PICK n \in DOMAIN r.msgs :
               pop' = [pop EXCEPT ![p].dele   = @ \cup {n},
                                  ![p].count  = @ + 1,
                                  ![p].octets = @ + size[pop[p].msgs[n]],
                                  ![p].marks  = @ + 1]
        BY <3>3 DEF Dele
      <4>. QED
        BY <1>0, <4>1 DEF PopConnected
    <3>4. CASE Rset(p) \/ PopDisconnect(p)
      BY <1>0, <3>4 DEF Rset, PopDisconnect, PopEnded, PopConnected
    <3>. QED
      BY <1>2, <3>1, <3>2, <3>3, <3>4, <3>5
  <2>4. Announced
    BY <1>0, <2>1, <2>2, QuietPop DEF PopUnannounced, SameFolders
  <2>. QED
    BY <1>0, <2>2, <2>3, <2>4
<1>3. CASE Quit(p)
  <2>1. /\ UNCHANGED <<folder, gen, silent>> /\ r.state \in {"authorization", "transaction"}
        /\ q.freed \in {r.freed, {}}
    BY <1>0, <1>3 DEF Quit, rowVars, ledgerVars, PopEnded, PopConnected
  <2>2. Announced
    BY <1>0, <2>1, QuietPop DEF PopUnannounced, SameFolders
  <2>. QED
    BY <1>0, <2>1, <2>2
<1>4. CASE QuitBlob(p)
  <2>1. PICK n \in r.dele : pop' = [pop EXCEPT ![p].state = "row", ![p].pos = n]
    BY <1>4 DEF QuitBlob
  <2>2. UNCHANGED <<folder, gen, silent>> /\ r.state = "quit" /\ q.state = "row" /\ q.freed = r.freed
    BY <1>0, <1>4, <2>1 DEF QuitBlob, rowVars, ledgerVars, PopConnected
  <2>3. Announced
    BY <1>0, <2>2, QuietPop DEF PopUnannounced, SameFolders
  <2>. QED
    BY <2>2, <2>3
<1>5. CASE QuitRow(p)
  <2>. DEFINE m == r.msgs[r.pos]
  <2>1. /\ q.state = "quit" /\ q.freed = r.freed \cup ({m} \cap Rows) /\ gen' = gen /\ silent' = silent
        /\ r.state = "row"
        /\ folder' = [n \in Mails |-> IF n \in {m} /\ n \in Rows THEN "gone" ELSE folder[n]]
    BY <1>0, <1>5 DEF QuitRow, DeleteRows, ledgerVars, PopConnected
  <2>. HIDE DEF m
  <2>2. CASE q.freed # {}
    BY <2>1, <2>2 DEF Announced, Changing, PopUnannounced
  <2>3. CASE q.freed = {}
    <3>1. SameFolders
      BY <2>1, <2>3 DEF Rows, SameFolders
    <3>2. Announced
      BY <1>0, <2>1, <2>3, <3>1, QuietPop DEF PopUnannounced
    <3>. QED
      BY <2>3, <3>2
  <2>. QED
    BY <2>2, <2>3
<1>6. CASE QuitRefund(p)
  <2>1. UNCHANGED <<folder, gen, silent>> /\ r.state = "quit" /\ q.freed = {}
        /\ (r.freed # {} => q.state = "generation")
    BY <1>6, Refunding DEF QuitRefund, rowVars, ledgerVars
  <2>2. Announced
    BY <1>0, <2>1, QuietPop DEF PopUnannounced, SameFolders
  <2>. QED
    BY <2>1, <2>2
<1>7. CASE QuitGeneration(p)
  BY <1>0, <1>7 DEF QuitGeneration, IncGeneration, Announced, PopEnded, PopConnected
<1>8. CASE PopKilled(p)
  <2>1. /\ UNCHANGED <<folder, gen>> /\ (PopUnannounced(p) => silent') /\ (silent => silent') /\ q.freed = {}
    BY <1>0, <1>8 DEF PopKilled, rowVars, PopEnded, PopConnected
  <2>2. Announced
    BY <1>0, <2>1, QuietPop DEF SameFolders
  <2>. QED
    BY <2>1, <2>2
<1>. QED
  BY <1>2, <1>3, <1>4, <1>5, <1>6, <1>7, <1>8 DEF PopStep

\* CurrentInv is inductive.
LEMMA CurrentStep ==
    ASSUME Shapes, CurrentInv, [Next]_vars
    PROVE  CurrentInv'
<1>1. CASE Outside /\ UNCHANGED <<pop, imapVars>>
  <2>1. Announced
    BY <1>1 DEF Outside, Delivered, Moved, IncGeneration, Announced
  <2>. QED
    BY <1>1, <2>1, OthersKeepCurrent DEF CurrentInv
<1>2. ASSUME NEW p \in PopSessions, PopStep(p), UNCHANGED imapVars PROVE CurrentInv'
  BY <1>2, PopKeepsCurrent
<1>3. ASSUME NEW s \in ImapSessions, ImapStep(s), UNCHANGED pop PROVE CurrentInv'
  BY <1>3, ImapKeepsCurrent
<1>4. CASE UNCHANGED vars
  <2>1. Announced /\ UNCHANGED <<pop, imapVars>>
    BY <1>4 DEF vars, mailboxVars, rowVars, ledgerVars, imapVars, Announced, SameFolders, Changing,
       ImapUnannounced, PopUnannounced
  <2>. QED
    BY <2>1, OthersKeepCurrent DEF CurrentInv
<1>. QED
  BY <1>1, <1>2, <1>3, <1>4 DEF Next

\* Between two commands a session that has the account's generation has the folder's
\* messages, when nobody is in the middle of a change, none was killed there, and its list
\* was not read before the generation by SELECT.
THEOREM MailListCurrent == Spec => []ListCurrent
<1>1. Init => CurrentInv
  BY DEF Init, MailboxInit, PopInit, ImapInit, CurrentInv, CurrentOK, UpToDate, ImapConnected, PopConnected,
     Expunging
<1>2. Shapes /\ WantInv /\ CurrentInv /\ [Next]_vars => (Shapes /\ WantInv /\ CurrentInv)'
  BY WishesStep, CurrentStep
<1>3. CurrentInv => ListCurrent
  BY DEF CurrentInv, CurrentOK, UpToDate, ListCurrent
<1>. QED
  BY <1>1, <1>2, <1>3, WishesStart, PTL DEF Spec

-----------------------------------------------------------------------------
(***************************************************************************)
(* What the account says and what the rows take.                           *)
(***************************************************************************)

\* Where a session has inserted a row it has not charged.
Charging == {"copyblob", "copygeneration", "copycharge", "appendgeneration", "appendblob", "appendcharge"}

\* Where a session knows the folder it will insert rows into.
Inserting == {"copying", "copyrow", "copyblob", "copygeneration", "copycharge", "appendrow"}

\* Where a command goes on afterwards.
Afterwards == Refreshing \cup {"ready", "idle", "opened", "reread", "reselect", "logout"}

\* The messages a session has deleted and will refund are rows no more (but for those
\* DeleteFolder counted); the row it will charge is there to stay.
LedgerOK(r) ==
    /\ r.then \in Afterwards
    /\ r.freed \subseteq Mails \ Fresh
    /\ r.pc \notin Expunging \cup {"row", "deleterefund"} => r.freed = {}
    /\ r.pc # "deleterefund" => r.freed \cap Rows = {}
    /\ r.pc = "row" => r.then \in Expunging
    /\ r.pc \in Charging => r.new \in Mails \ Fresh
    /\ r.pc \in Inserting => r.arg \in Folders
    /\ r.pc = "appendrow" => r.octets \in Sizes
    /\ r.pc = "deleterows" => r.todo \subseteq Mails \ Fresh /\ r.arg \in Folders

\* A POP3 session has something in hand only while it updates.
PopLedgerOK(r) ==
    /\ r.freed \subseteq Mails \ Fresh
    /\ r.freed \cap Rows = {}
    /\ r.state \notin {"quit", "row"} => r.freed = {}

\* Columns that count octets.
Octets ==
    /\ size \in [Mails -> Nat]
    /\ used \in Nat /\ clamped \in Nat /\ unpaid \in Nat /\ lost \in Nat /\ overpaid \in Nat

\* The equation and the books it sums up.
AccountInv ==
    /\ Octets
    /\ SpaceAccounted
    /\ \A s \in ImapSessions : LedgerOK(imap[s])
    /\ \A p \in PopSessions : PopLedgerOK(pop[p])

\* A row keeps its size, and one that is gone does not come back.
Lasting ==
    /\ Fresh' \subseteq Fresh
    /\ \A m \in Mails \ Fresh : size'[m] = size[m] /\ (m \in Rows' => m \in Rows)

\* There are finitely many messages.
LEMMA MailsFinite == ASSUME NEW S \in SUBSET Mails PROVE IsFiniteSet(S)
<1>1. 1 \in Int /\ MaxMails \in Int
  BY MailboxAssumption
<1>2. IsFiniteSet(Mails)
  BY <1>1, FS_Interval DEF Mails
<1>. QED
  BY <1>2, FS_Subset

\* What messages take is a number of octets.
LEMMA SpaceType ==
    ASSUME NEW z \in [Mails -> Nat], NEW S \in SUBSET Mails
    PROVE  SumFunctionOnSet(z, S) \in Nat
BY MailsFinite, SumType

\* A step that leaves stored messages their sizes leaves them their space.
LEMMA SpaceLasts ==
    ASSUME Lasting, NEW S \in SUBSET (Mails \ Fresh)
    PROVE  SumFunctionOnSet(size', S) = SumFunctionOnSet(size, S)
BY MailsFinite, SumSame DEF Lasting

\* What a session has in its books is made of messages that are not fresh.
LEMMA UnchargedStored ==
    ASSUME NEW s \in ImapSessions, LedgerOK(imap[s])
    PROVE  Uncharged(s) \subseteq Mails \ Fresh
BY DEF LedgerOK, Uncharged, Charging

\* What the sessions of each server will refund.
PopRefund  == SumFunction([p \in PopSessions |-> Space(pop[p].freed)])
ImapRefund == SumFunction([s \in ImapSessions |-> Space(imap[s].freed)])

\* Sums that a step of somebody else leaves alone.
LEMMA PopSumLasts ==
    ASSUME AccountInv, UNCHANGED pop, Lasting
    PROVE  /\ PopRefund' = PopRefund /\ PopRefund \in Nat
           /\ \A p \in PopSessions : PopLedgerOK(pop[p])'
<1>. DEFINE f0 == [p \in PopSessions |-> Space(pop[p].freed)]
            f1 == [p \in PopSessions |-> SumFunctionOnSet(size', pop[p].freed)]
<1>1. ASSUME NEW p \in PopSessions
      PROVE  PopLedgerOK(pop[p])' /\ f1[p] = f0[p] /\ f0[p] \in Nat
  <2>1. PopLedgerOK(pop[p]) /\ pop'[p] = pop[p]
    BY DEF AccountInv
  <2>2. PopLedgerOK(pop[p])'
    BY <2>1 DEF PopLedgerOK, Lasting
  <2>. QED
    BY <2>1, <2>2, SpaceLasts, SpaceType DEF Space, PopLedgerOK, AccountInv, Octets
<1>2. SumFunctionOnSet(f1, PopSessions) = SumFunctionOnSet(f0, PopSessions)
      /\ SumFunctionOnSet(f0, PopSessions) \in Nat
  <2>. HIDE DEF f0, f1
  <2>. QED
    BY <1>1, Pop3Assumption, SumSame, SumType
<1>3. PopRefund = SumFunctionOnSet(f0, PopSessions) /\ PopRefund' = SumFunctionOnSet(f1, PopSessions)
  BY DEF PopRefund, SumFunction, Space
<1>. QED
  BY <1>1, <1>2, <1>3

\* The same of the IMAP sessions, whose books are a refund and a charge.
LEMMA ImapSumsLast ==
    ASSUME AccountInv, UNCHANGED imapVars, Lasting
    PROVE  /\ ImapRefund' = ImapRefund /\ ImapRefund \in Nat /\ ToCharge' = ToCharge /\ ToCharge \in Nat
           /\ \A s \in ImapSessions : LedgerOK(imap[s])'
<1>. DEFINE f0 == [s \in ImapSessions |-> Space(imap[s].freed)]
            f1 == [s \in ImapSessions |-> SumFunctionOnSet(size', imap[s].freed)]
            c0 == [s \in ImapSessions |-> Space(Uncharged(s))]
            c1 == [s \in ImapSessions |-> SumFunctionOnSet(size', Uncharged(s))]
<1>1. ASSUME NEW s \in ImapSessions
      PROVE  /\ LedgerOK(imap[s])' /\ Uncharged(s)' = Uncharged(s)
             /\ f1[s] = f0[s] /\ f0[s] \in Nat /\ c1[s] = c0[s] /\ c0[s] \in Nat
  <2>1. LedgerOK(imap[s]) /\ imap'[s] = imap[s]
    BY DEF AccountInv, imapVars
  <2>2. LedgerOK(imap[s])' /\ Uncharged(s)' = Uncharged(s)
    BY <2>1 DEF LedgerOK, Lasting, Uncharged
  <2>3. imap[s].freed \subseteq Mails \ Fresh /\ Uncharged(s) \subseteq Mails \ Fresh
    BY <2>1, UnchargedStored DEF LedgerOK
  <2>. QED
    BY <2>1, <2>2, <2>3, SpaceLasts, SpaceType DEF Space, AccountInv, Octets
<1>2. /\ SumFunctionOnSet(f1, ImapSessions) = SumFunctionOnSet(f0, ImapSessions)
      /\ SumFunctionOnSet(f0, ImapSessions) \in Nat
      /\ SumFunctionOnSet(c1, ImapSessions) = SumFunctionOnSet(c0, ImapSessions)
      /\ SumFunctionOnSet(c0, ImapSessions) \in Nat
  <2>. HIDE DEF f0, f1, c0, c1
  <2>. QED
    BY <1>1, ImapAssumption, SumSame, SumType
<1>3. c1 = [s \in ImapSessions |-> SumFunctionOnSet(size', Uncharged(s)')]
  BY <1>1
<1>4. /\ ImapRefund = SumFunctionOnSet(f0, ImapSessions) /\ ImapRefund' = SumFunctionOnSet(f1, ImapSessions)
      /\ ToCharge = SumFunctionOnSet(c0, ImapSessions) /\ ToCharge' = SumFunctionOnSet(c1, ImapSessions)
  <2>1. /\ ImapRefund = SumFunctionOnSet(f0, ImapSessions) /\ ToCharge = SumFunctionOnSet(c0, ImapSessions)
    BY DEF ImapRefund, ToCharge, SumFunction
  <2>2. imap' = imap
    BY DEF imapVars
  <2>3. ImapRefund' = SumFunctionOnSet(f1, ImapSessions)
    BY <2>2 DEF ImapRefund, SumFunction, Space
  <2>4. ToCharge' = SumFunctionOnSet([s \in ImapSessions |-> SumFunctionOnSet(size', Uncharged(s)')], ImapSessions)
    BY DEF ToCharge, SumFunction, Space
  <2>. QED
    BY <1>3, <2>1, <2>3, <2>4
<1>. QED
  BY <1>1, <1>2, <1>4

\* The books of a step that leaves those of the others alone.
LEMMA BooksFrom ==
    ASSUME Shapes, AccountInv, NEW s \in ImapSessions, OnlyImap(s), UNCHANGED pop, Lasting, Octets',
           LedgerOK(imap[s])',
           (used' + Space(Uncharged(s))' + unpaid' + overpaid') + (Space(Rows) + Space(imap[s].freed) + lost + clamped)
             = (Space(Rows)' + Space(imap[s].freed)' + lost' + clamped')
                 + (used + Space(Uncharged(s)) + unpaid + overpaid)
    PROVE  AccountInv'
<1>. DEFINE freed0   == [t \in ImapSessions |-> Space(imap[t].freed)]
            freed1   == [t \in ImapSessions |-> SumFunctionOnSet(size', imap'[t].freed)]
            charge0  == [t \in ImapSessions |-> Space(Uncharged(t))]
            charge1  == [t \in ImapSessions |-> SumFunctionOnSet(size', Uncharged(t)')]
<1>1. IsFiniteSet(ImapSessions)
  BY ImapAssumption
<1>2. ASSUME NEW t \in ImapSessions \ {s}
      PROVE  /\ imap'[t] = imap[t] /\ Uncharged(t)' = Uncharged(t) /\ LedgerOK(imap[t])'
             /\ freed1[t] = freed0[t] /\ charge1[t] = charge0[t]
  <2>1. imap'[t] = imap[t] /\ LedgerOK(imap[t])
    BY DEF OnlyImap, AccountInv
  <2>2. Uncharged(t)' = Uncharged(t)
    BY <2>1 DEF Uncharged
  <2>3. LedgerOK(imap[t])'
    BY <2>1 DEF LedgerOK, Lasting
  <2>4. imap[t].freed \subseteq Mails \ Fresh /\ Uncharged(t) \subseteq Mails \ Fresh
    BY <2>1, UnchargedStored DEF LedgerOK
  <2>. QED
    BY <2>1, <2>2, <2>3, <2>4, SpaceLasts DEF Space
<1>3. /\ PopRefund' = PopRefund /\ PopRefund \in Nat
      /\ \A p \in PopSessions : PopLedgerOK(pop[p])'
  BY PopSumLasts
<1>4. ASSUME NEW t \in ImapSessions
      PROVE  freed0[t] \in Nat /\ freed1[t] \in Nat /\ charge0[t] \in Nat /\ charge1[t] \in Nat
  <2>1. LedgerOK(imap[t]) /\ LedgerOK(imap[t])'
    BY <1>2 DEF AccountInv
  <2>2. Uncharged(t) \subseteq Mails /\ Uncharged(t)' \subseteq Mails
    BY <2>1, UnchargedStored DEF LedgerOK, Uncharged, Charging, Mails
  <2>3. imap[t].freed \subseteq Mails /\ imap'[t].freed \subseteq Mails
    BY <2>1 DEF LedgerOK, Mails
  <2>4. size \in [Mails -> Nat] /\ size' \in [Mails -> Nat]
    BY DEF AccountInv, Octets, Mails
  <2>. QED
    BY <2>2, <2>3, <2>4, SpaceType DEF Space
<1>5. SumFunctionOnSet(freed1, ImapSessions) + freed0[s] = SumFunctionOnSet(freed0, ImapSessions) + freed1[s]
  <2>. HIDE DEF freed0, freed1
  <2>. QED
    BY <1>1, <1>2, <1>4, SumChange
<1>6. SumFunctionOnSet(charge1, ImapSessions) + charge0[s] = SumFunctionOnSet(charge0, ImapSessions) + charge1[s]
  <2>. HIDE DEF charge0, charge1
  <2>. QED
    BY <1>1, <1>2, <1>4, SumChange
<1>8. /\ SumFunctionOnSet(freed0, ImapSessions) \in Nat /\ SumFunctionOnSet(freed1, ImapSessions) \in Nat
      /\ SumFunctionOnSet(charge0, ImapSessions) \in Nat /\ SumFunctionOnSet(charge1, ImapSessions) \in Nat
  <2>. HIDE DEF freed0, freed1, charge0, charge1
  <2>. QED
    BY <1>1, <1>4, SumType
<1>9. /\ ImapRefund = SumFunctionOnSet(freed0, ImapSessions) /\ ImapRefund' = SumFunctionOnSet(freed1, ImapSessions)
      /\ ToCharge = SumFunctionOnSet(charge0, ImapSessions) /\ ToCharge' = SumFunctionOnSet(charge1, ImapSessions)
  BY DEF ImapRefund, ToCharge, SumFunction, Space
<1>10. ToRefund = PopRefund + ImapRefund /\ ToRefund' = PopRefund' + ImapRefund'
  BY DEF ToRefund, PopRefund, ImapRefund
<1>11. Space(Rows) \in Nat /\ Space(Rows)' \in Nat
  BY SpaceType DEF AccountInv, Octets, Rows, Space
<1>12. /\ freed0[s] = Space(imap[s].freed) /\ freed1[s] = Space(imap[s].freed)'
       /\ charge0[s] = Space(Uncharged(s)) /\ charge1[s] = Space(Uncharged(s))'
  BY DEF Space
<1>13. freed0[s] \in Nat /\ freed1[s] \in Nat /\ charge0[s] \in Nat /\ charge1[s] \in Nat
  BY <1>4
<1>14. /\ ImapRefund' + Space(imap[s].freed) = ImapRefund + Space(imap[s].freed)'
       /\ ToCharge' + Space(Uncharged(s)) = ToCharge + Space(Uncharged(s))'
       /\ ImapRefund \in Nat /\ ImapRefund' \in Nat /\ ToCharge \in Nat /\ ToCharge' \in Nat
       /\ Space(imap[s].freed) \in Nat /\ Space(imap[s].freed)' \in Nat
       /\ Space(Uncharged(s)) \in Nat /\ Space(Uncharged(s))' \in Nat
  <2>. HIDE DEF freed0, freed1, charge0, charge1
  <2>. QED
    BY <1>5, <1>6, <1>8, <1>9, <1>12, <1>13
<1>15. SpaceAccounted'
  <2>1. /\ used \in Nat /\ clamped \in Nat /\ unpaid \in Nat /\ lost \in Nat /\ overpaid \in Nat
        /\ used' \in Nat /\ clamped' \in Nat /\ unpaid' \in Nat /\ lost' \in Nat /\ overpaid' \in Nat
    BY DEF AccountInv, Octets
  <2>2. used + ToCharge + unpaid + overpaid = Space(Rows) + ToRefund + lost + clamped
    BY DEF AccountInv, SpaceAccounted
  <2>. HIDE DEF freed0, freed1, charge0, charge1
  <2>3. used' + ToCharge' + unpaid' + overpaid' = Space(Rows)' + ToRefund' + lost' + clamped'
    BY <1>3, <1>10, <1>11, <1>14, <2>1, <2>2
  <2>. QED
    BY <2>3 DEF SpaceAccounted
<1>. QED
  BY <1>2, <1>3, <1>15 DEF AccountInv

\* Places where a session has no row or message in hand.
Unbound(r) ==
    r.freed = {} /\ r.then \in Afterwards /\ r.pc \notin Charging \cup Inserting \cup {"row", "deleterows"}

\* A session with nothing in hand has its books in order.
LEMMA UnboundLedger == ASSUME NEW r, Unbound(r) PROVE LedgerOK(r)
BY DEF Unbound, LedgerOK, Inserting

\* Books that are in order for the rows of before are so for those of after.
LEMMA NextLedger ==
    ASSUME Lasting, NEW s \in ImapSessions, LedgerOK(imap'[s])
    PROVE  LedgerOK(imap[s])'
BY DEF LedgerOK, Lasting

\* Nothing comes and goes where no row and no size changes.
LEMMA SameRowsLast == UNCHANGED <<folder, size>> => Lasting /\ Rows' = Rows /\ Fresh' = Fresh
BY DEF Lasting, Rows, Fresh

\* A step that changes neither rows nor books.
LEMMA BooksQuiet ==
    ASSUME Shapes, AccountInv, NEW s \in ImapSessions, OnlyImap(s), UNCHANGED pop,
           UNCHANGED <<folder, size, used, clamped, unpaid, lost, overpaid>>,
           LedgerOK(imap'[s]), imap'[s].freed = imap[s].freed,
           imap'[s].pc \in Charging <=> imap[s].pc \in Charging,
           imap[s].pc \in Charging => imap'[s].new = imap[s].new
    PROVE  AccountInv'
<1>1. Lasting /\ Rows' = Rows
  BY SameRowsLast
<1>2. Uncharged(s)' = Uncharged(s)
  BY DEF Uncharged, Charging
<1>3. /\ Space(Uncharged(s))' = Space(Uncharged(s)) /\ Space(Rows)' = Space(Rows)
      /\ Space(imap[s].freed)' = Space(imap[s].freed)
  BY <1>1, <1>2 DEF Space
<1>4. Octets' /\ LedgerOK(imap[s])'
  BY <1>1, NextLedger DEF AccountInv, Octets, Mails
<1>5. /\ Space(Rows) \in Nat /\ Space(imap[s].freed) \in Nat /\ Space(Uncharged(s)) \in Nat
  BY SpaceType, UnchargedStored DEF Space, AccountInv, Octets, LedgerOK, Rows
<1>6. \* both sides are the same sum
      (used' + Space(Uncharged(s))' + unpaid' + overpaid') + (Space(Rows) + Space(imap[s].freed) + lost + clamped)
        = (Space(Rows)' + Space(imap[s].freed)' + lost' + clamped') + (used + Space(Uncharged(s)) + unpaid + overpaid)
  BY <1>3, <1>5 DEF AccountInv, Octets
<1>. QED
  BY <1>1, <1>4, <1>6, BooksFrom

\* An inserted row.
LEMMA Inserted ==
    ASSUME Shapes, Octets, NEW m, NEW f \in Folders, NEW octets \in Nat, NEW deleted,
           InsertRow(m, f, octets, deleted)
    PROVE  /\ Lasting /\ size' \in [Mails -> Nat] /\ {m} \subseteq Mails \ Fresh'
           /\ SumFunctionOnSet(size', Rows') = SumFunctionOnSet(size, Rows) + octets
           /\ SumFunctionOnSet(size', {m}) = octets
<1>1. m \in Fresh /\ folder' = [folder EXCEPT ![m] = f] /\ size' = [size EXCEPT ![m] = octets]
  BY DEF InsertRow
<1>2. m \in Mails /\ m \notin Rows /\ Rows \subseteq Mails /\ f # "new"
  BY <1>1, MailboxAssumption DEF Fresh, Rows
<1>3. size' \in [Mails -> Nat] /\ size'[m] = octets /\ \A n \in Mails \ {m} : size'[n] = size[n]
  BY <1>1, <1>2 DEF Octets
<1>4. Rows' = Rows \cup {m} /\ Fresh' = Fresh \ {m}
  BY <1>1, <1>2 DEF Rows, Fresh, Shapes
<1>5. Lasting
  BY <1>1, <1>3, <1>4 DEF Lasting
<1>6. IsFiniteSet(Rows) /\ \A n \in Rows \cup {m} : size'[n] \in Nat
  BY <1>2, <1>3, MailsFinite
<1>7. SumFunctionOnSet(size', Rows \cup {m}) = octets + SumFunctionOnSet(size', Rows)
  BY <1>2, <1>3, <1>6, SumAdd
<1>8. SumFunctionOnSet(size', Rows) = SumFunctionOnSet(size, Rows)
  BY <1>2, <1>3, <1>6, SumSame
<1>9. SumFunctionOnSet(size, Rows) \in Nat
  BY <1>2, SpaceType DEF Octets
<1>10. SumFunctionOnSet(size', {m}) = octets
  BY <1>3, SumOne
<1>. QED
  BY <1>2, <1>3, <1>4, <1>5, <1>7, <1>8, <1>9, <1>10

\* Deleted rows.
LEMMA Deleted ==
    ASSUME Octets, NEW S, DeleteRows(S)
    PROVE  /\ Lasting /\ size' = size /\ Fresh' = Fresh /\ Rows' = Rows \ S
           /\ Space(Rows) = SumFunctionOnSet(size, Rows \ S) + SumFunctionOnSet(size, Rows \cap S)
<1>1. folder' = [m \in Mails |-> IF m \in S /\ m \in Rows THEN "gone" ELSE folder[m]] /\ size' = size
  BY DEF DeleteRows
<1>2. Rows' = Rows \ S /\ Fresh' = Fresh
  BY <1>1, MailboxAssumption DEF Rows, Fresh
<1>3. Lasting
  BY <1>1, <1>2 DEF Lasting
<1>4. /\ IsFiniteSet(Rows \ S) /\ IsFiniteSet(Rows \cap S)
      /\ (Rows \ S) \cup (Rows \cap S) = Rows /\ (Rows \ S) \cap (Rows \cap S) = {}
  BY MailsFinite DEF Rows
<1>5. \A m \in (Rows \ S) \cup (Rows \cap S) : size[m] \in Nat
  BY DEF Octets, Rows
<1>6. SumFunctionOnSet(size, (Rows \ S) \cup (Rows \cap S))
        = SumFunctionOnSet(size, Rows \ S) + SumFunctionOnSet(size, Rows \cap S)
  BY <1>4, <1>5, SumUnion
<1>. QED
  BY <1>1, <1>2, <1>3, <1>4, <1>6 DEF Space

\* Where a command goes on, it has nothing in hand.
LEMMA AfterwardsUnbound ==
    ASSUME NEW pc \in Afterwards
    PROVE  pc \notin Charging \cup Inserting \cup {"row", "deleterows"}
BY DEF Afterwards, Refreshing, Charging, Inserting

\* At the end of a command, ...
LEMMA GoesOnUnbound ==
    ASSUME NEW r, DOMAIN r = DOMAIN ImapConnected, r.freed = {}, r.then \in Afterwards, NEW pc \in Afterwards
    PROVE  Unbound(GoesOn(r, pc))
<1>1. CASE pc \in {"ready", "idle"}
  BY <1>1 DEF GoesOn, Waiting, Unbound, Afterwards, Charging, Inserting, ImapConnected
<1>2. CASE pc \notin {"ready", "idle"}
  BY <1>2, AfterwardsUnbound DEF GoesOn, Unbound, ImapConnected
<1>. QED
  BY <1>1, <1>2

\* ... where the next entry is passed over, ...
LEMMA SkipUnbound ==
    ASSUME NEW r, DOMAIN r = DOMAIN ImapConnected, Unbound(r)
    PROVE  Unbound(Skip(r))
BY GoesOnUnbound DEF Skip, Unbound

\* ... where a list is fetched again, ...
LEMMA RefetchUnbound ==
    ASSUME NEW r, DOMAIN r = DOMAIN ImapConnected, r.freed = {}, r.then \in Afterwards, NEW f
    PROVE  Unbound(Refetch(r, f)) /\ DOMAIN Refetch(r, f) = DOMAIN ImapConnected
BY DEF Refetch, Unbound, Charging, Inserting, ImapConnected

\* ... and after the connection.
LEMMA LoggedOutUnbound == Unbound(LoggedOut)
BY DEF LoggedOut, ImapConnected, Unbound, Afterwards, Charging, Inserting

\* Commands and lists.
LEMMA ListsUnbound ==
    ASSUME Shapes, NEW s \in ImapSessions, LedgerOK(imap[s]),
           \/ Begin(s) \/ Login(s) \/ Refused(s) \/ Idle(s) \/ Poll(s) \/ Refresh(s)
           \/ Select(s) \/ Open(s) \/ Opened(s) \/ Status(s) \/ Reread(s) \/ WriteBack(s) \/ Announce(s)
    PROVE  Unbound(imap'[s]) /\ imap[s].freed = {} /\ imap[s].pc \notin Charging
<1>. DEFINE r == imap[s]
            q == imap'[s]
<1>0. /\ DOMAIN r = DOMAIN ImapConnected /\ DOMAIN imap = ImapSessions
      /\ r.then \in Afterwards
      /\ r.pc \notin Expunging \cup {"row", "deleterefund"} => r.freed = {}
  BY DEF Shapes, LedgerOK
<1>1. CASE Begin(s)
  <2>1. PICK c \in Refreshing : q = [r EXCEPT !.pc = IF r.sel = "none" \/ r.gen = gen THEN c ELSE "refresh",
                                              !.then = c, !.read = gen, !.dirs = Folders \ removed]
    BY <1>0, <1>1 DEF Begin
  <2>2. r.pc = "ready"
    BY <1>1 DEF Begin, At
  <2>3. r.freed = {} /\ r.pc \notin Charging
    BY <1>0, <2>2 DEF Expunging, Charging
  <2>4. q.then = c /\ q.pc \in {c, "refresh"} /\ q.freed = {}
    BY <1>0, <2>1, <2>3 DEF ImapConnected
  <2>5. c \in Afterwards
    BY DEF Afterwards
  <2>. QED
    BY <2>3, <2>4, <2>5, AfterwardsUnbound DEF Unbound, Charging, Inserting
<1>2. CASE Login(s) \/ Idle(s) \/ Poll(s)
  <2>1. r.pc \in {"login", "ready", "idle"}
    BY <1>2 DEF Login, Idle, Poll, At
  <2>2. r.freed = {} /\ r.pc \notin Charging
    BY <1>0, <2>1 DEF Expunging, Charging
  <2>3. q.pc \in {"ready", "idle", "refresh"} /\ q.then \in {r.then, "ready", "idle"} /\ q.freed = r.freed
    BY <1>0, <1>2, <2>1 DEF Login, Idle, Poll, At, ImapConnected
  <2>. QED
    BY <1>0, <2>2, <2>3 DEF Unbound, Afterwards, Charging, Inserting
<1>3. CASE Refused(s)
  <2>1. r.pc \in {"select", "examine", "status", "append", "copy", "delete", "rename"}
        /\ q = Waiting(r, "ready")
    BY <1>0, <1>3 DEF Refused, Ready
  <2>2. r.freed = {} /\ r.pc \notin Charging
    BY <1>0, <2>1 DEF Expunging, Charging
  <2>. QED
    BY <1>0, <2>1, <2>2 DEF Unbound, Waiting, Afterwards, Charging, Inserting, ImapConnected
<1>4. CASE Refresh(s)
  <2>1. PICK gen1, client, raced :
           q = Skip([Refetch(r, r.sel) EXCEPT !.gen = gen1, !.client = client, !.raced = raced])
    BY <1>0, <1>4 DEF Refresh
  <2>2. r.pc = "refresh"
    BY <1>4 DEF Refresh, At
  <2>3. r.freed = {} /\ r.pc \notin Charging
    BY <1>0, <2>2 DEF Expunging, Charging
  <2>. DEFINE z == Refetch(r, r.sel)
  <2>4. Unbound(z) /\ DOMAIN z = DOMAIN ImapConnected
    BY <1>0, <2>3, RefetchUnbound
  <2>. HIDE DEF z
  <2>. DEFINE y == [z EXCEPT !.gen = gen1, !.client = client, !.raced = raced]
  <2>5. Unbound(y) /\ DOMAIN y = DOMAIN ImapConnected
    BY <2>4 DEF Unbound, ImapConnected
  <2>6. q = Skip(y)
    BY <2>1 DEF z
  <2>. HIDE DEF y
  <2>. QED
    BY <2>3, <2>5, <2>6, SkipUnbound
<1>5. CASE Select(s)
  <2>1. PICK f \in r.dirs :
           imap' = [imap EXCEPT ![s].arg = f, ![s].ro = IF At(s, "examine") THEN "yes" ELSE "no",
                                ![s].pc  = IF AutoExpunge /\ imap[s].sel # "none"
                                           THEN "reselect" ELSE "open"]
    BY <1>5 DEF Select
  <2>2. r.pc \in {"select", "examine"}
    BY <1>5 DEF Select
  <2>3. r.freed = {} /\ r.pc \notin Charging
    BY <1>0, <2>2 DEF Expunging, Charging
  <2>4. q.pc \in {"reselect", "open"} /\ q.then = r.then /\ q.freed = r.freed
    BY <1>0, <2>1 DEF ImapConnected
  <2>. QED
    BY <1>0, <2>3, <2>4 DEF Unbound, Charging, Inserting
<1>6. CASE Open(s)
  <2>. DEFINE z == [r EXCEPT !.sel = r.arg, !.arg = "none", !.read = gen, !.then = "opened"]
  <2>1. q = Skip(Refetch(z, r.arg)) /\ r.pc = "open"
    BY <1>0, <1>6 DEF Open, At
  <2>2. r.freed = {} /\ r.pc \notin Charging
    BY <1>0, <2>1 DEF Expunging, Charging
  <2>3. DOMAIN z = DOMAIN ImapConnected /\ z.then = "opened" /\ z.freed = {}
    BY <1>0, <2>2 DEF ImapConnected
  <2>. HIDE DEF z
  <2>. QED
    BY <2>1, <2>2, <2>3, SkipUnbound, RefetchUnbound DEF Afterwards
<1>7. CASE Opened(s)
  <2>1. PICK gen1, client, raced :
           q = Waiting([r EXCEPT !.gen = gen1, !.client = client, !.untold = FALSE, !.raced = raced], "ready")
    BY <1>0, <1>7 DEF Opened, Ready
  <2>2. r.pc = "opened"
    BY <1>7 DEF Opened, At
  <2>3. r.freed = {} /\ r.pc \notin Charging
    BY <1>0, <2>2 DEF Expunging, Charging
  <2>. QED
    BY <1>0, <2>1, <2>3 DEF Unbound, Waiting, Afterwards, Charging, Inserting, ImapConnected
<1>8. CASE Status(s)
  <2>1. PICK back, backDels :
           /\ imap' = [imap EXCEPT ![s] = Skip([imap[s] EXCEPT !.pc = "writeback", !.then = "ready",
                                               !.back = back, !.backDels = backDels])]
           /\ backDels \subseteq flagged
           /\ back = {} => backDels = {}
    BY <1>8, StatusWritesBack
  <2>. DEFINE z == [r EXCEPT !.pc = "writeback", !.then = "ready", !.back = back, !.backDels = backDels]
  <2>2. q = Skip(z) /\ r.pc = "status"
    BY <1>0, <1>8, <2>1 DEF Status, At
  <2>3. r.freed = {} /\ r.pc \notin Charging
    BY <1>0, <2>2 DEF Expunging, Charging
  <2>4. Unbound(z) /\ DOMAIN z = DOMAIN ImapConnected
    BY <1>0, <2>3 DEF Unbound, Afterwards, Charging, Inserting, ImapConnected
  <2>. HIDE DEF z
  <2>. QED
    BY <2>2, <2>3, <2>4, SkipUnbound
<1>9. CASE Reread(s)
  <2>. DEFINE z == Refetch([r EXCEPT !.then = "ready"], r.sel)
  <2>1. PICK untold : q = Skip([z EXCEPT !.untold = untold])
    BY <1>0, <1>9 DEF Reread
  <2>2. r.pc = "reread"
    BY <1>9 DEF Reread, At
  <2>3. r.freed = {} /\ r.pc \notin Charging
    BY <1>0, <2>2 DEF Expunging, Charging
  <2>4. Unbound(z) /\ DOMAIN z = DOMAIN ImapConnected
    BY <1>0, <2>3, RefetchUnbound DEF Afterwards, ImapConnected
  <2>. HIDE DEF z
  <2>. QED
    BY <2>1, <2>3, <2>4, SkipUnbound DEF Unbound, ImapConnected
<1>10. CASE WriteBack(s)
  <2>1. q = GoesOn([r EXCEPT !.back = {}, !.backDels = {}], r.then) /\ r.pc = "writeback"
    BY <1>0, <1>10 DEF WriteBack, At
  <2>2. r.freed = {} /\ r.pc \notin Charging
    BY <1>0, <2>1 DEF Expunging, Charging
  <2>. DEFINE z == [r EXCEPT !.back = {}, !.backDels = {}]
  <2>3. DOMAIN z = DOMAIN ImapConnected /\ z.freed = {} /\ z.then = r.then
    BY <1>0, <2>2 DEF ImapConnected
  <2>. HIDE DEF z
  <2>. QED
    BY <1>0, <2>1, <2>2, <2>3, GoesOnUnbound DEF z
<1>11. CASE Announce(s)
  <2>1. q = GoesOn(r, r.then) /\ r.pc = "announce"
    BY <1>0, <1>11 DEF Announce, At
  <2>2. r.freed = {} /\ r.pc \notin Charging
    BY <1>0, <2>1 DEF Expunging, Charging
  <2>. QED
    BY <1>0, <2>1, <2>2, GoesOnUnbound
<1>. QED
  BY <1>1, <1>2, <1>3, <1>4, <1>5, <1>6, <1>7, <1>8, <1>9, <1>10, <1>11

\* The steps of commands that change no row and no sum.
LEMMA CommandsKeepBooks ==
    ASSUME Shapes, WantInv, NEW s \in ImapSessions, LedgerOK(imap[s]),
           \/ Store(s) \/ ExpungeBlob(s) \/ ExpungeGeneration(s)
           \/ Copy(s) \/ CopyCheck(s) \/ CopyBlob(s) \/ CopyGeneration(s)
           \/ AppendCommand(s) \/ AppendGeneration(s) \/ AppendBlob(s) \/ AppendFlags(s)
           \/ Delete(s) \/ DeleteFolder(s) \/ Rename(s) \/ Logout(s) \/ ImapDisconnect(s)
    PROVE  /\ LedgerOK(imap'[s]) /\ imap'[s].freed = imap[s].freed
           /\ imap'[s].pc \in Charging <=> imap[s].pc \in Charging
           /\ imap[s].pc \in Charging => imap'[s].new = imap[s].new
<1>. DEFINE r == imap[s]
            q == imap'[s]
<1>0. /\ DOMAIN r = DOMAIN ImapConnected /\ DOMAIN imap = ImapSessions
      /\ r.then \in Afterwards /\ r.freed \subseteq Mails \ Fresh
      /\ r.pc \notin Expunging \cup {"row", "deleterefund"} => r.freed = {}
      /\ r.pc # "deleterefund" => r.freed \cap Rows = {}
      /\ r.pc \in Charging => r.new \in Mails \ Fresh
      /\ r.pc \in Inserting => r.arg \in Folders
      /\ r.dirs \subseteq Folders
  BY DEF Shapes, LedgerOK, WantInv, WishesOK
<1>a. /\ {"ready", "idle"} \subseteq Afterwards /\ {"ready", "idle"} \cap (Charging \cup Inserting) = {}
      /\ "reread" \in Afterwards
  BY DEF Afterwards, Charging, Inserting
<1>1. CASE Store(s)
  <2>0. PICK m \in Listing(s), deleted \in BOOLEAN, unseen \in BOOLEAN :
          LET dels == IF deleted THEN imap[s].dels \cup {m} ELSE imap[s].dels \ {m}
              recs == IF unseen THEN imap[s].recs \cup {m} ELSE imap[s].recs \ {m}
          IN /\ imap' = [imap EXCEPT ![s].dels = dels, ![s].recs = recs,
                                     ![s].pc = "announce", ![s].then = "ready"]
             /\ WriteFlags({m}, dels, recs)
             /\ wanted' = IF deleted THEN wanted \cup {m}
                         ELSE IF m \notin Rows \/ WantedElsewhere(s, m) THEN wanted
                         ELSE wanted \ {m}
    BY <1>1 DEF Store
  <2>1. /\ r.pc = "ready" /\ q.pc = "announce" /\ q.then = "ready" /\ q.freed = r.freed
    <3>1. r.pc = "ready"
      BY <1>1 DEF Store, At
    <3>. QED
      BY <1>0, <2>0, <3>1 DEF ImapConnected
  <2>2. r.freed = {} /\ r.pc \notin Charging
    BY <1>0, <2>1 DEF Expunging, Charging
  <2>3. Unbound(q)
    BY <1>a, <2>1, <2>2 DEF Unbound, Charging, Inserting
  <2>. QED
    BY <2>1, <2>2, <2>3, UnboundLedger DEF Unbound
<1>2. CASE ExpungeBlob(s)
  <2>1. r.pc \in Expunging /\ q.pc = "row" /\ q.then = r.pc /\ q.freed = r.freed
    BY <1>0, <1>2 DEF ExpungeBlob, ImapConnected
  <2>2. r.pc \in Afterwards /\ r.pc # "deleterefund" /\ r.pc \notin Charging
    BY <2>1 DEF Expunging, Afterwards, Refreshing, Charging
  <2>3. q.pc \notin Charging \cup Inserting
    BY <2>1 DEF Charging, Inserting
  <2>. QED
    BY <1>0, <2>1, <2>2, <2>3 DEF LedgerOK
<1>3. CASE ExpungeGeneration(s)
  <2>1. r.pc \in Expunging /\ q.pc = r.pc /\ q.then = r.then /\ q.freed = r.freed
    BY <1>0, <1>3 DEF ExpungeGeneration, ImapConnected
  <2>2. r.pc \notin Charging \cup Inserting \cup {"row", "deleterefund", "deleterows", "appendrow"}
    BY <2>1 DEF Expunging, Charging, Inserting
  <2>. QED
    BY <1>0, <2>1, <2>2 DEF LedgerOK
<1>4. CASE Copy(s)
  <2>1. PICK f, S : /\ f \in r.dirs
                     /\ imap' = [imap EXCEPT ![s].pc = "copying", ![s].arg = f, ![s].todo = S]
    BY <1>4 DEF Copy
  <2>2. /\ r.pc = "copy" /\ q.pc = "copying" /\ q.then = r.then /\ q.freed = r.freed /\ q.arg \in Folders
    BY <1>0, <1>4, <2>1 DEF Copy, At, ImapConnected
  <2>3. r.freed = {} /\ r.pc \notin Charging
    BY <1>0, <2>2 DEF Expunging, Charging
  <2>. QED
    BY <1>0, <2>2, <2>3 DEF LedgerOK, Charging
<1>5. CASE CopyCheck(s)
  <2>1. \/ q = Waiting(r, "ready")
        \/ /\ q.pc \in {"copyrow", "copying"} /\ q.then = r.then /\ q.arg = r.arg /\ q.freed = r.freed
    BY <1>0, <1>5 DEF CopyCheck, At, Ready, ImapConnected
  <2>2. r.pc = "copying" /\ r.freed = {} /\ r.pc \notin Charging /\ r.pc \in Inserting
    BY <1>0, <1>5 DEF CopyCheck, At, Expunging, Charging, Inserting
  <2>3. CASE q = Waiting(r, "ready")
    <3>1. Unbound(q)
      BY <1>0, <1>a, <2>2, <2>3 DEF Unbound, Waiting, ImapConnected
    <3>. QED
      BY <2>2, <3>1, UnboundLedger DEF Unbound
  <2>4. CASE q # Waiting(r, "ready")
    BY <1>0, <2>1, <2>2, <2>4 DEF LedgerOK, Charging, Inserting
  <2>. QED
    BY <2>3, <2>4
<1>6. CASE CopyBlob(s) \/ CopyGeneration(s)
  <2>1. /\ r.pc \in {"copyblob", "copygeneration"} /\ q.pc \in {"copygeneration", "copycharge"}
        /\ q.then = r.then /\ q.arg = r.arg /\ q.new = r.new /\ q.freed = r.freed
    BY <1>0, <1>6 DEF CopyBlob, CopyGeneration, At, ImapConnected
  <2>2. r.freed = {} /\ r.pc \in Charging /\ r.pc \in Inserting /\ q.pc \in Charging
    BY <1>0, <2>1 DEF Expunging, Charging, Inserting
  <2>. QED
    BY <1>0, <2>1, <2>2 DEF LedgerOK
<1>7. CASE AppendCommand(s)
  <2>1. r.pc = "append" /\ r.freed = {} /\ r.pc \notin Charging
    BY <1>0, <1>7 DEF AppendCommand, At, Expunging, Charging
  <2>2. PICK f \in r.dirs, n \in Sizes :
           imap' = IF used + n > SizeLimit \/ Fresh = {}
                   THEN [imap EXCEPT ![s] = Ready(@)]
                   ELSE [imap EXCEPT ![s].pc = "appendrow", ![s].arg = f, ![s].octets = n]
    BY <1>7 DEF AppendCommand
  <2>3. CASE used + n > SizeLimit \/ Fresh = {}
    <3>1. Unbound(q)
      BY <1>0, <1>a, <2>1, <2>2, <2>3 DEF Unbound, Ready, Waiting, ImapConnected
    <3>. QED
      BY <2>1, <3>1, UnboundLedger DEF Unbound
  <2>4. CASE ~(used + n > SizeLimit \/ Fresh = {})
    <3>1. q.pc = "appendrow" /\ q.arg \in Folders /\ q.octets \in Sizes /\ q.then = r.then /\ q.freed = {}
      BY <1>0, <2>1, <2>2, <2>4 DEF ImapConnected
    <3>. QED
      BY <1>0, <2>1, <3>1 DEF LedgerOK, Charging
  <2>. QED
    BY <2>3, <2>4
<1>8. CASE AppendGeneration(s) \/ AppendBlob(s)
  <2>1. /\ r.pc \in {"appendgeneration", "appendblob"} /\ q.pc \in {"appendblob", "appendcharge"}
        /\ q.then = r.then /\ q.new = r.new /\ q.freed = r.freed
    BY <1>0, <1>8 DEF AppendGeneration, AppendBlob, At, ImapConnected
  <2>2. r.freed = {} /\ r.pc \in Charging /\ q.pc \notin Inserting /\ q.pc \in Charging
    BY <1>0, <2>1 DEF Expunging, Charging, Inserting
  <2>. QED
    BY <1>0, <2>1, <2>2 DEF LedgerOK
<1>9. CASE AppendFlags(s)
  <2>1. /\ r.pc = "appendflags" /\ q.pc = "announce" /\ q.then \in {"ready", "reread"} /\ q.freed = r.freed
    BY <1>0, <1>9 DEF AppendFlags, At, ImapConnected
  <2>2. r.freed = {} /\ r.pc \notin Charging
    BY <1>0, <2>1 DEF Expunging, Charging
  <2>3. Unbound(q)
    BY <1>a, <2>1, <2>2 DEF Unbound, Charging, Inserting
  <2>. QED
    BY <2>1, <2>2, <2>3, UnboundLedger DEF Unbound
<1>10. CASE Delete(s)
  <2>1. PICK f : /\ f \in r.dirs
                 /\ imap' = [imap EXCEPT ![s].pc = "deleterows", ![s].arg = f, ![s].todo = RowsIn(f)]
    BY <1>10 DEF Delete
  <2>2. /\ r.pc = "delete" /\ q.pc = "deleterows" /\ q.then = r.then /\ q.freed = r.freed
        /\ q.arg \in Folders /\ q.todo = RowsIn(q.arg)
    BY <1>0, <1>10, <2>1 DEF Delete, At, ImapConnected
  <2>3. r.freed = {} /\ r.pc \notin Charging
    BY <1>0, <2>2 DEF Expunging, Charging
  <2>4. RowsIn(q.arg) \subseteq Mails \ Fresh
    BY <2>2, MailboxAssumption DEF RowsIn, Fresh
  <2>. QED
    BY <1>0, <2>2, <2>3, <2>4 DEF LedgerOK, Charging, Inserting
<1>11. CASE DeleteFolder(s) \/ Rename(s)
  <2>1. r.pc \in {"deletefolder", "rename"} /\ q.pc = "announce" /\ q.then = "ready" /\ q.freed = r.freed
    BY <1>0, <1>11 DEF DeleteFolder, Rename, At, ImapConnected
  <2>2. r.freed = {} /\ r.pc \notin Charging
    BY <1>0, <2>1 DEF Expunging, Charging
  <2>3. Unbound(q)
    BY <1>a, <2>1, <2>2 DEF Unbound, Charging, Inserting
  <2>. QED
    BY <2>1, <2>2, <2>3, UnboundLedger DEF Unbound
<1>12. CASE Logout(s)
  <2>1. r.pc = "ready" /\ (q = LoggedOut \/ q = [r EXCEPT !.pc = "logout"])
    BY <1>0, <1>12 DEF Logout, At
  <2>2. r.freed = {} /\ r.pc \notin Charging
    BY <1>0, <2>1 DEF Expunging, Charging
  <2>3. CASE q = LoggedOut
    BY <2>2, <2>3, LoggedOutUnbound, UnboundLedger DEF Unbound
  <2>4. CASE q = [r EXCEPT !.pc = "logout"]
    <3>1. q.pc = "logout" /\ q.then = r.then /\ q.freed = {}
      BY <1>0, <2>2, <2>4 DEF ImapConnected
    <3>2. Unbound(q)
      BY <1>0, <3>1 DEF Unbound, Charging, Inserting
    <3>. QED
      BY <2>2, <3>1, <3>2, UnboundLedger DEF Unbound
  <2>. QED
    BY <2>1, <2>3, <2>4
<1>13. CASE ImapDisconnect(s)
  <2>1. r.pc \in {"login", "ready", "idle"} /\ q = LoggedOut
    BY <1>0, <1>13 DEF ImapDisconnect
  <2>2. r.freed = {} /\ r.pc \notin Charging
    BY <1>0, <2>1 DEF Expunging, Charging
  <2>. QED
    BY <2>1, <2>2, LoggedOutUnbound, UnboundLedger DEF Unbound
<1>. QED
  BY <1>1, <1>2, <1>3, <1>4, <1>5, <1>6, <1>7, <1>8, <1>9, <1>10, <1>11, <1>12, <1>13

\* A refund lowers what the account says, but for what LEAST keeps it from.
LEMMA RefundBooks ==
    ASSUME Octets, NEW n \in Nat, Refund(n)
    PROVE  used' \in Nat /\ clamped' \in Nat /\ used + clamped' = used' + clamped + n
BY DEF Refund, Lesser, Octets

\* What the session's DELETE took is to be refunded, ...
LEMMA ExpungeRowBooks ==
    ASSUME Shapes, AccountInv, NEW s \in ImapSessions, OnlyImap(s), UNCHANGED pop, ExpungeRow(s)
    PROVE  AccountInv'
<1>. DEFINE r == imap[s]
            q == imap'[s]
            m == r.list[FirstDeleted(r)]
<1>0. /\ DOMAIN r = DOMAIN ImapConnected /\ DOMAIN imap = ImapSessions
      /\ LedgerOK(r) /\ Octets
  BY DEF Shapes, AccountInv
<1>1. PICK list, dels, recs, client :
         imap' = [imap EXCEPT ![s].pc = r.then, ![s].list = list, ![s].dels = dels, ![s].recs = recs,
                              ![s].client = client, ![s].freed = @ \cup ({m} \cap Rows), ![s].dirty = TRUE]
  BY DEF ExpungeRow
<1>2. /\ DeleteRows({m}) /\ r.pc = "row"
      /\ UNCHANGED <<used, clamped, unpaid, lost, overpaid>>
  BY DEF ExpungeRow, At, accountVars, ledgerVars
<1>. HIDE DEF m
<1>3. q.pc = r.then /\ q.then = r.then /\ q.freed = r.freed \cup ({m} \cap Rows)
  <2>1. q = [r EXCEPT !.pc = r.then, !.list = list, !.dels = dels, !.recs = recs,
                      !.client = client, !.freed = @ \cup ({m} \cap Rows), !.dirty = TRUE]
    BY <1>0, <1>1
  <2>. QED
    BY <1>0, <2>1 DEF ImapConnected
<1>4. /\ Lasting /\ size' = size /\ Fresh' = Fresh /\ Rows' = Rows \ {m}
      /\ Space(Rows) = SumFunctionOnSet(size, Rows \ {m}) + SumFunctionOnSet(size, Rows \cap {m})
  BY <1>0, <1>2, Deleted
<1>5. /\ r.then \in Expunging /\ r.freed \subseteq Mails \ Fresh /\ r.freed \cap Rows = {}
      /\ r.pc \notin Charging /\ q.pc \notin Charging \cup Inserting \cup {"row", "deleterows"}
  BY <1>0, <1>2, <1>3 DEF LedgerOK, Expunging, Charging, Inserting
<1>6. Rows \subseteq Mails \ Fresh
  BY MailboxAssumption DEF Rows, Fresh
<1>7. LedgerOK(imap[s])'
  BY <1>0, <1>3, <1>4, <1>5, <1>6 DEF LedgerOK, Inserting
<1>8. SumFunctionOnSet(size, r.freed \cup (Rows \cap {m}))
        = SumFunctionOnSet(size, r.freed) + SumFunctionOnSet(size, Rows \cap {m})
  <2>1. IsFiniteSet(r.freed) /\ IsFiniteSet(Rows \cap {m}) /\ r.freed \cap (Rows \cap {m}) = {}
    BY <1>5, <1>6, MailsFinite
  <2>2. \A n \in r.freed \cup (Rows \cap {m}) : size[n] \in Nat
    BY <1>0, <1>5, <1>6 DEF Octets
  <2>. QED
    BY <2>1, <2>2, SumUnion
<1>9. /\ SumFunctionOnSet(size, r.freed) \in Nat /\ SumFunctionOnSet(size, Rows \ {m}) \in Nat
      /\ SumFunctionOnSet(size, Rows \cap {m}) \in Nat /\ SumFunctionOnSet(size, {}) = 0
  BY <1>0, <1>5, <1>6, SpaceType, SumEmpty DEF Octets
<1>10. Uncharged(s) = {} /\ Uncharged(s)' = {}
  BY <1>5 DEF Uncharged, Charging
<1>11. /\ Space(Uncharged(s))' = 0 /\ Space(Uncharged(s)) = 0
       /\ Space(Rows)' = SumFunctionOnSet(size, Rows \ {m})
       /\ Space(imap[s].freed)' = SumFunctionOnSet(size, r.freed) + SumFunctionOnSet(size, Rows \cap {m})
       /\ Space(imap[s].freed) = SumFunctionOnSet(size, r.freed)
  BY <1>3, <1>4, <1>8, <1>9, <1>10 DEF Space
<1>12. (used' + Space(Uncharged(s))' + unpaid' + overpaid') + (Space(Rows) + Space(imap[s].freed) + lost + clamped)
         = (Space(Rows)' + Space(imap[s].freed)' + lost' + clamped') + (used + Space(Uncharged(s)) + unpaid + overpaid)
  BY <1>0, <1>2, <1>4, <1>9, <1>11 DEF Octets
<1>13. Octets'
  BY <1>0, <1>2, <1>4 DEF Octets, Mails
<1>. QED
  BY <1>4, <1>7, <1>12, <1>13, BooksFrom

\* ... and is refunded at the end of Expunge().
LEMMA RefundsBalance ==
    ASSUME Shapes, AccountInv, NEW s \in ImapSessions, OnlyImap(s), UNCHANGED pop,
           ExpungeDone(s) \/ DeleteRefund(s)
    PROVE  AccountInv'
<1>. DEFINE r == imap[s]
            q == imap'[s]
            n == SumFunctionOnSet(size, r.freed)
<1>0. /\ DOMAIN r = DOMAIN ImapConnected /\ DOMAIN imap = ImapSessions
      /\ LedgerOK(r) /\ Octets
  BY DEF Shapes, AccountInv
<1>1. r.pc \notin Charging /\ q.freed = {} /\ Unbound(q)
  <2>1. CASE ExpungeDone(s)
    <3>1. r.pc \in Expunging /\ q = Expunged(r)
      BY <1>0, <2>1, ExpungedRecord
    <3>2. q.freed = {} /\ q.then \in {r.then, "ready"} /\ q.pc \in {"ready", "open", "out"}
      <4>. DEFINE d == [r EXCEPT !.freed = {}]
                  e == Deselected(d)
      <4>a. /\ DOMAIN d = DOMAIN ImapConnected /\ d.freed = {} /\ d.then = r.then
            /\ DOMAIN e = DOMAIN ImapConnected /\ e.freed = {} /\ e.then = r.then
        BY <1>0 DEF Deselected, ImapConnected
      <4>b. /\ r.pc = "expunge"  => q = Ready(d)
            /\ r.pc = "close"    => q = Ready(e)
            /\ r.pc = "reselect" => q = [e EXCEPT !.pc = "open"]
            /\ r.pc = "logout"   => q = LoggedOut
        BY <3>1 DEF Expunged
      <4>. HIDE DEF d, e
      <4>1. CASE r.pc = "expunge"
        BY <4>a, <4>b, <4>1, ReadyRecord
      <4>2. CASE r.pc = "close"
        BY <4>a, <4>b, <4>2, ReadyRecord
      <4>3. CASE r.pc = "reselect"
        BY <4>a, <4>b, <4>3 DEF ImapConnected
      <4>4. CASE r.pc = "logout"
        BY <4>b, <4>4 DEF LoggedOut, ImapConnected
      <4>. QED
        BY <3>1, <4>1, <4>2, <4>3, <4>4 DEF Expunging
    <3>. QED
      BY <1>0, <3>1, <3>2 DEF LedgerOK, Unbound, Afterwards, Expunging, Charging, Inserting
  <2>2. CASE DeleteRefund(s)
    <3>1. r.pc = "deleterefund" /\ q.pc = "deletefolder" /\ q.freed = {} /\ q.then = r.then
      BY <1>0, <2>2 DEF DeleteRefund, At, ImapConnected
    <3>. QED
      BY <1>0, <3>1 DEF LedgerOK, Unbound, Charging, Inserting
  <2>. QED
    BY <2>1, <2>2
<1>2. UNCHANGED <<folder, size, unpaid, lost, overpaid>>
  BY DEF ExpungeDone, DeleteRefund, rowVars, ledgerVars
<1>3. Lasting /\ Rows' = Rows /\ Fresh' = Fresh
  BY <1>2, SameRowsLast
<1>4. n \in Nat /\ SumFunctionOnSet(size, {}) = 0 /\ SumFunctionOnSet(size, Rows) \in Nat
  BY <1>0, SpaceType, SumEmpty DEF LedgerOK, Octets, Rows
<1>5. used' \in Nat /\ clamped' \in Nat /\ used + clamped' = used' + clamped + n
  <2>1. CASE r.freed = {} /\ UNCHANGED <<used, clamped>>
    BY <1>0, <1>4, <2>1 DEF Octets
  <2>2. CASE Refund(n)
    BY <1>0, <1>4, <2>2, RefundBooks
  <2>. QED
    BY <2>1, <2>2 DEF ExpungeDone, DeleteRefund, accountVars, Space
<1>6. Uncharged(s) = {} /\ Uncharged(s)' = {}
  BY <1>1 DEF Uncharged, Charging, Unbound
<1>7. /\ Space(Uncharged(s))' = 0 /\ Space(Uncharged(s)) = 0
      /\ Space(Rows)' = Space(Rows) /\ Space(Rows) \in Nat
      /\ Space(imap[s].freed)' = 0 /\ Space(imap[s].freed) = n
  BY <1>1, <1>2, <1>3, <1>4, <1>6 DEF Space
<1>8. (used' + Space(Uncharged(s))' + unpaid' + overpaid') + (Space(Rows) + Space(imap[s].freed) + lost + clamped)
         = (Space(Rows)' + Space(imap[s].freed)' + lost' + clamped') + (used + Space(Uncharged(s)) + unpaid + overpaid)
  <2>. HIDE DEF n
  <2>. QED
    BY <1>0, <1>2, <1>4, <1>5, <1>7 DEF Octets
<1>9. Octets' /\ LedgerOK(imap[s])'
  BY <1>0, <1>1, <1>2, <1>3, <1>5, UnboundLedger, NextLedger DEF Octets, Mails
<1>. QED
  BY <1>3, <1>8, <1>9, BooksFrom

\* An inserted row is to be charged, ...
LEMMA InsertsBalance ==
    ASSUME Shapes, AccountInv, NEW s \in ImapSessions, OnlyImap(s), UNCHANGED pop,
           NEW m, NEW f \in Folders, NEW octets \in Nat, NEW deleted, InsertRow(m, f, octets, deleted),
           UNCHANGED <<used, clamped, unpaid, lost, overpaid>>,
           imap[s].pc \notin Charging, imap[s].freed = {},
           LET q == imap'[s] IN
           /\ q.pc \in Charging /\ q.new = m /\ q.freed = {} /\ q.then = imap[s].then
           /\ q.pc \in Inserting => q.arg \in Folders
    PROVE  AccountInv'
<1>. DEFINE r == imap[s]
            q == imap'[s]
<1>0. LedgerOK(r) /\ Octets
  BY DEF AccountInv
<1>1. /\ Lasting /\ size' \in [Mails -> Nat] /\ {m} \subseteq Mails \ Fresh'
      /\ SumFunctionOnSet(size', Rows') = SumFunctionOnSet(size, Rows) + octets
      /\ SumFunctionOnSet(size', {m}) = octets
  BY <1>0, Inserted
<1>2. LedgerOK(imap[s])'
  BY <1>0, <1>1 DEF LedgerOK, Charging, Expunging
<1>3. Uncharged(s) = {} /\ Uncharged(s)' = {m}
  BY DEF Uncharged, Charging
<1>4. SumFunctionOnSet(size, Rows) \in Nat /\ SumFunctionOnSet(size, {}) = 0 /\ SumFunctionOnSet(size', {}) = 0
  BY <1>0, SpaceType, SumEmpty DEF Octets, Rows
<1>5. /\ Space(Uncharged(s)) = 0 /\ Space(Uncharged(s))' = octets
      /\ Space(Rows)' = Space(Rows) + octets /\ Space(Rows) \in Nat
      /\ Space(imap[s].freed) = 0 /\ Space(imap[s].freed)' = 0
  BY <1>1, <1>3, <1>4 DEF Space
<1>6. (used' + Space(Uncharged(s))' + unpaid' + overpaid') + (Space(Rows) + Space(imap[s].freed) + lost + clamped)
        = (Space(Rows)' + Space(imap[s].freed)' + lost' + clamped') + (used + Space(Uncharged(s)) + unpaid + overpaid)
  BY <1>0, <1>5 DEF Octets
<1>7. Octets'
  BY <1>0, <1>1 DEF Octets, Mails
<1>. QED
  BY <1>1, <1>2, <1>6, <1>7, BooksFrom

\* COPY and APPEND do so for the one row they insert.
LEMMA InsertsKeepBooks ==
    ASSUME Shapes, WantInv, AccountInv, NEW s \in ImapSessions, OnlyImap(s), UNCHANGED pop,
           CopyRow(s) \/ AppendRow(s)
    PROVE  AccountInv'
<1>. DEFINE r == imap[s]
            q == imap'[s]
<1>0. /\ DOMAIN r = DOMAIN ImapConnected /\ DOMAIN imap = ImapSessions /\ LedgerOK(r) /\ Octets
      /\ UNCHANGED <<used, clamped, unpaid, lost, overpaid>>
  BY DEF Shapes, AccountInv, CopyRow, AppendRow, accountVars, ledgerVars
<1>1. CASE CopyRow(s)
  <2>. DEFINE m == Min(r.todo)
              new == Min(Fresh)
  <2>1. r.pc = "copyrow" /\ r.freed = {} /\ r.pc \notin Charging /\ r.arg \in Folders
    BY <1>0, <1>1 DEF CopyRow, At, LedgerOK, Expunging, Charging, Inserting
  <2>2. CASE m \in Rows /\ Fresh # {}
    <3>1. /\ InsertRow(new, r.arg, size[m], m \in flagged)
          /\ imap' = [imap EXCEPT ![s].pc = "copyblob", ![s].new = new]
      BY <1>1, <2>2 DEF CopyRow
    <3>2. size[m] \in Nat
      BY <1>0, <2>2 DEF Octets, Rows
    <3>. HIDE DEF m, new
    <3>3. q.pc = "copyblob" /\ q.new = new /\ q.freed = {} /\ q.then = r.then /\ q.arg = r.arg
      BY <1>0, <2>1, <3>1 DEF ImapConnected
    <3>. QED
      BY <1>0, <2>1, <3>1, <3>2, <3>3, InsertsBalance DEF Charging
  <2>3. CASE ~(m \in Rows /\ Fresh # {})
    <3>1. UNCHANGED rowVars /\ imap' = [imap EXCEPT ![s].pc = "copying", ![s].todo = @ \ {m}]
      BY <1>1, <2>3 DEF CopyRow
    <3>. HIDE DEF m
    <3>2. q.pc = "copying" /\ q.freed = {} /\ q.then = r.then /\ q.arg = r.arg
      BY <1>0, <2>1, <3>1 DEF ImapConnected
    <3>3. LedgerOK(q)
      BY <1>0, <2>1, <3>2 DEF LedgerOK, Charging
    <3>. QED
      BY <1>0, <2>1, <3>1, <3>2, <3>3, BooksQuiet DEF rowVars, Charging
  <2>. QED
    BY <2>2, <2>3
<1>2. CASE AppendRow(s)
  <2>1. /\ r.pc = "appendrow" /\ r.freed = {} /\ r.pc \notin Charging /\ r.arg \in Folders /\ r.octets \in Nat
    BY <1>0, <1>2, MailboxAssumption DEF AppendRow, At, LedgerOK, Expunging, Charging, Inserting
  <2>2. PICK new \in Fresh :
           /\ InsertRow(new, r.arg, r.octets, FALSE)
           /\ imap' = [imap EXCEPT ![s].pc = "appendgeneration", ![s].new = new,
                                   ![s].arg = "none", ![s].octets = 0]
    BY <1>2 DEF AppendRow
  <2>3. q.pc = "appendgeneration" /\ q.new = new /\ q.freed = {} /\ q.then = r.then
    BY <1>0, <2>1, <2>2 DEF ImapConnected
  <2>. QED
    BY <1>0, <2>1, <2>2, <2>3, InsertsBalance DEF Charging, Inserting
<1>. QED
  BY <1>1, <1>2

\* ... and is charged by what it takes.
LEMMA ChargesKeepBooks ==
    ASSUME Shapes, WantInv, AccountInv, NEW s \in ImapSessions, OnlyImap(s), UNCHANGED pop,
           CopyCharge(s) \/ AppendCharge(s)
    PROVE  AccountInv'
<1>. DEFINE r == imap[s]
            q == imap'[s]
<1>0. /\ DOMAIN r = DOMAIN ImapConnected /\ DOMAIN imap = ImapSessions /\ LedgerOK(r) /\ Octets
  BY DEF Shapes, AccountInv
<1>1. /\ used' = used + size[r.new] /\ UNCHANGED <<clamped, unpaid, lost, overpaid, folder, size>>
  BY DEF CopyCharge, AppendCharge, Charge, rowVars, ledgerVars
<1>2. /\ r.pc \in Charging /\ r.freed = {} /\ r.pc \in {"copycharge", "appendcharge"}
  BY <1>0 DEF LedgerOK, CopyCharge, AppendCharge, At, Charging, Expunging
<1>3. /\ q.pc \in {"copying", "appendflags"} /\ q.freed = {} /\ q.then = r.then
      /\ (q.pc = "copying" => q.arg \in Folders)
  BY <1>0, <1>2 DEF CopyCharge, AppendCharge, At, LedgerOK, Inserting, ImapConnected
<1>4. LedgerOK(q)
  BY <1>0, <1>3 DEF LedgerOK, Charging, Inserting
<1>5. Lasting /\ Rows' = Rows /\ Fresh' = Fresh
  BY <1>1, SameRowsLast
<1>6. r.new \in Mails /\ size[r.new] \in Nat /\ Uncharged(s) = {r.new} /\ Uncharged(s)' = {}
  BY <1>0, <1>2, <1>3 DEF LedgerOK, Octets, Uncharged, Charging
<1>7. SumFunctionOnSet(size, Rows) \in Nat /\ SumFunctionOnSet(size, {}) = 0
      /\ SumFunctionOnSet(size, {r.new}) = size[r.new]
  BY <1>0, <1>6, SpaceType, SumEmpty, SumOne DEF Octets, Rows
<1>8. /\ Space(Uncharged(s)) = size[r.new] /\ Space(Uncharged(s))' = 0
      /\ Space(Rows)' = Space(Rows) /\ Space(Rows) \in Nat
      /\ Space(imap[s].freed) = 0 /\ Space(imap[s].freed)' = 0
  BY <1>1, <1>2, <1>3, <1>5, <1>6, <1>7 DEF Space
<1>9. (used' + Space(Uncharged(s))' + unpaid' + overpaid') + (Space(Rows) + Space(imap[s].freed) + lost + clamped)
        = (Space(Rows)' + Space(imap[s].freed)' + lost' + clamped') + (used + Space(Uncharged(s)) + unpaid + overpaid)
  BY <1>0, <1>1, <1>6, <1>8 DEF Octets
<1>10. Octets' /\ LedgerOK(imap[s])'
  BY <1>0, <1>1, <1>4, <1>5, <1>6, NextLedger DEF Octets, Mails
<1>. QED
  BY <1>5, <1>9, <1>10, BooksFrom

\* DeleteFolder refunds what it selected and deletes what there is.
LEMMA DeleteFolderRowsBooks ==
    ASSUME Shapes, AccountInv, NEW s \in ImapSessions, OnlyImap(s), UNCHANGED pop, DeleteFolderRows(s)
    PROVE  AccountInv'
<1>. DEFINE r == imap[s]
            q == imap'[s]
            now == RowsIn(r.arg)
            sum(S) == SumFunctionOnSet(size, S)
<1>0. /\ DOMAIN r = DOMAIN ImapConnected /\ DOMAIN imap = ImapSessions /\ LedgerOK(r) /\ Octets
  BY DEF Shapes, AccountInv
<1>1. /\ r.pc = "deleterows" /\ DeleteRows(now) /\ UNCHANGED <<used, clamped, unpaid>>
      /\ lost' = lost + sum(now \ r.todo) /\ overpaid' = overpaid + sum(r.todo \ now)
  BY DEF DeleteFolderRows, At, accountVars, Space
<1>2. r.todo \subseteq Mails \ Fresh /\ r.arg \in Folders /\ r.freed = {} /\ r.then \in Afterwards
  BY <1>0, <1>1 DEF LedgerOK, Expunging
<1>3. q.pc = "deleterefund" /\ q.freed = r.todo /\ q.then = r.then
  BY <1>0 DEF DeleteFolderRows, ImapConnected
<1>4. now \subseteq Rows /\ Rows \subseteq Mails \ Fresh
  BY <1>2, MailboxAssumption DEF RowsIn, Rows, Fresh
<1>5. /\ Lasting /\ size' = size /\ Fresh' = Fresh /\ Rows' = Rows \ now
      /\ Space(Rows) = SumFunctionOnSet(size, Rows \ now) + SumFunctionOnSet(size, Rows \cap now)
  BY <1>0, <1>1, Deleted
<1>6. LedgerOK(imap[s])'
  BY <1>2, <1>3, <1>5 DEF LedgerOK, Charging, Inserting
<1>. HIDE DEF now
<1>7. ASSUME NEW S \in SUBSET Mails, NEW T \in SUBSET Mails
      PROVE  sum(S) = sum(S \cap T) + sum(S \ T)
  <2>1. /\ IsFiniteSet(S \cap T) /\ IsFiniteSet(S \ T) /\ (S \cap T) \cup (S \ T) = S
        /\ (S \cap T) \cap (S \ T) = {}
    BY MailsFinite
  <2>2. \A n \in (S \cap T) \cup (S \ T) : size[n] \in Nat
    BY <1>0 DEF Octets
  <2>3. sum((S \cap T) \cup (S \ T)) = sum(S \cap T) + sum(S \ T)
    BY <2>1, <2>2, SumUnion
  <2>. QED
    BY <2>1, <2>3
<1>8. /\ sum(now) = sum(now \cap r.todo) + sum(now \ r.todo)
      /\ sum(r.todo) = sum(now \cap r.todo) + sum(r.todo \ now)
  <2>1. now \subseteq Mails /\ r.todo \subseteq Mails /\ r.todo \cap now = now \cap r.todo
    BY <1>2, <1>4
  <2>. QED
    BY <1>7, <2>1
<1>9. \A S \in SUBSET Mails : sum(S) \in Nat
  BY <1>0, SpaceType DEF Octets
<1>10. /\ sum(now) \in Nat /\ sum(r.todo) \in Nat /\ sum(now \cap r.todo) \in Nat
       /\ sum(now \ r.todo) \in Nat /\ sum(r.todo \ now) \in Nat /\ sum(Rows \ now) \in Nat
  BY <1>2, <1>4, <1>9
<1>11. Uncharged(s) = {} /\ Uncharged(s)' = {} /\ sum({}) = 0
  BY <1>1, <1>3, SumEmpty DEF Uncharged
<1>12. Rows \cap now = now
  BY <1>4
<1>13. /\ Space(Uncharged(s)) = 0 /\ Space(Uncharged(s))' = 0
       /\ Space(Rows) = sum(Rows \ now) + sum(now) /\ Space(Rows)' = sum(Rows \ now)
       /\ Space(imap[s].freed) = 0 /\ Space(imap[s].freed)' = sum(r.todo)
  BY <1>2, <1>3, <1>5, <1>11, <1>12 DEF Space
<1>14. (used' + Space(Uncharged(s))' + unpaid' + overpaid') + (Space(Rows) + Space(imap[s].freed) + lost + clamped)
         = (Space(Rows)' + Space(imap[s].freed)' + lost' + clamped') + (used + Space(Uncharged(s)) + unpaid + overpaid)
  <2>. HIDE DEF sum
  <2>. QED
    BY <1>0, <1>1, <1>8, <1>10, <1>13 DEF Octets
<1>15. Octets'
  BY <1>0, <1>1, <1>5, <1>10 DEF Octets, Mails
<1>. QED
  BY <1>5, <1>6, <1>14, <1>15, BooksFrom

\* What a killed session will not refund is lost, what it will not charge unpaid.
LEMMA KilledBooks ==
    ASSUME Shapes, AccountInv, NEW s \in ImapSessions, OnlyImap(s), UNCHANGED pop, ImapKilled(s)
    PROVE  AccountInv'
<1>. DEFINE r == imap[s]
            q == imap'[s]
            freed == SumFunctionOnSet(size, r.freed)
            new == SumFunctionOnSet(size, Uncharged(s))
<1>0. /\ DOMAIN imap = ImapSessions /\ LedgerOK(r) /\ Octets
  BY DEF Shapes, AccountInv
<1>1. /\ q = LoggedOut /\ UNCHANGED <<folder, size, used, clamped, overpaid>>
      /\ lost' = lost + freed /\ unpaid' = unpaid + new
  BY <1>0 DEF ImapKilled, rowVars, accountVars, Space
<1>2. Lasting /\ Rows' = Rows /\ Fresh' = Fresh
  BY <1>1, SameRowsLast
<1>3. freed \in Nat /\ new \in Nat /\ SumFunctionOnSet(size, Rows) \in Nat /\ SumFunctionOnSet(size, {}) = 0
  BY <1>0, UnchargedStored, SpaceType, SumEmpty DEF LedgerOK, Octets, Rows
<1>4. q.freed = {} /\ Unbound(q)
  BY <1>1, LoggedOutUnbound DEF Unbound
<1>5. Uncharged(s)' = {}
  BY <1>4 DEF Unbound, Uncharged, Charging
<1>6. /\ Space(Uncharged(s)) = new /\ Space(Uncharged(s))' = 0
      /\ Space(Rows)' = Space(Rows) /\ Space(Rows) \in Nat
      /\ Space(imap[s].freed) = freed /\ Space(imap[s].freed)' = 0
  BY <1>1, <1>2, <1>3, <1>4, <1>5 DEF Space
<1>7. (used' + Space(Uncharged(s))' + unpaid' + overpaid') + (Space(Rows) + Space(imap[s].freed) + lost + clamped)
        = (Space(Rows)' + Space(imap[s].freed)' + lost' + clamped') + (used + Space(Uncharged(s)) + unpaid + overpaid)
  <2>. HIDE DEF freed, new
  <2>. QED
    BY <1>0, <1>1, <1>3, <1>6 DEF Octets
<1>8. Octets' /\ LedgerOK(imap[s])'
  BY <1>0, <1>1, <1>2, <1>3, <1>4, UnboundLedger, NextLedger DEF Octets, Mails
<1>. QED
  BY <1>2, <1>7, <1>8, BooksFrom

\* Every step of an IMAP session.
LEMMA ImapKeepsBooks ==
    ASSUME Shapes, WantInv, AccountInv, NEW s \in ImapSessions, ImapStep(s), UNCHANGED pop
    PROVE  AccountInv'
<1>0. OnlyImap(s) /\ LedgerOK(imap[s])
  BY ImapAlone DEF AccountInv
<1>1. CASE \/ Begin(s) \/ Login(s) \/ Refused(s) \/ Idle(s) \/ Poll(s) \/ Refresh(s)
           \/ Select(s) \/ Open(s) \/ Opened(s) \/ Status(s) \/ Reread(s) \/ WriteBack(s) \/ Announce(s)
  <2>1. Unbound(imap'[s]) /\ imap[s].freed = {} /\ imap[s].pc \notin Charging
    BY <1>0, <1>1, ListsUnbound
  <2>2. UNCHANGED <<folder, size>>
    <3>1. CASE WriteBack(s)
      BY <3>1, FlagsOnly
    <3>2. CASE ~WriteBack(s)
      BY <1>1, <3>2 DEF Begin, Login, Refused, Idle, Poll, Refresh, Select, Open, Opened, Status, Reread,
         Announce, mailboxVars, rowVars
    <3>. QED
      BY <3>1, <3>2
  <2>3. UNCHANGED <<used, clamped, unpaid, lost, overpaid>>
    BY <1>1 DEF Begin, Login, Refused, Idle, Poll, Refresh, Select, Open, Opened, Status, Reread, WriteBack,
       Announce, mailboxVars, accountVars, ledgerVars
  <2>. QED
    BY <1>0, <2>1, <2>2, <2>3, UnboundLedger, BooksQuiet DEF Unbound
<1>2. CASE \/ Store(s) \/ ExpungeBlob(s) \/ ExpungeGeneration(s)
           \/ Copy(s) \/ CopyCheck(s) \/ CopyBlob(s) \/ CopyGeneration(s)
           \/ AppendCommand(s) \/ AppendGeneration(s) \/ AppendBlob(s) \/ AppendFlags(s)
           \/ Delete(s) \/ DeleteFolder(s) \/ Rename(s) \/ Logout(s) \/ ImapDisconnect(s)
  <2>1. /\ LedgerOK(imap'[s]) /\ imap'[s].freed = imap[s].freed
        /\ imap'[s].pc \in Charging <=> imap[s].pc \in Charging
        /\ imap[s].pc \in Charging => imap'[s].new = imap[s].new
    BY <1>0, <1>2, CommandsKeepBooks
  <2>2. UNCHANGED <<folder, size>>
    <3>1. CASE Store(s) \/ AppendFlags(s)
      BY <3>1, FlagsOnly
    <3>2. CASE ~(Store(s) \/ AppendFlags(s))
      BY <1>2, <3>2 DEF ExpungeBlob, ExpungeGeneration, Copy, CopyCheck, CopyBlob, CopyGeneration,
         AppendCommand, AppendGeneration, AppendBlob, Delete, DeleteFolder, Rename, Logout, ImapDisconnect,
         mailboxVars, rowVars
    <3>. QED
      BY <3>1, <3>2
  <2>3. UNCHANGED <<used, clamped, unpaid, lost, overpaid>>
    BY <1>2 DEF Store, AppendFlags, ExpungeBlob, ExpungeGeneration, Copy, CopyCheck, CopyBlob, CopyGeneration,
       AppendCommand, AppendGeneration, AppendBlob, Delete, DeleteFolder, Rename, Logout, ImapDisconnect,
       mailboxVars, accountVars, ledgerVars
  <2>. QED
    BY <1>0, <2>1, <2>2, <2>3, BooksQuiet
<1>3. CASE ExpungeRow(s)
  BY <1>0, <1>3, ExpungeRowBooks
<1>4. CASE ExpungeDone(s) \/ DeleteRefund(s)
  BY <1>0, <1>4, RefundsBalance
<1>5. CASE CopyRow(s) \/ AppendRow(s)
  BY <1>0, <1>5, InsertsKeepBooks
<1>6. CASE CopyCharge(s) \/ AppendCharge(s)
  BY <1>0, <1>6, ChargesKeepBooks
<1>7. CASE DeleteFolderRows(s)
  BY <1>0, <1>7, DeleteFolderRowsBooks
<1>8. CASE ImapKilled(s)
  BY <1>0, <1>8, KilledBooks
<1>. QED
  BY <1>1, <1>2, <1>3, <1>4, <1>5, <1>6, <1>7, <1>8 DEF ImapStep

-----------------------------------------------------------------------------
(***************************************************************************)
(* The books of POP3 sessions, and the rest of b1gMail.                    *)
(***************************************************************************)

\* What the account says changes as the rows and the books do.
LEMMA BooksAddUp ==
    ASSUME NEW said \in Int, NEW said1 \in Int, NEW rows \in Int, NEW rows1 \in Int,
           NEW mine \in Int, NEW mine1 \in Int, NEW all \in Int, NEW all1 \in Int,
           NEW charge \in Int, NEW gone \in Int, NEW gone1 \in Int,
           all1 + mine = all + mine1, said + charge = rows + all + gone,
           said1 + (rows + mine + gone) = (rows1 + mine1 + gone1) + said
    PROVE  said1 + charge = rows1 + all1 + gone1
OBVIOUS

\* The books of a POP3 step that leaves those of the others alone.
LEMMA PopBooksFrom ==
    ASSUME AccountInv, NEW p \in PopSessions, OnlyPop(p), UNCHANGED imapVars, Lasting, Octets',
           PopLedgerOK(pop[p])',
           (used' + unpaid' + overpaid') + (Space(Rows) + Space(pop[p].freed) + lost + clamped)
             = (Space(Rows)' + Space(pop[p].freed)' + lost' + clamped') + (used + unpaid + overpaid)
    PROVE  AccountInv'
<1>. DEFINE f0 == [q \in PopSessions |-> Space(pop[q].freed)]
            f1 == [q \in PopSessions |-> SumFunctionOnSet(size', pop'[q].freed)]
<1>1. ASSUME NEW q \in PopSessions \ {p} PROVE PopLedgerOK(pop[q])' /\ f1[q] = f0[q]
  <2>1. pop'[q] = pop[q] /\ PopLedgerOK(pop[q])
    BY DEF OnlyPop, AccountInv
  <2>2. PopLedgerOK(pop[q])'
    BY <2>1 DEF PopLedgerOK, Lasting
  <2>. QED
    BY <2>1, <2>2, SpaceLasts DEF Space, PopLedgerOK
<1>2. ASSUME NEW q \in PopSessions PROVE f0[q] \in Nat /\ f1[q] \in Nat
  <2>1. PopLedgerOK(pop[q]) /\ PopLedgerOK(pop[q])'
    BY <1>1 DEF AccountInv
  <2>2. pop[q].freed \subseteq Mails /\ pop'[q].freed \subseteq Mails
    BY <2>1 DEF PopLedgerOK, Mails
  <2>3. size \in [Mails -> Nat] /\ size' \in [Mails -> Nat]
    BY DEF AccountInv, Octets, Mails
  <2>. QED
    BY <2>2, <2>3, SpaceType DEF Space
<1>3. SumFunctionOnSet(f1, PopSessions) + f0[p] = SumFunctionOnSet(f0, PopSessions) + f1[p]
      /\ SumFunctionOnSet(f0, PopSessions) \in Nat /\ SumFunctionOnSet(f1, PopSessions) \in Nat
  <2>. HIDE DEF f0, f1
  <2>. QED
    BY <1>1, <1>2, Pop3Assumption, SumChange, SumType
<1>4. PopRefund = SumFunctionOnSet(f0, PopSessions) /\ PopRefund' = SumFunctionOnSet(f1, PopSessions)
  BY DEF PopRefund, SumFunction, Space
<1>5. /\ ImapRefund' = ImapRefund /\ ImapRefund \in Nat /\ ToCharge' = ToCharge /\ ToCharge \in Nat
      /\ \A s \in ImapSessions : LedgerOK(imap[s])'
  BY ImapSumsLast
<1>6. ToRefund = PopRefund + ImapRefund /\ ToRefund' = PopRefund' + ImapRefund'
  BY DEF ToRefund, PopRefund, ImapRefund
<1>7. Space(Rows) \in Nat /\ Space(Rows)' \in Nat
  BY SpaceType DEF AccountInv, Octets, Rows, Space
<1>8. f0[p] = Space(pop[p].freed) /\ f1[p] = Space(pop[p].freed)' /\ f0[p] \in Nat /\ f1[p] \in Nat
  BY <1>2 DEF Space
<1>9. /\ ToRefund' + Space(pop[p].freed) = ToRefund + Space(pop[p].freed)'
      /\ ToRefund \in Nat /\ ToRefund' \in Nat
      /\ Space(pop[p].freed) \in Nat /\ Space(pop[p].freed)' \in Nat
  <2>. HIDE DEF f0, f1
  <2>1. ImapRefund' = ImapRefund /\ ImapRefund \in Nat
    BY <1>5
  <2>. QED
    BY <1>3, <1>4, <1>6, <1>8, <2>1
<1>10. SpaceAccounted'
  <2>. HIDE DEF f0, f1
  <2>0. /\ used \in Nat /\ clamped \in Nat /\ unpaid \in Nat /\ lost \in Nat /\ overpaid \in Nat
        /\ used' \in Nat /\ clamped' \in Nat /\ unpaid' \in Nat /\ lost' \in Nat /\ overpaid' \in Nat
    BY DEF AccountInv, Octets
  <2>1. used + ToCharge + unpaid + overpaid = Space(Rows) + ToRefund + lost + clamped
    BY DEF AccountInv, SpaceAccounted
  <2>2. used' + ToCharge' + unpaid' + overpaid' = Space(Rows)' + ToRefund' + lost' + clamped'
    <3>. DEFINE said == used + unpaid + overpaid
                gone == lost + clamped
                said1 == used' + unpaid' + overpaid'
                gone1 == lost' + clamped'
    <3>1. ToCharge' = ToCharge /\ ToCharge \in Nat
      BY <1>5
    <3>2. said \in Int /\ gone \in Int /\ said1 \in Int /\ gone1 \in Int
      BY <2>0
    <3>3. said + ToCharge = Space(Rows) + ToRefund + gone
      BY <1>7, <1>9, <2>0, <2>1, <3>1
    <3>4. said1 + (Space(Rows) + Space(pop[p].freed) + gone)
            = (Space(Rows)' + Space(pop[p].freed)' + gone1) + said
      BY <1>7, <1>9, <2>0
    <3>5. said1 + ToCharge = Space(Rows)' + ToRefund' + gone1
      <4>. HIDE DEF said, gone, said1, gone1
      <4>. QED
        BY <1>7, <1>9, <3>1, <3>2, <3>3, <3>4, BooksAddUp
    <3>. QED
      BY <1>7, <1>9, <2>0, <3>1, <3>5
  <2>. QED
    BY <2>2 DEF SpaceAccounted
<1>. QED
  BY <1>1, <1>5, <1>10 DEF AccountInv

\* Every step of a POP3 session.
LEMMA PopKeepsBooks ==
    ASSUME Shapes, AccountInv, NEW p \in PopSessions, PopStep(p), UNCHANGED imapVars
    PROVE  AccountInv'
<1>. DEFINE r == pop[p]
            q == pop'[p]
            freed == SumFunctionOnSet(size, r.freed)
<1>0. /\ DOMAIN r = DOMAIN PopConnected /\ DOMAIN pop = PopSessions /\ PopLedgerOK(r) /\ Octets /\ OnlyPop(p)
  BY PopAlone DEF Shapes, AccountInv
<1>a. /\ freed \in Nat /\ SumFunctionOnSet(size, Rows) \in Nat /\ SumFunctionOnSet(size, {}) = 0
      /\ Space(r.freed) = freed
  BY <1>0, SpaceType, SumEmpty DEF PopLedgerOK, Octets, Rows, Space
<1>1. CASE \/ User(p) \/ Redirect(p) \/ PassOk(p) \/ PassFails(p) \/ Dele(p) \/ Rset(p) \/ Quit(p)
           \/ QuitBlob(p) \/ QuitGeneration(p) \/ PopDisconnect(p)
  <2>1. UNCHANGED <<folder, size, used, clamped, unpaid, lost, overpaid>>
    <3>. USE DEF mailboxVars, rowVars, accountVars, ledgerVars
    <3>1. CASE User(p) \/ Redirect(p) \/ PassOk(p) \/ PassFails(p) \/ Dele(p) \/ Rset(p) \/ PopDisconnect(p)
      BY <3>1 DEF User, Redirect, PassOk, PassFails, Dele, Rset, PopDisconnect
    <3>2. CASE Quit(p) \/ QuitBlob(p) \/ QuitGeneration(p)
      BY <3>2 DEF Quit, QuitBlob, QuitGeneration
    <3>. QED
      BY <1>1, <3>1, <3>2
  <2>2. q.freed = r.freed /\ (q.state \notin {"quit", "row"} => r.state \notin {"quit", "row"})
    <3>1. CASE User(p) \/ Redirect(p) \/ PassOk(p) \/ PassFails(p)
      <4>1. CASE User(p)
        BY <1>0, <4>1 DEF User, PopLedgerOK, PopConnected
      <4>2. CASE Redirect(p)
        BY <1>0, <4>2 DEF Redirect, PopLedgerOK, PopEnded, PopConnected
      <4>3. CASE PassOk(p)
        BY <1>0, <4>3 DEF PassOk, PopLedgerOK, PopConnected
      <4>4. CASE PassFails(p)
        BY <1>0, <4>4 DEF PassFails, PopLedgerOK, PopEnded, PopConnected
      <4>. QED
        BY <3>1, <4>1, <4>2, <4>3, <4>4
    <3>2. CASE Dele(p)
      <4>1. PICK n \in DOMAIN r.msgs :
               pop' = [pop EXCEPT ![p].dele = @ \cup {n}, ![p].count = @ + 1,
                                  ![p].octets = @ + size[pop[p].msgs[n]], ![p].marks = @ + 1]
        BY <3>2 DEF Dele
      <4>. QED
        BY <1>0, <3>2, <4>1 DEF Dele, PopLedgerOK, PopConnected
    <3>3. CASE Rset(p)
      BY <1>0, <3>3 DEF Rset, PopLedgerOK, PopConnected
    <3>4. CASE Quit(p)
      <4>1. CASE r.state = "authorization" /\ pop' = [pop EXCEPT ![p] = PopEnded]
        BY <1>0, <4>1 DEF PopLedgerOK, PopEnded, PopConnected
      <4>2. CASE r.state = "transaction" /\ pop' = [pop EXCEPT ![p].state = "quit"]
        BY <1>0, <4>2 DEF PopLedgerOK, PopConnected
      <4>. QED
        BY <3>4, <4>1, <4>2 DEF Quit
    <3>5. CASE QuitBlob(p)
      BY <1>0, <3>5 DEF QuitBlob, PopLedgerOK, PopConnected
    <3>6. CASE QuitGeneration(p) \/ PopDisconnect(p)
      BY <1>0, <3>6 DEF QuitGeneration, PopDisconnect, PopLedgerOK, PopEnded, PopConnected
    <3>. QED
      BY <1>1, <3>1, <3>2, <3>3, <3>4, <3>5, <3>6
  <2>3. Lasting /\ Rows' = Rows /\ Fresh' = Fresh
    BY <2>1, SameRowsLast
  <2>4. PopLedgerOK(pop[p])' /\ Octets'
    BY <1>0, <2>1, <2>2, <2>3 DEF PopLedgerOK, Octets, Mails
  <2>5. Space(Rows)' = Space(Rows) /\ Space(pop[p].freed)' = freed /\ Space(Rows) \in Nat
    BY <1>a, <2>1, <2>2, <2>3 DEF Space
  <2>6. (used' + unpaid' + overpaid') + (Space(Rows) + Space(pop[p].freed) + lost + clamped)
             = (Space(Rows)' + Space(pop[p].freed)' + lost' + clamped') + (used + unpaid + overpaid)
    <3>. HIDE DEF freed
    <3>. QED
      BY <1>0, <1>a, <2>1, <2>5 DEF Octets
  <2>. QED
    BY <1>0, <2>3, <2>4, <2>6, PopBooksFrom
<1>2. CASE QuitRow(p)
  <2>. DEFINE m == r.msgs[r.pos]
  <2>1. /\ DeleteRows({m}) /\ r.state = "row" /\ q.state = "quit" /\ q.freed = r.freed \cup ({m} \cap Rows)
        /\ UNCHANGED <<used, clamped, unpaid, lost, overpaid>>
    BY <1>0, <1>2 DEF QuitRow, accountVars, ledgerVars, PopConnected
  <2>. HIDE DEF m
  <2>2. /\ Lasting /\ size' = size /\ Fresh' = Fresh /\ Rows' = Rows \ {m}
        /\ Space(Rows) = SumFunctionOnSet(size, Rows \ {m}) + SumFunctionOnSet(size, Rows \cap {m})
    BY <1>0, <2>1, Deleted
  <2>3. Rows \subseteq Mails \ Fresh /\ r.freed \subseteq Mails \ Fresh /\ r.freed \cap Rows = {}
    BY <1>0, MailboxAssumption DEF Rows, Fresh, PopLedgerOK
  <2>4. PopLedgerOK(pop[p])' /\ Octets'
    BY <1>0, <2>1, <2>2, <2>3 DEF PopLedgerOK, Octets, Mails
  <2>5. SumFunctionOnSet(size, r.freed \cup (Rows \cap {m})) = freed + SumFunctionOnSet(size, Rows \cap {m})
    <3>1. IsFiniteSet(r.freed) /\ IsFiniteSet(Rows \cap {m}) /\ r.freed \cap (Rows \cap {m}) = {}
      BY <2>3, MailsFinite
    <3>2. \A n \in r.freed \cup (Rows \cap {m}) : size[n] \in Nat
      BY <1>0, <2>3 DEF Octets
    <3>. QED
      BY <3>1, <3>2, SumUnion
  <2>6. SumFunctionOnSet(size, Rows \ {m}) \in Nat /\ SumFunctionOnSet(size, Rows \cap {m}) \in Nat
    BY <1>0, <2>3, SpaceType DEF Octets
  <2>7. /\ Space(Rows)' = SumFunctionOnSet(size, Rows \ {m})
        /\ Space(pop[p].freed)' = freed + SumFunctionOnSet(size, Rows \cap {m})
    BY <2>1, <2>2, <2>5 DEF Space
  <2>8. (used' + unpaid' + overpaid') + (Space(Rows) + Space(pop[p].freed) + lost + clamped)
             = (Space(Rows)' + Space(pop[p].freed)' + lost' + clamped') + (used + unpaid + overpaid)
    <3>. HIDE DEF freed
    <3>. QED
      BY <1>0, <1>a, <2>1, <2>2, <2>6, <2>7 DEF Octets
  <2>. QED
    BY <1>0, <2>2, <2>4, <2>8, PopBooksFrom
<1>3. CASE QuitRefund(p)
  <2>1. /\ q.freed = {} /\ q.state \in {"closed", "generation"} /\ UNCHANGED <<folder, size, unpaid, lost, overpaid>>
    BY <1>3, Refunding DEF QuitRefund, rowVars, ledgerVars
  <2>2. used' \in Nat /\ clamped' \in Nat /\ used + clamped' = used' + clamped + freed
    <3>1. CASE r.freed = {} /\ UNCHANGED <<used, clamped>>
      BY <1>0, <1>a, <3>1 DEF Octets
    <3>2. CASE Refund(freed)
      BY <1>0, <1>a, <3>2, RefundBooks
    <3>. QED
      BY <1>3, <3>1, <3>2 DEF QuitRefund, accountVars, Space
  <2>3. Lasting /\ Rows' = Rows /\ Fresh' = Fresh
    BY <2>1, SameRowsLast
  <2>4. PopLedgerOK(pop[p])' /\ Octets'
    BY <1>0, <2>1, <2>2, <2>3 DEF PopLedgerOK, Octets, Mails
  <2>5. Space(Rows)' = Space(Rows) /\ Space(pop[p].freed)' = 0 /\ Space(Rows) \in Nat
    BY <1>a, <2>1, <2>3 DEF Space
  <2>6. (used' + unpaid' + overpaid') + (Space(Rows) + Space(pop[p].freed) + lost + clamped)
             = (Space(Rows)' + Space(pop[p].freed)' + lost' + clamped') + (used + unpaid + overpaid)
    <3>. HIDE DEF freed
    <3>. QED
      BY <1>0, <1>a, <2>1, <2>2, <2>5 DEF Octets
  <2>. QED
    BY <1>0, <2>3, <2>4, <2>6, PopBooksFrom
<1>4. CASE PopKilled(p)
  <2>1. /\ q.freed = {} /\ q.state = "closed" /\ lost' = lost + freed
        /\ UNCHANGED <<folder, size, used, clamped, unpaid, overpaid>>
    BY <1>0, <1>4 DEF PopKilled, rowVars, accountVars, Space, PopEnded, PopConnected
  <2>2. Lasting /\ Rows' = Rows /\ Fresh' = Fresh
    BY <2>1, SameRowsLast
  <2>3. PopLedgerOK(pop[p])' /\ Octets'
    BY <1>0, <1>a, <2>1, <2>2 DEF PopLedgerOK, Octets, Mails
  <2>4. Space(Rows)' = Space(Rows) /\ Space(pop[p].freed)' = 0 /\ Space(Rows) \in Nat
    BY <1>a, <2>1, <2>2 DEF Space
  <2>5. (used' + unpaid' + overpaid') + (Space(Rows) + Space(pop[p].freed) + lost + clamped)
             = (Space(Rows)' + Space(pop[p].freed)' + lost' + clamped') + (used + unpaid + overpaid)
    <3>. HIDE DEF freed
    <3>. QED
      BY <1>0, <1>a, <2>1, <2>4 DEF Octets
  <2>. QED
    BY <1>0, <2>2, <2>3, <2>5, PopBooksFrom
<1>. QED
  BY <1>1, <1>2, <1>3, <1>4 DEF PopStep

\* A delivered message is charged at once, a moved one keeps its size.
LEMMA OutsideKeepsBooks ==
    ASSUME Shapes, AccountInv, Outside, UNCHANGED <<pop, imapVars>>
    PROVE  AccountInv'
<1>0. Octets /\ SumFunctionOnSet(size, Rows) \in Nat /\ UNCHANGED <<clamped, unpaid, lost, overpaid>>
  BY SpaceType DEF AccountInv, Octets, Rows, Outside, Delivered, Moved, Charge, accountVars, ledgerVars
<1>1. PICK n \in Nat : Lasting /\ size' \in [Mails -> Nat] /\ used' = used + n /\ Space(Rows)' = Space(Rows) + n
  <2>1. CASE Delivered
    <3>1. PICK m \in Fresh, n \in Sizes : InsertRow(m, Inbox, n, FALSE) /\ used' = used + n
      BY <2>1 DEF Delivered, Charge
    <3>2. n \in Nat /\ Inbox \in Folders
      BY MailboxAssumption
    <3>3. /\ Lasting /\ size' \in [Mails -> Nat]
          /\ SumFunctionOnSet(size', Rows') = SumFunctionOnSet(size, Rows) + n
      BY <1>0, <3>1, <3>2, Inserted
    <3>. QED
      BY <3>1, <3>2, <3>3 DEF Space
  <2>2. CASE Moved
    <3>1. PICK m \in Rows, f \in Folders : folder' = [folder EXCEPT ![m] = f]
      BY <2>2 DEF Moved
    <3>2. UNCHANGED <<size, used>>
      BY <2>2 DEF Moved, accountVars
    <3>3. Rows' = Rows /\ Fresh' = Fresh
      BY <3>1, MailboxAssumption DEF Rows, Fresh, Shapes
    <3>4. Lasting
      BY <3>2, <3>3 DEF Lasting
    <3>5. Space(Rows)' = Space(Rows) + 0 /\ used' = used + 0
      BY <1>0, <3>2, <3>3 DEF Space, Octets
    <3>. QED
      BY <1>0, <3>2, <3>4, <3>5 DEF Octets
  <2>. QED
    BY <2>1, <2>2 DEF Outside
<1>2. /\ PopRefund' = PopRefund /\ PopRefund \in Nat /\ \A p \in PopSessions : PopLedgerOK(pop[p])'
      /\ ImapRefund' = ImapRefund /\ ImapRefund \in Nat /\ ToCharge' = ToCharge /\ ToCharge \in Nat
      /\ \A s \in ImapSessions : LedgerOK(imap[s])'
  BY <1>1, PopSumLasts, ImapSumsLast
<1>3. ToRefund = PopRefund + ImapRefund /\ ToRefund' = PopRefund' + ImapRefund'
  BY DEF ToRefund, PopRefund, ImapRefund
<1>4. Space(Rows) \in Nat
  BY <1>0 DEF Space
<1>5. Octets'
  BY <1>0, <1>1 DEF Octets, Mails
<1>6. SpaceAccounted'
  <2>1. used + ToCharge + unpaid + overpaid = Space(Rows) + ToRefund + lost + clamped
    BY DEF AccountInv, SpaceAccounted
  <2>2. used' + ToCharge' + unpaid' + overpaid' = Space(Rows)' + ToRefund' + lost' + clamped'
    BY <1>0, <1>1, <1>2, <1>3, <1>4, <2>1 DEF Octets
  <2>. QED
    BY <2>2 DEF SpaceAccounted
<1>. QED
  BY <1>2, <1>5, <1>6 DEF AccountInv

\* At the start everything is charged and nobody has anything in hand.
LEMMA BooksStart == Init => AccountInv
<1>. SUFFICES ASSUME Init PROVE AccountInv
  OBVIOUS
<1>1. ASSUME NEW s \in ImapSessions PROVE LedgerOK(imap[s]) /\ imap[s].freed = {} /\ Uncharged(s) = {}
  BY DEF Init, ImapInit, ImapConnected, LedgerOK, Uncharged, Afterwards, Expunging, Charging, Inserting
<1>2. ASSUME NEW p \in PopSessions PROVE PopLedgerOK(pop[p]) /\ pop[p].freed = {}
  BY DEF Init, PopInit, PopConnected, PopLedgerOK
<1>3. Octets
  <2>1. size \in [Mails -> Nat]
    BY MailboxAssumption DEF Init, MailboxInit
  <2>2. SumFunctionOnSet(size, Rows) \in Nat
    BY <2>1, SpaceType DEF Rows
  <2>. QED
    BY <2>1, <2>2 DEF Octets, Init, MailboxInit, Space
<1>4. ImapRefund = 0 /\ ToCharge = 0 /\ PopRefund = 0
  <2>1. Space({}) = 0
    BY SumEmpty DEF Space
  <2>. DEFINE f == [s \in ImapSessions |-> Space(imap[s].freed)]
              c == [s \in ImapSessions |-> Space(Uncharged(s))]
              g == [p \in PopSessions |-> Space(pop[p].freed)]
  <2>2. /\ \A s \in ImapSessions : f[s] = 0 /\ c[s] = 0
        /\ \A p \in PopSessions : g[p] = 0
    BY <1>1, <1>2, <2>1
  <2>3. ImapRefund = SumFunctionOnSet(f, ImapSessions) /\ ToCharge = SumFunctionOnSet(c, ImapSessions)
        /\ PopRefund = SumFunctionOnSet(g, PopSessions)
    BY DEF ImapRefund, PopRefund, ToCharge, SumFunction
  <2>. HIDE DEF f, g, c
  <2>. QED
    BY <2>2, <2>3, SumZero, ImapAssumption, Pop3Assumption
<1>5. SpaceAccounted
  <2>1. ToRefund = PopRefund + ImapRefund
    BY DEF ToRefund, PopRefund, ImapRefund
  <2>2. used = Space(Rows) /\ unpaid = 0 /\ lost = 0 /\ clamped = 0 /\ overpaid = 0
    BY DEF Init, MailboxInit
  <2>. QED
    BY <1>3, <1>4, <2>1, <2>2 DEF Octets, SpaceAccounted
<1>. QED
  BY <1>1, <1>2, <1>3, <1>5 DEF AccountInv

\* AccountInv is inductive.
LEMMA BooksStep ==
    ASSUME Shapes, WantInv, AccountInv, [Next]_vars
    PROVE  AccountInv'
<1>1. CASE Outside /\ UNCHANGED <<pop, imapVars>>
  BY <1>1, OutsideKeepsBooks
<1>2. ASSUME NEW p \in PopSessions, PopStep(p), UNCHANGED imapVars PROVE AccountInv'
  BY <1>2, PopKeepsBooks
<1>3. ASSUME NEW s \in ImapSessions, ImapStep(s), UNCHANGED pop PROVE AccountInv'
  BY <1>3, ImapKeepsBooks
<1>4. CASE UNCHANGED vars
  <2>1. UNCHANGED <<folder, size, used, clamped, unpaid, lost, overpaid, pop, imapVars>>
    BY <1>4 DEF vars, mailboxVars, rowVars, accountVars, ledgerVars
  <2>2. Lasting /\ Rows' = Rows
    BY <2>1, SameRowsLast
  <2>3. /\ PopRefund' = PopRefund /\ \A p \in PopSessions : PopLedgerOK(pop[p])'
        /\ ImapRefund' = ImapRefund /\ ToCharge' = ToCharge
        /\ \A s \in ImapSessions : LedgerOK(imap[s])'
    BY <2>1, <2>2, PopSumLasts, ImapSumsLast
  <2>4. ToRefund' = ToRefund
    BY <2>3 DEF ToRefund, PopRefund, ImapRefund
  <2>5. SpaceAccounted' /\ Octets'
    BY <2>1, <2>2, <2>3, <2>4 DEF AccountInv, SpaceAccounted, Octets, Space, Mails
  <2>. QED
    BY <2>3, <2>5 DEF AccountInv
<1>. QED
  BY <1>1, <1>2, <1>3, <1>4 DEF Next

\* mailspace_used is the size of the rows there are, whoever deletes the same message at
\* the same time and whatever is copied, stored or moved meanwhile, but for what killed
\* sessions did not charge or refund, what LEAST clamped and what DeleteFolder counted
\* before it deleted.
THEOREM MailSpaceAccounted == Spec => []SpaceAccounted
<1>1. Shapes /\ WantInv /\ AccountInv /\ [Next]_vars => (Shapes /\ WantInv /\ AccountInv)'
  BY WishesStep, BooksStep
<1>2. AccountInv => SpaceAccounted
  BY DEF AccountInv
<1>. QED
  BY <1>1, <1>2, WishesStart, BooksStart, PTL DEF Spec

-----------------------------------------------------------------------------
(***************************************************************************)
(* What POP3 says of a session's list.                                     *)
(***************************************************************************)

\* The other steps of IMAP sessions leave rows alone, but for flags.
LEMMA ImapSparesRows ==
    ASSUME NEW s \in ImapSessions, ImapStep(s), ~(ExpungeRow(s) \/ DeleteFolderRows(s) \/ CopyRow(s)
           \/ AppendRow(s) \/ Store(s) \/ AppendFlags(s) \/ WriteBack(s))
    PROVE  UNCHANGED <<folder, size>>
<1>1. CASE \/ Begin(s) \/ Login(s) \/ Refused(s) \/ Idle(s) \/ Poll(s) \/ Refresh(s)
           \/ Select(s) \/ Open(s) \/ Opened(s) \/ Status(s) \/ Reread(s) \/ Announce(s)
  BY <1>1 DEF Begin, Login, Refused, Idle, Poll, Refresh, Select, Open, Opened, Status, Reread,
     Announce, mailboxVars, rowVars
<1>2. CASE \/ ExpungeBlob(s) \/ ExpungeGeneration(s) \/ ExpungeDone(s)
           \/ Logout(s) \/ ImapDisconnect(s) \/ ImapKilled(s)
  BY <1>2 DEF ExpungeBlob, ExpungeGeneration, ExpungeDone, Logout, ImapDisconnect, ImapKilled,
     mailboxVars, rowVars
<1>3. CASE Copy(s)
  BY <1>3 DEF Copy, mailboxVars, rowVars
<1>4. CASE CopyCheck(s)
  BY <1>4 DEF CopyCheck, mailboxVars, rowVars
<1>5. CASE CopyBlob(s)
  BY <1>5 DEF CopyBlob, mailboxVars, rowVars
<1>6. CASE CopyGeneration(s) \/ CopyCharge(s)
  BY <1>6 DEF CopyGeneration, CopyCharge, mailboxVars, rowVars
<1>7. CASE AppendCommand(s)
  BY <1>7 DEF AppendCommand, mailboxVars, rowVars
<1>8. CASE AppendGeneration(s) \/ AppendBlob(s)
  BY <1>8 DEF AppendGeneration, AppendBlob, mailboxVars, rowVars
<1>9. CASE AppendCharge(s)
  BY <1>9 DEF AppendCharge, mailboxVars, rowVars
<1>10. CASE Delete(s)
  BY <1>10 DEF Delete, mailboxVars, rowVars
<1>11. CASE DeleteRefund(s) \/ DeleteFolder(s)
  BY <1>11 DEF DeleteRefund, DeleteFolder, mailboxVars, rowVars
<1>12. CASE Rename(s)
  BY <1>12 DEF Rename, mailboxVars, rowVars
<1>. QED
  BY <1>1, <1>2, <1>3, <1>4, <1>5, <1>6, <1>7, <1>8, <1>9, <1>10, <1>11, <1>12 DEF ImapStep

\* Rows keep their sizes and deleted ones do not come back, whoever takes a step.
LEMMA StepLasts ==
    ASSUME Shapes, AccountInv, [Next]_vars
    PROVE  Lasting
<1>0. Octets
  BY DEF AccountInv
<1>. USE DEF mailboxVars, rowVars
<1>1. CASE Outside
  <2>1. CASE Delivered
    <3>1. PICK m \in Fresh, n \in Sizes : InsertRow(m, Inbox, n, FALSE)
      BY <2>1 DEF Delivered
    <3>. QED
      BY <1>0, <3>1, Inserted, MailboxAssumption
  <2>2. CASE Moved
    <3>1. PICK m \in Rows, f \in Folders : folder' = [folder EXCEPT ![m] = f]
      BY <2>2 DEF Moved
    <3>2. Rows' = Rows /\ Fresh' = Fresh /\ size' = size
      BY <2>2, <3>1, MailboxAssumption DEF Moved, Rows, Fresh, Shapes
    <3>. QED
      BY <3>2 DEF Lasting
  <2>. QED
    BY <1>1, <2>1, <2>2 DEF Outside
<1>2. ASSUME NEW p \in PopSessions, PopStep(p) PROVE Lasting
  <2>1. CASE QuitRow(p)
    <3>. DEFINE m == pop[p].msgs[pop[p].pos]
    <3>1. DeleteRows({m})
      BY <2>1 DEF QuitRow
    <3>. HIDE DEF m
    <3>. QED
      BY <1>0, <3>1, Deleted
  <2>2. CASE User(p) \/ Redirect(p) \/ PassOk(p) \/ PassFails(p) \/ Dele(p) \/ Rset(p) \/ PopDisconnect(p)
    BY <2>2, SameRowsLast DEF User, Redirect, PassOk, PassFails, Dele, Rset, PopDisconnect
  <2>3. CASE Quit(p) \/ QuitBlob(p) \/ QuitRefund(p) \/ QuitGeneration(p) \/ PopKilled(p)
    BY <2>3, SameRowsLast DEF Quit, QuitBlob, QuitRefund, QuitGeneration, PopKilled
  <2>. QED
    BY <1>2, <2>1, <2>2, <2>3 DEF PopStep
<1>3. ASSUME NEW s \in ImapSessions, ImapStep(s) PROVE Lasting
  <2>0. LedgerOK(imap[s])
    BY DEF AccountInv
  <2>1. CASE ExpungeRow(s) \/ DeleteFolderRows(s)
    BY <1>0, <2>1, Deleted DEF ExpungeRow, DeleteFolderRows
  <2>2. CASE CopyRow(s)
    <3>1. CASE Min(imap[s].todo) \in Rows /\ Fresh # {}
      <4>. DEFINE m == Min(imap[s].todo)
                  new == Min(Fresh)
      <4>1. InsertRow(new, imap[s].arg, size[m], m \in flagged) /\ imap[s].pc = "copyrow"
        BY <2>2, <3>1 DEF CopyRow, At
      <4>2. size[m] \in Nat /\ imap[s].arg \in Folders
        BY <1>0, <2>0, <3>1, <4>1 DEF Octets, Rows, LedgerOK, Inserting
      <4>. HIDE DEF m, new
      <4>. QED
        BY <1>0, <4>1, <4>2, Inserted
    <3>2. CASE ~(Min(imap[s].todo) \in Rows /\ Fresh # {})
      BY <2>2, <3>2, SameRowsLast DEF CopyRow
    <3>. QED
      BY <3>1, <3>2
  <2>3. CASE AppendRow(s)
    <3>1. imap[s].arg \in Folders /\ imap[s].octets \in Nat
      BY <2>0, <2>3, MailboxAssumption DEF AppendRow, At, LedgerOK, Inserting
    <3>2. PICK new \in Fresh : InsertRow(new, imap[s].arg, imap[s].octets, FALSE)
      BY <2>3 DEF AppendRow
    <3>. QED
      BY <1>0, <3>1, <3>2, Inserted
  <2>4. CASE Store(s) \/ AppendFlags(s) \/ WriteBack(s)
    BY <2>4, FlagsOnly, SameRowsLast
  <2>5. CASE ~(\/ ExpungeRow(s) \/ DeleteFolderRows(s) \/ CopyRow(s) \/ AppendRow(s)
               \/ Store(s) \/ AppendFlags(s) \/ WriteBack(s))
    BY <1>3, <2>5, ImapSparesRows, SameRowsLast
  <2>. QED
    BY <2>1, <2>2, <2>3, <2>4, <2>5
<1>4. CASE UNCHANGED vars
  BY <1>4, SameRowsLast DEF vars
<1>. QED
  BY <1>1, <1>2, <1>3, <1>4 DEF Next

\* What the members of a sequence say of the sequence.
LEMMA SeqOfMore ==
    ASSUME NEW S, NEW T, NEW l \in Seq(S), \A k \in DOMAIN l : l[k] \in T
    PROVE  l \in Seq(T)
<1>1. Len(l) \in Nat /\ DOMAIN l = 1..Len(l) /\ l = [k \in 1..Len(l) |-> l[k]]
  OBVIOUS
<1>. QED
  BY <1>1

\* A message list is a list of numbers.
LEMMA ListPlaces ==
    ASSUME NEW l \in Seq(Mails \ Fresh)
    PROVE  /\ l \in Seq(Nat) /\ Len(l) \in Nat /\ DOMAIN l = 1..Len(l)
           /\ \A k \in DOMAIN l : l[k] \in Mails
<1>1. \A k \in DOMAIN l : l[k] \in Mails /\ l[k] \in Nat
  BY DEF Mails
<1>2. l \in Seq(Nat)
  BY <1>1, SeqOfMore
<1>. QED
  BY <1>1, <1>2

\* Different places of an ascending list have different messages.
LEMMA PlacesCount ==
    ASSUME NEW l \in Seq(Nat), Ascends(l), NEW K \in SUBSET (DOMAIN l)
    PROVE  /\ IsFiniteSet(K) /\ Cardinality({l[k] : k \in K}) = Cardinality(K)
           /\ \A i, j \in DOMAIN l : l[i] = l[j] => i = j
<1>. DEFINE T == {l[k] : k \in K}
            f == [k \in K |-> l[k]]
<1>0. Len(l) \in Nat /\ DOMAIN l = 1..Len(l) /\ \A i \in DOMAIN l : l[i] \in Nat
  OBVIOUS
<1>1. \A i, j \in DOMAIN l : l[i] = l[j] => i = j
  <2>. SUFFICES ASSUME NEW i \in DOMAIN l, NEW j \in DOMAIN l, l[i] = l[j], i # j PROVE FALSE
    OBVIOUS
  <2>1. (i < j => l[i] < l[j]) /\ (j < i => l[j] < l[i]) /\ (i < j \/ j < i)
    BY <1>0 DEF Ascends
  <2>. QED
    BY <1>0, <2>1
<1>2. IsFiniteSet(K)
  <2>1. IsFiniteSet(1..Len(l))
    BY <1>0, FS_Interval
  <2>. QED
    BY <1>0, <2>1, FS_Subset
<1>3. f \in [K -> T] /\ (\A a, b \in K : f[a] = f[b] => a = b) /\ \A t \in T : \E k \in K : f[k] = t
  BY <1>1
<1>4. f \in Bijection(K, T)
  <2>. HIDE DEF f, T
  <2>. QED
    BY <1>3 DEF Bijection, Injection, Surjection, IsInjective
<1>5. ExistsBijection(K, T)
  BY <1>4 DEF ExistsBijection
<1>. QED
  BY <1>1, <1>2, <1>5, FS_Bijection

\* The marks are places of the list, which has stored messages in ascending order;
\* iDele counts them; iDropSize and iDeleteSize are the space of all and of the marked.
TotalsOK(r) == r.state = "transaction" =>
    /\ r.msgs \in Seq(Mails \ Fresh) /\ Ascends(r.msgs) /\ r.dele \subseteq DOMAIN r.msgs
    /\ r.count  = Cardinality(r.dele)
    /\ r.octets = Space({r.msgs[n] : n \in r.dele})
    /\ r.drop   = Space(ToSet(r.msgs))

TotalsInv == \A p \in PopSessions : TotalsOK(pop[p])

\* They stay right when rows come and go.
LEMMA TotalsLast ==
    ASSUME Lasting, NEW p \in PopSessions, TotalsOK(pop[p]), pop'[p] = pop[p]
    PROVE  TotalsOK(pop[p])'
<1>. DEFINE r == pop[p]
<1>. SUFFICES ASSUME r.state = "transaction" PROVE TotalsOK(r)'
  BY DEF TotalsOK
<1>1. /\ r.msgs \in Seq(Mails \ Fresh) /\ Ascends(r.msgs) /\ r.dele \subseteq DOMAIN r.msgs
      /\ r.count = Cardinality(r.dele)
      /\ r.octets = Space({r.msgs[n] : n \in r.dele}) /\ r.drop = Space(ToSet(r.msgs))
  BY DEF TotalsOK
<1>2. \A n \in DOMAIN r.msgs : r.msgs[n] \in Mails \ Fresh
  BY <1>1
<1>3. {r.msgs[n] : n \in r.dele} \subseteq Mails \ Fresh /\ ToSet(r.msgs) \subseteq Mails \ Fresh
  BY <1>1, <1>2 DEF ToSet
<1>4. /\ SumFunctionOnSet(size', {r.msgs[n] : n \in r.dele}) = Space({r.msgs[n] : n \in r.dele})
      /\ SumFunctionOnSet(size', ToSet(r.msgs)) = Space(ToSet(r.msgs))
  BY <1>3, SpaceLasts DEF Space
<1>5. r.msgs \in Seq(Mails \ Fresh')
  <2>1. \A n \in DOMAIN r.msgs : r.msgs[n] \in Mails \ Fresh'
    BY <1>2 DEF Lasting
  <2>. QED
    BY <1>1, <2>1, SeqOfMore
<1>. QED
  BY <1>1, <1>4, <1>5 DEF TotalsOK, Space, Mails

\* PASS reads rows of the table in order and adds their sizes up.
LEMMA PassTotals ==
    ASSUME Shapes, NEW p \in PopSessions, PassOk(p)
    PROVE  TotalsOK(pop'[p])
<1>. DEFINE S == UNION {RowsIn(f) : f \in PopFolders}
            l == InOrder(S)
            q == pop'[p]
<1>1. S \subseteq Mails \ Fresh /\ S \subseteq Mails
  BY Pop3Assumption, MailboxAssumption DEF RowsIn, Fresh
<1>2. S \in SUBSET Nat /\ IsFiniteSet(S)
  BY <1>1, MailsFinite DEF Mails
<1>3. q.msgs = l /\ q.drop = Space(ToSet(l)) /\ q.dele = {} /\ q.count = 0 /\ q.octets = 0
  BY DEF PassOk, DropList, Shapes, PopConnected
<1>. HIDE DEF S, l, q
<1>4. l \in Seq(S) /\ Ascends(l)
  BY <1>2, InOrderSorts DEF l
<1>5. l \in Seq(Mails \ Fresh)
  <2>1. \A n \in DOMAIN l : l[n] \in Mails \ Fresh
    BY <1>1, <1>4
  <2>. QED
    BY <1>4, <2>1, SeqOfMore
<1>6. {l[n] : n \in {}} = {} /\ Cardinality({}) = 0 /\ Space({}) = 0
  BY SumEmpty, FS_EmptySet DEF Space
<1>. QED
  BY <1>3, <1>4, <1>5, <1>6 DEF TotalsOK, q

\* DELE adds one mark and the size of its message.
LEMMA DeleTotals ==
    ASSUME Shapes, Octets, NEW p \in PopSessions, TotalsOK(pop[p]), Dele(p)
    PROVE  TotalsOK(pop'[p])
<1>. DEFINE r == pop[p]
            q == pop'[p]
            marked(K) == {r.msgs[n] : n \in K}
<1>0. PICK n \in DOMAIN pop[p].msgs :
         /\ ValidMsg(p, n)
         /\ pop' = [pop EXCEPT ![p].dele = @ \cup {n}, ![p].count = @ + 1,
                               ![p].octets = @ + size[pop[p].msgs[n]], ![p].marks = @ + 1]
  BY Zenon DEF Dele
<1>1. n \notin pop[p].dele
  BY <1>0 DEF ValidMsg
<1>2. r.state = "transaction" /\ DOMAIN r = DOMAIN PopConnected /\ DOMAIN pop = PopSessions
  BY DEF Dele, Shapes
<1>3. /\ q.state = r.state /\ q.msgs = r.msgs /\ q.dele = r.dele \cup {n} /\ q.count = r.count + 1
      /\ q.octets = r.octets + size[r.msgs[n]] /\ q.drop = r.drop
  BY <1>0, <1>2 DEF PopConnected
<1>4. /\ r.msgs \in Seq(Mails \ Fresh) /\ Ascends(r.msgs) /\ r.dele \subseteq DOMAIN r.msgs
      /\ r.count = Cardinality(r.dele) /\ r.octets = Space(marked(r.dele)) /\ r.drop = Space(ToSet(r.msgs))
  BY <1>2 DEF TotalsOK
<1>. HIDE DEF q, r, marked
<1>5. r.msgs \in Seq(Nat) /\ \A k \in DOMAIN r.msgs : r.msgs[k] \in Mails
  BY <1>4, ListPlaces
<1>6. /\ IsFiniteSet(r.dele) /\ \A i, j \in DOMAIN r.msgs : r.msgs[i] = r.msgs[j] => i = j
      /\ n \in DOMAIN r.msgs /\ n \notin r.dele
  BY <1>0, <1>1, <1>4, <1>5, PlacesCount DEF r
<1>a. Cardinality(r.dele \cup {n}) = r.count + 1
  BY <1>4, <1>6, FS_AddElement
<1>7. /\ marked(r.dele \cup {n}) = marked(r.dele) \cup {r.msgs[n]} /\ r.msgs[n] \notin marked(r.dele)
      /\ marked(r.dele) \subseteq Mails /\ r.msgs[n] \in Mails
  BY <1>4, <1>5, <1>6 DEF marked
<1>8. Space(marked(r.dele) \cup {r.msgs[n]}) = r.octets + size[r.msgs[n]]
  <2>1. IsFiniteSet(marked(r.dele)) /\ \A m \in marked(r.dele) \cup {r.msgs[n]} : size[m] \in Nat
    BY <1>7, MailsFinite DEF Octets
  <2>2. Space(marked(r.dele)) \in Nat
    BY <1>7, SpaceType DEF Space, Octets
  <2>3. Space(marked(r.dele) \cup {r.msgs[n]}) = size[r.msgs[n]] + Space(marked(r.dele))
    BY <1>7, <2>1, SumAdd DEF Space
  <2>. QED
    BY <1>4, <1>7, <2>1, <2>2, <2>3
<1>9. q.octets = Space({q.msgs[k] : k \in q.dele})
  BY <1>3, <1>7, <1>8 DEF marked
<1>. QED
  BY <1>3, <1>4, <1>6, <1>a, <1>9 DEF TotalsOK, q

\* A step of the session itself.
LEMMA PopKeepsTotals ==
    ASSUME Shapes, AccountInv, TotalsInv, NEW p \in PopSessions, PopStep(p), Lasting
    PROVE  TotalsOK(pop[p])'
<1>. DEFINE r == pop[p]
            q == pop'[p]
<1>0. DOMAIN r = DOMAIN PopConnected /\ DOMAIN pop = PopSessions /\ TotalsOK(r) /\ Octets
  BY DEF Shapes, TotalsInv, AccountInv
<1>a. UNCHANGED <<folder, size>> /\ TotalsOK(q) => TotalsOK(r)'
  BY SameRowsLast DEF TotalsOK, Space, Mails
<1>1. CASE PassOk(p) \/ Dele(p)
  <2>1. UNCHANGED <<folder, size>>
    BY <1>1 DEF PassOk, Dele, mailboxVars, rowVars
  <2>. QED
    BY <1>0, <1>1, <1>a, <2>1, PassTotals, DeleTotals
<1>2. CASE Rset(p)
  <2>1. UNCHANGED <<folder, size>>
    BY <1>2 DEF Rset, mailboxVars, rowVars
  <2>2. /\ q.state = "transaction" /\ r.state = "transaction" /\ q.msgs = r.msgs /\ q.drop = r.drop
        /\ q.dele = {} /\ q.count = 0 /\ q.octets = 0
    BY <1>0, <1>2 DEF Rset, PopConnected
  <2>3. {r.msgs[n] : n \in {}} = {} /\ Cardinality({}) = 0 /\ Space({}) = 0
    BY SumEmpty, FS_EmptySet DEF Space
  <2>4. TotalsOK(q)
    BY <1>0, <2>2, <2>3 DEF TotalsOK
  <2>. QED
    BY <1>a, <2>1, <2>4
<1>3. CASE ~(PassOk(p) \/ Dele(p) \/ Rset(p))
  <2>1. q.state # "transaction"
    <3>1. CASE User(p) \/ Redirect(p) \/ PassFails(p)
      BY <1>0, <3>1 DEF User, Redirect, PassFails, PopEnded, PopConnected
    <3>2. CASE Quit(p) \/ QuitBlob(p) \/ QuitRow(p)
      BY <1>0, <3>2 DEF Quit, QuitBlob, QuitRow, PopEnded, PopConnected
    <3>3. CASE QuitRefund(p) \/ QuitGeneration(p) \/ PopDisconnect(p) \/ PopKilled(p)
      BY <1>0, <3>3 DEF QuitRefund, QuitGeneration, PopDisconnect, PopKilled, PopEnded, PopConnected
    <3>. QED
      BY <1>3, <3>1, <3>2, <3>3 DEF PopStep
  <2>. QED
    BY <2>1 DEF TotalsOK
<1>. QED
  BY <1>1, <1>2, <1>3

\* TotalsInv is inductive.
LEMMA TotalsStep ==
    ASSUME Shapes, AccountInv, TotalsInv, [Next]_vars
    PROVE  TotalsInv'
<1>1. Lasting
  BY StepLasts
<1>2. ASSUME NEW p \in PopSessions, pop'[p] = pop[p] PROVE TotalsOK(pop[p])'
  BY <1>1, <1>2, TotalsLast DEF TotalsInv
<1>3. CASE \E p \in PopSessions : PopStep(p) /\ UNCHANGED imapVars
  <2>1. PICK p \in PopSessions : PopStep(p) /\ UNCHANGED imapVars
    BY <1>3
  <2>2. TotalsOK(pop[p])'
    BY <1>1, <2>1, PopKeepsTotals
  <2>3. ASSUME NEW o \in PopSessions \ {p} PROVE TotalsOK(pop[o])'
    BY <1>2, <2>1, PopAlone DEF OnlyPop
  <2>. QED
    BY <2>2, <2>3 DEF TotalsInv
<1>4. CASE UNCHANGED pop
  BY <1>2, <1>4 DEF TotalsInv
<1>. QED
  BY <1>3, <1>4 DEF Next, vars

\* The number and the octets that STAT, LIST and UIDL announce are those of the messages
\* they list, whatever DELE and RSET did and others do to the mailbox meanwhile.
TotalsAgree ==
    \A p \in PopSessions : pop[p].state = "transaction" =>
        StatCount(p) = Cardinality(Listed(p)) /\ StatSize(p) = Space(Listed(p))

LEMMA TotalsAgreed == Octets /\ TotalsInv => TotalsAgree
<1>. SUFFICES ASSUME Octets, TotalsInv, NEW p \in PopSessions, pop[p].state = "transaction"
              PROVE  StatCount(p) = Cardinality(Listed(p)) /\ StatSize(p) = Space(Listed(p))
  BY DEF TotalsAgree
<1>. DEFINE l == pop[p].msgs
            d == pop[p].dele
            marked == {l[n] : n \in d}
            rest == {l[n] : n \in DOMAIN l \ d}
<1>1. /\ l \in Seq(Mails \ Fresh) /\ Ascends(l) /\ d \subseteq DOMAIN l
      /\ pop[p].count = Cardinality(d) /\ pop[p].octets = Space(marked) /\ pop[p].drop = Space(ToSet(l))
  BY DEF TotalsInv, TotalsOK
<1>2. Len(l) \in Nat /\ DOMAIN l = 1..Len(l) /\ \A k \in DOMAIN l : l[k] \in Mails
  BY <1>1, ListPlaces
<1>3. l \in Seq(Nat)
  BY <1>1, ListPlaces
<1>4. Listed(p) = rest
  BY DEF Listed, ValidMsg
<1>5. StatCount(p) = Cardinality(rest)
  <2>1. Cardinality(rest) = Cardinality(DOMAIN l \ d)
    <3>1. DOMAIN l \ d \in SUBSET (DOMAIN l)
      OBVIOUS
    <3>. QED
      BY <1>1, <1>3, <3>1, PlacesCount
  <2>2. IsFiniteSet(DOMAIN l) /\ Cardinality(DOMAIN l) = Len(l)
    <3>1. 1 \in Int /\ Len(l) \in Int
      BY <1>2
    <3>2. Cardinality(1..Len(l)) = IF 1 > Len(l) THEN 0 ELSE Len(l) - 1 + 1
      BY <3>1, FS_Interval
    <3>3. Cardinality(1..Len(l)) = Len(l)
      BY <1>2, <3>2
    <3>. QED
      BY <1>2, <3>1, <3>3, FS_Interval
  <2>3. IsFiniteSet(d) /\ DOMAIN l \cap d = d
    BY <1>1, <2>2, FS_Subset
  <2>4. Cardinality(DOMAIN l \ d) = Cardinality(DOMAIN l) - Cardinality(d)
    <3>1. Cardinality(DOMAIN l \ d) = Cardinality(DOMAIN l) - Cardinality(DOMAIN l \cap d)
      BY <2>2, FS_Difference, Zenon
    <3>. QED
      BY <2>3, <3>1, Zenon
  <2>5. StatCount(p) = Len(l) - Cardinality(d)
    BY <1>1 DEF StatCount
  <2>. HIDE DEF rest, d, l
  <2>. QED
    BY <2>1, <2>2, <2>4, <2>5
<1>6. StatSize(p) = Space(rest)
  <2>1. \A i, j \in DOMAIN l : l[i] = l[j] => i = j
    BY <1>3, <1>1, PlacesCount
  <2>2. /\ rest \subseteq Mails /\ marked \subseteq Mails /\ rest \cap marked = {} /\ rest \cup marked = ToSet(l)
    BY <1>1, <1>2, <2>1 DEF ToSet
  <2>. HIDE DEF rest, marked
  <2>3. /\ IsFiniteSet(rest) /\ IsFiniteSet(marked) /\ \A m \in rest \cup marked : size[m] \in Nat
        /\ Space(rest) \in Nat /\ Space(marked) \in Nat
    BY <2>2, MailsFinite, SpaceType DEF Octets, Space
  <2>4. Space(rest \cup marked) = Space(rest) + Space(marked)
    BY <2>2, <2>3, SumUnion DEF Space
  <2>5. StatSize(p) = Space(ToSet(l)) - Space(marked)
    BY <1>1 DEF StatSize, marked
  <2>6. Space(ToSet(l)) = Space(rest) + Space(marked)
    BY <2>2, <2>4
  <2>. HIDE DEF l
  <2>. QED
    BY <2>3, <2>5, <2>6
<1>. QED
  BY <1>4, <1>5, <1>6

\* STAT tells what LIST lists.
THEOREM MailTotalsAgree == Spec => []TotalsAgree
<1>1. Init => TotalsInv
  BY DEF Init, PopInit, PopConnected, TotalsInv, TotalsOK
<1>2. Shapes /\ WantInv /\ AccountInv /\ TotalsInv /\ [Next]_vars => (Shapes /\ WantInv /\ AccountInv /\ TotalsInv)'
  BY WishesStep, BooksStep, TotalsStep
<1>3. AccountInv /\ TotalsInv => TotalsAgree
  BY TotalsAgreed DEF AccountInv
<1>. QED
  BY <1>1, <1>2, <1>3, WishesStart, BooksStart, PTL DEF Spec

-----------------------------------------------------------------------------
(***************************************************************************)
(* The client and ReportDelta.                                             *)
(***************************************************************************)

\* What the definition of the fold over EXPUNGE lines says.
RemovalsUp(h, view, lines) ==
    h = [s \in SUBSET DOMAIN lines |->
            IF s = {} THEN view ELSE Without(h[s \ {Max(s)}], lines[Max(s)])]

\* It is the fold.
LEMMA RemovalsFold ==
    \A view, lines : WithoutAll(view, lines)
                       = (CHOOSE h : RemovalsUp(h, view, lines))[DOMAIN lines]
BY DEF WithoutAll, FoldLeft, MapThenFoldSet, RemovalsUp

\* A line takes one message out, those behind it move up.
LEMMA WithoutType ==
    ASSUME NEW V, NEW view \in Seq(V), NEW k \in Nat
    PROVE  /\ Without(view, k) \in Seq(V)
           /\ k \notin 1..Len(view) => Without(view, k) = view
           /\ k \in 1..Len(view) =>
                 /\ Len(Without(view, k)) = Len(view) - 1
                 /\ \A j \in 1..(Len(view) - 1) :
                       Without(view, k)[j] = IF j < k THEN view[j] ELSE view[j + 1]
<1>1. CASE k \notin 1..Len(view)
  BY <1>1 DEF Without
<1>2. CASE k \in 1..Len(view)
  <2>. DEFINE a == SubSeq(view, 1, k - 1)
              b == SubSeq(view, k + 1, Len(view))
  <2>1. Without(view, k) = a \o b
    <3>1. k \in DOMAIN view
      BY <1>2
    <3>. QED
      BY <3>1 DEF Without, RemoveAt
  <2>2. /\ a \in Seq(V) /\ Len(a) = k - 1 /\ \A j \in 1..(k - 1) : a[j] = view[j]
    BY <1>2, SubSeqProperties
  <2>3. /\ b \in Seq(V) /\ Len(b) = Len(view) - k /\ \A j \in 1..(Len(view) - k) : b[j] = view[j + k]
    BY <1>2, SubSeqProperties
  <2>. HIDE DEF a, b
  <2>4. /\ a \o b \in Seq(V) /\ Len(a \o b) = Len(view) - 1
        /\ \A j \in 1..(Len(view) - 1) : (a \o b)[j] = IF j <= k - 1 THEN a[j] ELSE b[j - (k - 1)]
    <3>1. Len(a) + Len(b) = Len(view) - 1
      BY <1>2, <2>2, <2>3
    <3>2. /\ a \o b \in Seq(V) /\ Len(a \o b) = Len(a) + Len(b)
          /\ \A j \in 1..(Len(a) + Len(b)) : (a \o b)[j] = IF j <= Len(a) THEN a[j] ELSE b[j - Len(a)]
      BY <2>2, <2>3, ConcatProperties
    <3>. QED
      BY <2>2, <3>1, <3>2
  <2>5. ASSUME NEW j \in 1..(Len(view) - 1)
        PROVE  (a \o b)[j] = IF j < k THEN view[j] ELSE view[j + 1]
    <3>1. CASE j < k
      BY <1>2, <2>2, <2>4, <3>1
    <3>2. CASE ~(j < k)
      <4>1. j - (k - 1) \in 1..(Len(view) - k) /\ (j - (k - 1)) + k = j + 1
        BY <1>2, <3>2
      <4>2. (a \o b)[j] = b[j - (k - 1)] /\ b[j - (k - 1)] = view[j + 1]
        BY <1>2, <2>3, <2>4, <3>2, <4>1
      <4>. QED
        BY <3>2, <4>2
    <3>. QED
      BY <3>1, <3>2
  <2>. QED
    BY <1>2, <2>1, <2>4, <2>5
<1>. QED
  BY <1>1, <1>2

\* Line by line: what the view is after each of them.
Removes(v, V, view, lines) ==
    /\ v \in [0..Len(lines) -> Seq(V)]
    /\ v[0] = view
    /\ \A i \in 1..Len(lines) : v[i] = Without(v[i - 1], lines[i])
    /\ WithoutAll(view, lines) = v[Len(lines)]

\* There are such views.
LEMMA Removals ==
    ASSUME NEW V, NEW view \in Seq(V), NEW lines \in Seq(Nat)
    PROVE  \E v : Removes(v, V, view, lines)
<1>. DEFINE n == Len(lines)
            G == [p \in Seq(V) \X Nat |-> Without(p[1], p[2])]
<1>1. n \in Nat /\ DOMAIN lines = 1..n /\ \A i \in 1..n : lines[i] \in Nat
  OBVIOUS
<1>. HIDE DEF n
<1>2. G \in [Seq(V) \X Nat -> Seq(V)]
  BY WithoutType
<1>3. PICK g \in [SUBSET (1..n) -> Seq(V)] : FoldsUp(g, n, lines, view, G)
  <2>. HIDE DEF G
  <2>. QED
    BY <1>1, <1>2, FoldsExist
<1>4. RemovalsUp(g, view, lines)
  <2>1. ASSUME NEW s \in SUBSET (1..n), s # {}
        PROVE  g[s] = Without(g[s \ {Max(s)}], lines[Max(s)])
    <3>1. Max(s) \in s
      BY <1>1, <2>1, LargestIn
    <3>2. g[s \ {Max(s)}] \in Seq(V) /\ lines[Max(s)] \in Nat
      BY <1>1, <3>1
    <3>. QED
      BY <1>3, <2>1, <3>2 DEF FoldsUp
  <2>. QED
    BY <1>1, <1>3, <2>1 DEF RemovalsUp, FoldsUp
<1>. DEFINE h == CHOOSE f : RemovalsUp(f, view, lines)
<1>5. RemovalsUp(h, view, lines) /\ WithoutAll(view, lines) = h[1..n]
  BY <1>1, <1>4, RemovalsFold
<1>. HIDE DEF h
<1>. DEFINE v == [i \in 0..n |-> h[1..i]]
<1>6. v[0] = view
  <2>1. 1..0 = {}
    OBVIOUS
  <2>. QED
    BY <1>1, <1>5, <2>1 DEF RemovalsUp
<1>7. ASSUME NEW i \in 1..n PROVE v[i] = Without(v[i - 1], lines[i])
  <2>0. i \in Nat /\ i # 0 /\ i \in 0..n /\ i - 1 \in 0..n /\ i \in 1..i /\ 1..i \in SUBSET (1..n)
    BY <1>1
  <2>1. Max(1..i) = i /\ (1..i) \ {i} = 1..(i - 1)
    BY <2>0, LargestOfPrefix
  <2>2. h[1..i] = Without(h[(1..i) \ {Max(1..i)}], lines[Max(1..i)])
    BY <1>1, <1>5, <2>0 DEF RemovalsUp
  <2>. QED
    BY <2>0, <2>1, <2>2
<1>8. v \in [0..n -> Seq(V)]
  <2>. DEFINE B == {i \in Nat : i <= n => v[i] \in Seq(V)}
  <2>1. 0 \in B
    BY <1>6
  <2>2. ASSUME NEW i \in Nat, i \in B PROVE i + 1 \in B
    <3>1. CASE i + 1 <= n
      <4>1. v[i + 1] = Without(v[i], lines[i + 1]) /\ v[i] \in Seq(V) /\ lines[i + 1] \in Nat
        <5>. HIDE DEF v
        <5>. QED
          BY <1>1, <1>7, <2>2, <3>1
      <4>2. Without(v[i], lines[i + 1]) \in Seq(V)
        <5>. HIDE DEF v
        <5>. QED
          BY <4>1, WithoutType
      <4>. HIDE DEF v
      <4>. QED
        BY <4>1, <4>2
    <3>. QED
      BY <1>1, <3>1
  <2>. HIDE DEF B
  <2>3. Nat \subseteq B
    BY <2>1, <2>2, NatSet
  <2>4. \A i \in 0..n : v[i] \in Seq(V)
    <3>. HIDE DEF v
    <3>. QED
      BY <1>1, <2>3 DEF B
  <2>. QED
    BY <2>4
<1>9. WithoutAll(view, lines) = v[n]
  BY <1>1, <1>5
<1>. HIDE DEF v
<1>. QED
  BY <1>6, <1>7, <1>8, <1>9 DEF n, Removes

\* No line.
LEMMA NoLine ==
    ASSUME NEW V, NEW view \in Seq(V)
    PROVE  WithoutAll(view, <<>>) = view
<1>1. <<>> \in Seq(Nat) /\ Len(<<>>) = 0
  OBVIOUS
<1>2. PICK u : Removes(u, V, view, <<>>)
  BY <1>1, Removals
<1>. QED
  BY <1>1, <1>2 DEF Removes

\* One line more.
LEMMA OneLineMore ==
    ASSUME NEW V, NEW view \in Seq(V), NEW lines \in Seq(Nat), NEW k \in Nat
    PROVE  /\ WithoutAll(view, lines) \in Seq(V)
           /\ WithoutAll(view, Append(lines, k)) = Without(WithoutAll(view, lines), k)
<1>. DEFINE n == Len(lines)
            more == Append(lines, k)
<1>1. /\ n \in Nat /\ more \in Seq(Nat) /\ Len(more) = n + 1 /\ more[n + 1] = k
      /\ \A i \in 1..n : more[i] = lines[i]
  OBVIOUS
<1>a. PICK v : Removes(v, V, view, lines)
  BY Removals
<1>2. /\ v \in [0..n -> Seq(V)]
      /\ v[0] = view /\ \A i \in 1..n : v[i] = Without(v[i - 1], lines[i])
      /\ WithoutAll(view, lines) = v[n]
  BY <1>a DEF Removes
<1>. HIDE DEF n, more
<1>b. PICK w : Removes(w, V, view, more)
  BY <1>1, Removals
<1>3. /\ w \in [0..(n + 1) -> Seq(V)]
      /\ w[0] = view /\ \A i \in 1..(n + 1) : w[i] = Without(w[i - 1], more[i])
      /\ WithoutAll(view, more) = w[n + 1]
  BY <1>1, <1>b DEF Removes
<1>. DEFINE B == {i \in Nat : i <= n => v[i] = w[i]}
<1>4. 0 \in B
  BY <1>2, <1>3
<1>5. ASSUME NEW i \in Nat, i \in B PROVE i + 1 \in B
  <2>1. CASE i + 1 <= n
    <3>1. i + 1 \in 1..n /\ i + 1 \in 1..(n + 1) /\ (i + 1) - 1 = i
      BY <1>1, <2>1
    <3>2. v[i + 1] = Without(v[i], lines[i + 1]) /\ w[i + 1] = Without(w[i], more[i + 1])
      BY <1>2, <1>3, <3>1
    <3>3. v[i] = w[i]
      BY <1>1, <1>5, <2>1
    <3>. QED
      BY <1>1, <3>1, <3>2, <3>3
  <2>. QED
    BY <1>1, <2>1
<1>. HIDE DEF B
<1>6. n \in B
  BY <1>1, <1>4, <1>5, NatSet
<1>7. v[n] = w[n] /\ w[n + 1] = Without(w[n], k) /\ v[n] \in Seq(V)
  BY <1>1, <1>2, <1>3, <1>6 DEF B
<1>. QED
  BY <1>2, <1>3, <1>7 DEF more

-----------------------------------------------------------------------------

\* What ReportDelta has on its way along the old list.
Walks == [kept : Nat, lines : Seq(Nat)]

\* What the definition of the fold over the old list says.
WalksUp(h, old, new) ==
    h = [s \in SUBSET DOMAIN old |->
            IF s = {} THEN WalkStart ELSE WalkOn(h[s \ {Max(s)}], old[Max(s)], new)]

\* It is the fold.
LEMMA WalkFold ==
    \A old, new : Expunges(old, new) = (CHOOSE h : WalksUp(h, old, new))[DOMAIN old].lines
BY DEF Expunges, FoldLeft, MapThenFoldSet, WalksUp

\* One message more.
LEMMA WalkType ==
    ASSUME NEW walk \in Walks, NEW m, NEW new
    PROVE  WalkOn(walk, m, new) \in Walks
<1>1. walk.kept \in Nat /\ walk.lines \in Seq(Nat)
  BY DEF Walks
<1>. DEFINE more == Append(walk.lines, walk.kept + 1)
<1>2. more \in Seq(Nat) /\ walk.kept + 1 \in Nat
  BY <1>1
<1>. HIDE DEF more
<1>3. WalkOn(walk, m, new) \in {[walk EXCEPT !.kept = @ + 1], [walk EXCEPT !.lines = more]}
  BY DEF WalkOn, more
<1>. QED
  BY <1>2, <1>3 DEF Walks

\* Message by message: the walk after each of them.
WalksAlong(w, old, new) ==
    /\ w \in [0..Len(old) -> Walks]
    /\ w[0] = WalkStart
    /\ \A i \in 1..Len(old) : w[i] = WalkOn(w[i - 1], old[i], new)
    /\ Expunges(old, new) = w[Len(old)].lines

\* There are such walks.
LEMMA Walk ==
    ASSUME NEW V, NEW old \in Seq(V), NEW new
    PROVE  \E w : WalksAlong(w, old, new)
<1>. DEFINE n == Len(old)
            G == [p \in Walks \X V |-> WalkOn(p[1], p[2], new)]
<1>1. n \in Nat /\ DOMAIN old = 1..n /\ \A i \in 1..n : old[i] \in V
  OBVIOUS
<1>. HIDE DEF n
<1>2. G \in [Walks \X V -> Walks] /\ WalkStart \in Walks
  <2>1. WalkStart \in Walks
    BY DEF WalkStart, Walks
  <2>. QED
    BY <2>1, WalkType
<1>3. PICK g \in [SUBSET (1..n) -> Walks] : FoldsUp(g, n, old, WalkStart, G)
  <2>. HIDE DEF G
  <2>. QED
    BY <1>1, <1>2, FoldsExist
<1>4. WalksUp(g, old, new)
  <2>1. ASSUME NEW s \in SUBSET (1..n), s # {}
        PROVE  g[s] = WalkOn(g[s \ {Max(s)}], old[Max(s)], new)
    <3>1. Max(s) \in s
      BY <1>1, <2>1, LargestIn
    <3>2. g[s \ {Max(s)}] \in Walks /\ old[Max(s)] \in V
      BY <1>1, <3>1
    <3>. QED
      BY <1>3, <2>1, <3>2 DEF FoldsUp
  <2>. QED
    BY <1>1, <1>3, <2>1 DEF WalksUp, FoldsUp
<1>. DEFINE h == CHOOSE f : WalksUp(f, old, new)
<1>5. WalksUp(h, old, new) /\ Expunges(old, new) = h[1..n].lines
  BY <1>1, <1>4, WalkFold
<1>. HIDE DEF h
<1>. DEFINE w == [i \in 0..n |-> h[1..i]]
<1>6. w[0] = WalkStart
  <2>1. 1..0 = {}
    OBVIOUS
  <2>. QED
    BY <1>1, <1>5, <2>1 DEF WalksUp
<1>7. ASSUME NEW i \in 1..n PROVE w[i] = WalkOn(w[i - 1], old[i], new)
  <2>0. i \in Nat /\ i # 0 /\ i \in 0..n /\ i - 1 \in 0..n /\ i \in 1..i /\ 1..i \in SUBSET (1..n)
    BY <1>1
  <2>1. Max(1..i) = i /\ (1..i) \ {i} = 1..(i - 1)
    BY <2>0, LargestOfPrefix
  <2>2. h[1..i] = WalkOn(h[(1..i) \ {Max(1..i)}], old[Max(1..i)], new)
    BY <1>1, <1>5, <2>0 DEF WalksUp
  <2>. QED
    BY <2>0, <2>1, <2>2
<1>8. w \in [0..n -> Walks]
  <2>. DEFINE B == {i \in Nat : i <= n => w[i] \in Walks}
  <2>1. 0 \in B
    BY <1>2, <1>6
  <2>2. ASSUME NEW i \in Nat, i \in B PROVE i + 1 \in B
    <3>1. CASE i + 1 <= n
      <4>1. w[i + 1] = WalkOn(w[i], old[i + 1], new) /\ w[i] \in Walks
        <5>. HIDE DEF w
        <5>. QED
          BY <1>1, <1>7, <2>2, <3>1
      <4>. HIDE DEF w
      <4>. QED
        BY <4>1, WalkType
    <3>. QED
      BY <1>1, <3>1
  <2>. HIDE DEF B
  <2>3. Nat \subseteq B
    BY <2>1, <2>2, NatSet
  <2>4. \A i \in 0..n : w[i] \in Walks
    <3>. HIDE DEF w
    <3>. QED
      BY <1>1, <2>3 DEF B
  <2>. QED
    BY <2>4
<1>9. Expunges(old, new) = w[n].lines
  BY <1>1, <1>5
<1>. HIDE DEF w
<1>. QED
  BY <1>6, <1>7, <1>8, <1>9 DEF n, WalksAlong

\* What a client has that knew the old list and was told of the first i messages of
\* it: the k that are kept, of the new list, then the rest of the old one.
Halfway(rest, k, i, old, new) ==
    /\ k \in 0..Len(new) /\ Len(rest) = k + (Len(old) - i)
    /\ \A j \in 1..k : rest[j] = new[j]
    /\ \A j \in (k + 1)..(k + (Len(old) - i)) : rest[j] = old[j - k + i]

\* One more message of the old list.
LEMMA HalfwayOn ==
    ASSUME NEW V, NEW old \in Seq(V), NEW new \in Seq(V), NEW rest \in Seq(V), NEW k,
           NEW i \in 0..(Len(old) - 1), Halfway(rest, k, i, old, new)
    PROVE  IF k < Len(new) /\ new[k + 1] = old[i + 1]
           THEN Halfway(rest, k + 1, i + 1, old, new)
           ELSE Halfway(Without(rest, k + 1), k, i + 1, old, new)
<1>. DEFINE n == Len(old)
<1>1. /\ n \in Nat /\ Len(new) \in Nat /\ i \in Nat /\ i + 1 <= n
      /\ k \in Nat /\ k <= Len(new) /\ Len(rest) = k + (n - i)
      /\ \A j \in 1..k : rest[j] = new[j]
      /\ \A j \in (k + 1)..(k + (n - i)) : rest[j] = old[j - k + i]
  BY DEF Halfway
<1>. HIDE DEF n
<1>2. CASE k < Len(new) /\ new[k + 1] = old[i + 1]
  <2>1. rest[k + 1] = old[i + 1]
    <3>1. k + 1 \in (k + 1)..(k + (n - i)) /\ (k + 1) - k + i = i + 1
      BY <1>1
    <3>. QED
      BY <1>1, <3>1
  <2>2. ASSUME NEW j \in 1..(k + 1) PROVE rest[j] = new[j]
    BY <1>1, <1>2, <2>1
  <2>3. ASSUME NEW j \in ((k + 1) + 1)..((k + 1) + (n - (i + 1)))
        PROVE  rest[j] = old[j - (k + 1) + (i + 1)]
    <3>1. j \in (k + 1)..(k + (n - i)) /\ j - (k + 1) + (i + 1) = j - k + i
      BY <1>1
    <3>. QED
      BY <1>1, <3>1
  <2>4. Halfway(rest, k + 1, i + 1, old, new)
    BY <1>1, <1>2, <2>2, <2>3 DEF Halfway, n
  <2>. QED
    BY <1>2, <2>4
<1>3. CASE ~(k < Len(new) /\ new[k + 1] = old[i + 1])
  <2>. DEFINE less == Without(rest, k + 1)
  <2>1. k + 1 \in Nat /\ k + 1 \in 1..Len(rest)
    BY <1>1
  <2>2. /\ Len(less) = Len(rest) - 1
        /\ \A j \in 1..(Len(rest) - 1) : less[j] = IF j < k + 1 THEN rest[j] ELSE rest[j + 1]
    BY <2>1, WithoutType
  <2>. HIDE DEF less
  <2>3. ASSUME NEW j \in 1..k PROVE less[j] = new[j]
    BY <1>1, <2>2
  <2>4. ASSUME NEW j \in (k + 1)..(k + (n - (i + 1))) PROVE less[j] = old[j - k + (i + 1)]
    <3>1. /\ j \in 1..(Len(rest) - 1) /\ ~(j < k + 1)
          /\ j + 1 \in (k + 1)..(k + (n - i)) /\ (j + 1) - k + i = j - k + (i + 1)
      BY <1>1
    <3>2. less[j] = rest[j + 1] /\ rest[j + 1] = old[(j + 1) - k + i]
      BY <1>1, <2>2, <3>1
    <3>. QED
      BY <3>1, <3>2
  <2>5. Halfway(less, k, i + 1, old, new)
    BY <1>1, <2>2, <2>3, <2>4 DEF Halfway, n
  <2>. QED
    BY <1>3, <2>5 DEF less
<1>. QED
  BY <1>2, <1>3

\* A client that knows the old list knows the new one when it has been told.
THEOREM AllTold ==
    ASSUME NEW V, NEW old \in Seq(V), NEW new \in Seq(V)
    PROVE  Told(old, old, new) = new
<1>. DEFINE n == Len(old)
            lines == Expunges(old, new)
            rest == WithoutAll(old, lines)
<1>0. n \in Nat /\ Len(new) \in Nat
  OBVIOUS
<1>a. PICK w : WalksAlong(w, old, new)
  BY Walk
<1>1. /\ w \in [0..n -> Walks] /\ w[0] = WalkStart
      /\ \A i \in 1..n : w[i] = WalkOn(w[i - 1], old[i], new)
      /\ lines = w[n].lines
  BY <1>a DEF WalksAlong
<1>. HIDE DEF n, lines
<1>. DEFINE R(i) == WithoutAll(old, w[i].lines)
            B == {i \in Nat : i <= n => Halfway(R(i), w[i].kept, i, old, new)}
<1>2. 0 \in B
  <2>1. w[0].kept = 0 /\ w[0].lines = <<>>
    BY <1>1 DEF WalkStart
  <2>3. R(0) = old
    BY <2>1, NoLine
  <2>2. Halfway(old, 0, 0, old, new)
    BY <1>0 DEF Halfway, n
  <2>. QED
    BY <2>1, <2>2, <2>3
<1>3. ASSUME NEW i \in Nat, i \in B PROVE i + 1 \in B
  <2>1. CASE i + 1 <= n
    <3>. DEFINE k == w[i].kept
                ls == w[i].lines
    <3>1. /\ w[i + 1] = WalkOn(w[i], old[i + 1], new) /\ w[i] \in Walks /\ i \in 0..(n - 1)
          /\ Halfway(R(i), k, i, old, new)
      <4>1. i + 1 \in 1..n /\ (i + 1) - 1 = i /\ i \in 0..n
        BY <1>0, <2>1
      <4>. QED
        BY <1>0, <1>1, <1>3, <2>1, <4>1
    <3>2. k \in Nat /\ ls \in Seq(Nat)
      BY <3>1 DEF Walks
    <3>. HIDE DEF k, ls
    <3>3. k + 1 \in Nat /\ R(i) \in Seq(V) /\ WithoutAll(old, Append(ls, k + 1)) = Without(R(i), k + 1)
      <4>1. k + 1 \in Nat
        BY <3>2
      <4>2. WithoutAll(old, ls) \in Seq(V) /\ WithoutAll(old, Append(ls, k + 1)) = Without(WithoutAll(old, ls), k + 1)
        BY <3>2, <4>1, OneLineMore
      <4>. QED
        BY <4>1, <4>2 DEF ls
    <3>4. IF k < Len(new) /\ new[k + 1] = old[i + 1]
          THEN Halfway(R(i), k + 1, i + 1, old, new)
          ELSE Halfway(Without(R(i), k + 1), k, i + 1, old, new)
      <4>. HIDE DEF R
      <4>. QED
        BY <3>1, <3>3, HalfwayOn DEF n
    <3>5. CASE k < Len(new) /\ new[k + 1] = old[i + 1]
      <4>1. w[i + 1].kept = k + 1 /\ w[i + 1].lines = ls
        BY <3>1, <3>5 DEF WalkOn, Walks, k, ls
      <4>. QED
        BY <3>4, <3>5, <4>1 DEF ls
    <3>6. CASE ~(k < Len(new) /\ new[k + 1] = old[i + 1])
      <4>1. w[i + 1].kept = k /\ w[i + 1].lines = Append(ls, k + 1)
        <5>1. w[i + 1] = [w[i] EXCEPT !.lines = Append(ls, k + 1)]
          BY <3>1, <3>6 DEF WalkOn, k, ls
        <5>. QED
          BY <3>1, <5>1 DEF Walks, k
      <4>2. R(i + 1) = Without(R(i), k + 1)
        BY <3>3, <4>1
      <4>. HIDE DEF R
      <4>. QED
        BY <3>4, <3>6, <4>1, <4>2
    <3>. QED
      BY <3>5, <3>6
  <2>. QED
    BY <2>1
<1>. HIDE DEF B
<1>4. n \in B
  BY <1>0, <1>2, <1>3, NatSet
<1>. DEFINE k == w[n].kept
<1>5. Halfway(rest, k, n, old, new)
  BY <1>0, <1>1, <1>4 DEF B
<1>6. lines \in Seq(Nat)
  BY <1>0, <1>1 DEF Walks
<1>7. rest \in Seq(V) /\ (lines = <<>> => rest = old)
  <2>1. 0 \in Nat
    OBVIOUS
  <2>. QED
    BY <1>6, <2>1, NoLine, OneLineMore
<1>. HIDE DEF rest, k
<1>8. /\ k \in 0..Len(new) /\ Len(rest) = k /\ DOMAIN rest = 1..k
      /\ \A j \in 1..k : rest[j] = new[j]
  BY <1>0, <1>5, <1>7 DEF Halfway, n
<1>9. CASE lines = <<>> /\ Len(new) = Len(old)
  <2>1. k = Len(new) /\ DOMAIN new = 1..k
    BY <1>0, <1>7, <1>8, <1>9
  <2>2. rest = new
    BY <1>7, <1>8, <2>1
  <2>. QED
    BY <1>9, <2>2 DEF Told, rest, lines
<1>10. CASE ~(lines = <<>> /\ Len(new) = Len(old))
  <2>1. Told(old, old, new) = [j \in 1..Len(new) |-> IF j \in DOMAIN rest THEN rest[j] ELSE new[j]]
    BY <1>10 DEF Told, rest, lines
  <2>2. \A j \in 1..Len(new) : (IF j \in DOMAIN rest THEN rest[j] ELSE new[j]) = new[j]
    BY <1>0, <1>8
  <2>3. Told(old, old, new) = [j \in 1..Len(new) |-> new[j]]
    BY <2>1, <2>2
  <2>. QED
    BY <2>3
<1>. QED
  BY <1>9, <1>10

-----------------------------------------------------------------------------

\* What the client believes does not matter: nothing will be selected, or the
\* answer to SELECT will say it anew.
Silent(r) ==
    \/ r.pc \in {"close", "reselect", "logout", "opened"}
    \/ r.pc = "row" /\ r.then \in {"close", "reselect", "logout"}
    \/ r.pc = "writeback" /\ r.then = "opened"

\* A list is in order, and the client has it unless it was read without a word.
SyncOK(r) ==
    /\ r.list \in Seq(Mails) /\ Ascends(r.list) /\ r.limit \in Nat
    /\ ~r.untold /\ ~Silent(r) => r.client = r.list

SyncInv == \A s \in ImapSessions : SyncOK(imap[s])

\* FetchMessages returns a list in order, ...
LEMMA VisibleList ==
    ASSUME NEW f, NEW limit \in Nat
    PROVE  Visible(f, limit) \in Seq(Mails) /\ Ascends(Visible(f, limit))
<1>. DEFINE all == InOrder(RowsIn(f))
<1>1. all \in Seq(Mails) /\ Ascends(all)
  <2>1. RowsIn(f) \in SUBSET Nat /\ RowsIn(f) \in SUBSET Mails
    BY DEF RowsIn, Mails
  <2>2. IsFiniteSet(RowsIn(f))
    BY <2>1, MailsFinite
  <2>3. all \in Seq(RowsIn(f)) /\ Ascends(all)
    BY <2>1, <2>2, InOrderSorts
  <2>. HIDE DEF all
  <2>. QED
    BY <2>1, <2>3
<1>. HIDE DEF all
<1>2. CASE limit # 0 /\ Len(all) > limit
  <2>. DEFINE a == Len(all) - limit + 2
              cut == SubSeq(all, a, Len(all))
  <2>1. /\ a \in 1..Len(all) + 1 /\ a \in Nat /\ Len(all) \in Nat /\ DOMAIN all = 1..Len(all)
    BY <1>1, <1>2
  <2>. HIDE DEF a
  <2>2. /\ cut \in Seq(Mails) /\ Len(cut) = Len(all) - a + 1
        /\ \A i \in 1..(Len(all) - a + 1) : cut[i] = all[a + i - 1]
    BY <1>1, <2>1, SubSeqProperties
  <2>3. Visible(f, limit) = cut
    BY <1>2 DEF Visible, all, a
  <2>. HIDE DEF cut
  <2>4. DOMAIN cut = 1..(Len(all) - a + 1)
    BY <2>2
  <2>5. ASSUME NEW i \in DOMAIN cut, NEW j \in DOMAIN cut, i < j PROVE cut[i] < cut[j]
    <3>1. /\ a + i - 1 \in DOMAIN all /\ a + j - 1 \in DOMAIN all /\ a + i - 1 < a + j - 1
          /\ cut[i] = all[a + i - 1] /\ cut[j] = all[a + j - 1]
      <4>1. i \in 1..(Len(all) - a + 1) /\ j \in 1..(Len(all) - a + 1)
        BY <2>4
      <4>2. cut[i] = all[a + i - 1] /\ cut[j] = all[a + j - 1]
        BY <2>2, <4>1
      <4>3. a + i - 1 \in 1..Len(all) /\ a + j - 1 \in 1..Len(all) /\ a + i - 1 < a + j - 1
        BY <2>1, <2>5, <4>1
      <4>. QED
        BY <2>1, <4>2, <4>3
    <3>2. all[a + i - 1] < all[a + j - 1]
      BY <1>1, <3>1 DEF Ascends
    <3>. QED
      BY <3>1, <3>2
  <2>. QED
    BY <2>2, <2>3, <2>5 DEF Ascends
<1>3. CASE ~(limit # 0 /\ Len(all) > limit)
  <2>1. Visible(f, limit) = all
    BY <1>3 DEF Visible, all
  <2>. QED
    BY <1>1, <2>1
<1>. QED
  BY <1>2, <1>3

\* ... a new one of the session that reads it.
LEMMA RefetchSync ==
    ASSUME NEW r, DOMAIN r = DOMAIN ImapConnected, r.limit \in Nat, NEW f
    PROVE  LET z == Refetch(r, f) IN
           /\ DOMAIN z = DOMAIN ImapConnected /\ z.pc = "writeback" /\ z.then = r.then
           /\ z.list = Visible(f, r.limit) /\ z.list \in Seq(Mails) /\ Ascends(z.list) /\ z.limit = r.limit
           /\ z.client = r.client /\ z.untold = r.untold
<1>. DEFINE z == Refetch(r, f)
<1>1. /\ DOMAIN z = DOMAIN ImapConnected /\ z.pc = "writeback" /\ z.then = r.then
      /\ z.list = Visible(f, r.limit) /\ z.limit = r.limit
      /\ z.client = r.client /\ z.untold = r.untold
  BY DEF Refetch, ImapConnected
<1>. QED
  BY <1>1, VisibleList

\* The list, and what the client was told, are left alone.
LEMMA SameSync ==
    ASSUME NEW r, NEW q, SyncOK(r), q.list = r.list, q.client = r.client, q.untold = r.untold,
           q.limit = r.limit, Silent(r) => Silent(q)
    PROVE  SyncOK(q)
BY DEF SyncOK

\* A command goes on or ends.
LEMMA GoesOnSync ==
    ASSUME NEW r, DOMAIN r = DOMAIN ImapConnected, SyncOK(r), NEW pc, Silent(r) => pc = "opened"
    PROVE  SyncOK(GoesOn(r, pc))
<1>. DEFINE q == GoesOn(r, pc)
<1>1. q.list = r.list /\ q.client = r.client /\ q.untold = r.untold /\ q.limit = r.limit /\ q.pc = pc
  BY DEF GoesOn, Waiting, ImapConnected
<1>2. Silent(r) => Silent(q)
  BY <1>1 DEF Silent
<1>. HIDE DEF q
<1>. QED
  BY <1>1, <1>2, SameSync DEF q

\* FetchMessages has nothing to write back.
LEMMA SkipSync ==
    ASSUME NEW r, DOMAIN r = DOMAIN ImapConnected, SyncOK(r), r.pc = "writeback"
    PROVE  SyncOK(Skip(r))
BY GoesOnSync DEF Skip, Silent

\* Nothing has been selected, or nothing is any more.
LEMMA LoggedOutSync == SyncOK(LoggedOut) /\ SyncOK(ImapConnected)
<1>1. <<>> \in Seq(Mails) /\ Ascends(<<>>)
  BY DEF Ascends
<1>. QED
  BY <1>1 DEF SyncOK, LoggedOut, ImapConnected

\* A command that looks the folders up.
LEMMA BeginSync ==
    ASSUME Shapes, SyncInv, NEW s \in ImapSessions, Begin(s)
    PROVE  SyncOK(imap'[s])
<1>. DEFINE r == imap[s]
            q == imap'[s]
<1>0. DOMAIN r = DOMAIN ImapConnected /\ DOMAIN imap = ImapSessions /\ SyncOK(r)
  BY DEF Shapes, SyncInv
<1>a. PICK c \in Refreshing :
         imap' = [imap EXCEPT ![s].pc = IF r.sel = "none" \/ r.gen = gen THEN c ELSE "refresh",
                              ![s].then = c, ![s].read = gen, ![s].dirs = Folders \ removed]
  BY Zenon DEF Begin
<1>1. q = [r EXCEPT !.pc = IF r.sel = "none" \/ r.gen = gen THEN c ELSE "refresh",
                    !.then = c, !.read = gen, !.dirs = Folders \ removed]
  BY <1>0, <1>a
<1>2. r.pc = "ready"
  BY DEF Begin, At
<1>3. q.list = r.list /\ q.client = r.client /\ q.untold = r.untold /\ q.limit = r.limit
  BY <1>0, <1>1 DEF ImapConnected
<1>. QED
  BY <1>0, <1>2, <1>3, SameSync DEF Silent

\* Steps that leave the list and what the client was told alone.
LEMMA QuietSync ==
    ASSUME Shapes, SyncInv, NEW s \in ImapSessions,
           \/ Begin(s) \/ Login(s) \/ Idle(s) \/ Poll(s) \/ Select(s) \/ Store(s) \/ WriteBack(s)
           \/ Announce(s) \/ ExpungeBlob(s) \/ ExpungeGeneration(s) \/ Copy(s) \/ CopyRow(s)
           \/ CopyBlob(s) \/ CopyGeneration(s) \/ CopyCharge(s) \/ AppendRow(s) \/ AppendGeneration(s)
           \/ AppendBlob(s) \/ AppendCharge(s) \/ AppendFlags(s) \/ Delete(s) \/ DeleteFolderRows(s)
           \/ DeleteRefund(s) \/ DeleteFolder(s) \/ Rename(s)
    PROVE  SyncOK(imap'[s])
<1>. DEFINE r == imap[s]
            q == imap'[s]
<1>0. DOMAIN r = DOMAIN ImapConnected /\ DOMAIN imap = ImapSessions /\ SyncOK(r)
  BY DEF Shapes, SyncInv
<1>1. CASE Begin(s)
  BY <1>1, BeginSync
<1>2. CASE Login(s)
  <2>1. PICK n \in Limits : q = [r EXCEPT !.pc = "ready", !.limit = n]
    BY <1>0, <1>2 DEF Login
  <2>2. n \in Nat /\ r.pc = "login"
    BY <1>2, ImapAssumption DEF Login, At
  <2>. QED
    BY <1>0, <2>1, <2>2 DEF ImapConnected, Silent, SyncOK
<1>3. CASE Idle(s) \/ Poll(s)
  <2>1. /\ q.list = r.list /\ q.client = r.client /\ q.untold = r.untold /\ q.limit = r.limit
        /\ ~Silent(r)
    BY <1>0, <1>3 DEF Idle, Poll, At, ImapConnected, Silent
  <2>. QED
    BY <1>0, <2>1, SameSync
<1>4. CASE Select(s)
  <2>1. PICK f \in r.dirs :
           imap' = [imap EXCEPT ![s].arg = f, ![s].ro = IF At(s, "examine") THEN "yes" ELSE "no",
                                ![s].pc  = IF AutoExpunge /\ imap[s].sel # "none"
                                           THEN "reselect" ELSE "open"]
    BY <1>4 DEF Select
  <2>2. /\ q.list = r.list /\ q.client = r.client /\ q.untold = r.untold /\ q.limit = r.limit
        /\ ~Silent(r)
    BY <1>0, <1>4, <2>1 DEF Select, ImapConnected, Silent
  <2>. QED
    BY <1>0, <2>2, SameSync
<1>5. CASE Store(s)
  <2>1. PICK m \in Listing(s), deleted \in BOOLEAN, unseen \in BOOLEAN :
          LET dels == IF deleted THEN imap[s].dels \cup {m} ELSE imap[s].dels \ {m}
              recs == IF unseen THEN imap[s].recs \cup {m} ELSE imap[s].recs \ {m}
          IN /\ imap' = [imap EXCEPT ![s].dels = dels, ![s].recs = recs,
                                     ![s].pc = "announce", ![s].then = "ready"]
             /\ WriteFlags({m}, dels, recs)
             /\ wanted' = IF deleted THEN wanted \cup {m}
                         ELSE IF m \notin Rows \/ WantedElsewhere(s, m) THEN wanted
                         ELSE wanted \ {m}
    BY <1>5 DEF Store
  <2>2. q.list = r.list /\ q.client = r.client /\ q.untold = r.untold /\ q.limit = r.limit
    BY <1>0, <2>1 DEF ImapConnected
  <2>3. ~Silent(r)
    BY <1>5 DEF Store, At, Silent
  <2>. QED
    BY <1>0, <2>2, <2>3, SameSync
<1>6. CASE WriteBack(s)
  <2>. DEFINE z == [r EXCEPT !.back = {}, !.backDels = {}]
  <2>1. q = GoesOn(z, z.then) /\ r.pc = "writeback" /\ DOMAIN z = DOMAIN ImapConnected
    BY <1>0, <1>6 DEF WriteBack, At, ImapConnected
  <2>2. SyncOK(z) /\ (Silent(z) => z.then = "opened")
    BY <1>0, <2>1, SameSync DEF ImapConnected, Silent
  <2>. HIDE DEF z
  <2>. QED
    BY <2>1, <2>2, GoesOnSync
<1>7. CASE Announce(s)
  <2>1. q = GoesOn(r, r.then) /\ ~Silent(r)
    BY <1>0, <1>7 DEF Announce, At, Silent
  <2>. QED
    BY <1>0, <2>1, GoesOnSync
<1>8. CASE ExpungeBlob(s)
  <2>1. /\ q.list = r.list /\ q.client = r.client /\ q.untold = r.untold /\ q.limit = r.limit
        /\ r.pc \in Expunging /\ q.pc = "row" /\ q.then = r.pc
    BY <1>0, <1>8 DEF ExpungeBlob, ImapConnected
  <2>2. Silent(r) => Silent(q)
    BY <2>1 DEF Silent, Expunging
  <2>. QED
    BY <1>0, <2>1, <2>2, SameSync
<1>9. CASE ExpungeGeneration(s)
  <2>1. /\ q.list = r.list /\ q.client = r.client /\ q.untold = r.untold /\ q.limit = r.limit
        /\ q.pc = r.pc /\ q.then = r.then
    BY <1>0, <1>9 DEF ExpungeGeneration, ImapConnected
  <2>2. Silent(r) => Silent(q)
    BY <2>1 DEF Silent
  <2>. QED
    BY <1>0, <2>1, <2>2, SameSync
<1>10. CASE Copy(s) \/ CopyRow(s) \/ CopyBlob(s) \/ CopyGeneration(s) \/ CopyCharge(s)
  <2>1. /\ q.list = r.list /\ q.client = r.client /\ q.untold = r.untold /\ q.limit = r.limit
        /\ r.pc \in {"copy", "copyrow", "copyblob", "copygeneration", "copycharge"}
    <3>1. CASE Copy(s)
      <4>1. PICK f, S : imap' = [imap EXCEPT ![s].pc = "copying", ![s].arg = f, ![s].todo = S]
        BY <3>1 DEF Copy
      <4>. QED
        BY <1>0, <3>1, <4>1 DEF Copy, At, ImapConnected
    <3>2. CASE CopyRow(s)
      BY <1>0, <3>2 DEF CopyRow, At, ImapConnected
    <3>3. CASE CopyBlob(s) \/ CopyGeneration(s) \/ CopyCharge(s)
      BY <1>0, <3>3 DEF CopyBlob, CopyGeneration, CopyCharge, At, ImapConnected
    <3>. QED
      BY <1>10, <3>1, <3>2, <3>3
  <2>2. ~Silent(r)
    BY <2>1 DEF Silent
  <2>. QED
    BY <1>0, <2>1, <2>2, SameSync
<1>11. CASE AppendRow(s) \/ AppendGeneration(s) \/ AppendBlob(s) \/ AppendCharge(s) \/ AppendFlags(s)
  <2>1. /\ q.list = r.list /\ q.client = r.client /\ q.untold = r.untold /\ q.limit = r.limit
        /\ r.pc \in {"appendrow", "appendgeneration", "appendblob", "appendcharge", "appendflags"}
    <3>1. CASE AppendRow(s)
      <4>1. PICK new : imap' = [imap EXCEPT ![s].pc = "appendgeneration", ![s].new = new,
                                            ![s].arg = "none", ![s].octets = 0]
        BY <3>1 DEF AppendRow
      <4>. QED
        BY <1>0, <3>1, <4>1 DEF AppendRow, At, ImapConnected
    <3>2. CASE AppendGeneration(s) \/ AppendBlob(s) \/ AppendCharge(s)
      BY <1>0, <3>2 DEF AppendGeneration, AppendBlob, AppendCharge, At, ImapConnected
    <3>3. CASE AppendFlags(s)
      BY <1>0, <3>3 DEF AppendFlags, At, ImapConnected
    <3>. QED
      BY <1>11, <3>1, <3>2, <3>3
  <2>2. ~Silent(r)
    BY <2>1 DEF Silent
  <2>. QED
    BY <1>0, <2>1, <2>2, SameSync
<1>12. CASE Delete(s) \/ DeleteFolderRows(s) \/ DeleteRefund(s) \/ DeleteFolder(s) \/ Rename(s)
  <2>1. /\ q.list = r.list /\ q.client = r.client /\ q.untold = r.untold /\ q.limit = r.limit
        /\ r.pc \in {"delete", "deleterows", "deleterefund", "deletefolder", "rename"}
    <3>1. CASE Delete(s)
      <4>1. PICK f, S : imap' = [imap EXCEPT ![s].pc = "deleterows", ![s].arg = f, ![s].todo = S]
        BY <3>1 DEF Delete
      <4>. QED
        BY <1>0, <3>1, <4>1 DEF Delete, At, ImapConnected
    <3>2. CASE DeleteFolderRows(s)
      BY <1>0, <3>2 DEF DeleteFolderRows, At, ImapConnected
    <3>3. CASE DeleteRefund(s) \/ DeleteFolder(s) \/ Rename(s)
      BY <1>0, <3>3 DEF DeleteRefund, DeleteFolder, Rename, At, ImapConnected
    <3>. QED
      BY <1>12, <3>1, <3>2, <3>3
  <2>2. ~Silent(r)
    BY <2>1 DEF Silent
  <2>. QED
    BY <1>0, <2>1, <2>2, SameSync
<1>. QED
  BY <1>1, <1>2, <1>3, <1>4, <1>5, <1>6, <1>7, <1>8, <1>9, <1>10, <1>11, <1>12

\* Steps by which a command ends at once, or a session.
LEMMA EndsSync ==
    ASSUME Shapes, SyncInv, NEW s \in ImapSessions,
           \/ Refused(s) \/ CopyCheck(s) \/ AppendCommand(s) \/ Status(s)
           \/ Logout(s) \/ ImapDisconnect(s) \/ ImapKilled(s) \/ ExpungeDone(s)
    PROVE  SyncOK(imap'[s])
<1>. DEFINE r == imap[s]
            q == imap'[s]
<1>0. DOMAIN r = DOMAIN ImapConnected /\ DOMAIN imap = ImapSessions /\ SyncOK(r)
  BY DEF Shapes, SyncInv
<1>a. ASSUME NEW z, DOMAIN z = DOMAIN ImapConnected, SyncOK(z), ~Silent(z) PROVE SyncOK(Ready(z))
  <2>1. GoesOn(z, "ready") = Ready(z)
    BY DEF GoesOn, Ready
  <2>. QED
    BY <1>a, <2>1, GoesOnSync
<1>1. CASE Refused(s)
  <2>1. q = Ready(r) /\ ~Silent(r)
    BY <1>0, <1>1 DEF Refused, Silent
  <2>. QED
    BY <1>0, <1>a, <2>1
<1>2. CASE CopyCheck(s)
  <2>1. ~Silent(r)
    BY <1>2 DEF CopyCheck, At, Silent
  <2>2. \/ q = Ready(r)
        \/ /\ q.list = r.list /\ q.client = r.client /\ q.untold = r.untold /\ q.limit = r.limit
    BY <1>0, <1>2 DEF CopyCheck, ImapConnected
  <2>. QED
    BY <1>0, <1>a, <2>1, <2>2, SameSync
<1>3. CASE AppendCommand(s)
  <2>1. ~Silent(r)
    BY <1>3 DEF AppendCommand, At, Silent
  <2>2. PICK f, n : imap' = IF used + n > SizeLimit \/ Fresh = {}
                            THEN [imap EXCEPT ![s] = Ready(@)]
                            ELSE [imap EXCEPT ![s].pc = "appendrow", ![s].arg = f, ![s].octets = n]
    BY <1>3 DEF AppendCommand
  <2>3. \/ q = Ready(r)
        \/ /\ q.list = r.list /\ q.client = r.client /\ q.untold = r.untold /\ q.limit = r.limit
    BY <1>0, <2>2 DEF ImapConnected
  <2>. QED
    BY <1>0, <1>a, <2>1, <2>3, SameSync
<1>4. CASE Status(s)
  <2>a. PICK back, backDels :
           imap' = [imap EXCEPT ![s] = Skip([imap[s] EXCEPT !.pc = "writeback", !.then = "ready",
                                               !.back = back, !.backDels = backDels])]
    BY <1>4, StatusWritesBack
  <2>1. q = Skip([r EXCEPT !.pc = "writeback", !.then = "ready", !.back = back, !.backDels = backDels])
    BY <1>0, <2>a
  <2>. DEFINE z == [r EXCEPT !.pc = "writeback", !.then = "ready", !.back = back, !.backDels = backDels]
  <2>2. ~Silent(r)
    BY <1>4 DEF Status, At, Silent
  <2>3. DOMAIN z = DOMAIN ImapConnected /\ z.pc = "writeback" /\ SyncOK(z)
    BY <1>0, <2>2, SameSync DEF ImapConnected
  <2>. HIDE DEF z
  <2>. QED
    BY <2>1, <2>3, SkipSync DEF z
<1>5. CASE Logout(s)
  <2>1. r.pc = "ready" /\ (q = [r EXCEPT !.pc = "logout"] \/ q = LoggedOut)
    BY <1>0, <1>5 DEF Logout, At
  <2>2. CASE q = [r EXCEPT !.pc = "logout"]
    BY <1>0, <2>1, <2>2, SameSync DEF ImapConnected, Silent
  <2>. QED
    BY <2>1, <2>2, LoggedOutSync
<1>6. CASE ImapDisconnect(s) \/ ImapKilled(s)
  <2>1. q = LoggedOut
    BY <1>0, <1>6 DEF ImapDisconnect, ImapKilled
  <2>. QED
    BY <2>1, LoggedOutSync
<1>7. CASE ExpungeDone(s)
  <2>1. r.pc \in Expunging /\ q = Expunged(r)
    BY <1>0, <1>7, ExpungedRecord
  <2>. DEFINE d == [r EXCEPT !.freed = {}]
              e == Deselected(d)
  <2>2. /\ DOMAIN d = DOMAIN ImapConnected /\ d.pc = r.pc /\ d.then = r.then /\ d.list = r.list
        /\ d.client = r.client /\ d.untold = r.untold /\ d.limit = r.limit
    BY <1>0 DEF ImapConnected
  <2>3. SyncOK(d)
    BY <1>0, <2>2, SameSync DEF Silent
  <2>4. /\ r.pc = "expunge"  => q = Ready(d)
        /\ r.pc = "close"    => q = Ready(e)
        /\ r.pc = "reselect" => q = [e EXCEPT !.pc = "open"]
        /\ r.pc = "logout"   => q = LoggedOut
    BY <2>1 DEF Expunged
  <2>. HIDE DEF d
  <2>5. /\ DOMAIN e = DOMAIN ImapConnected /\ e.list = <<>> /\ e.client = <<>> /\ e.limit = d.limit
    BY <2>2 DEF Deselected, ImapConnected
  <2>. HIDE DEF e
  <2>6. SyncOK(e) /\ SyncOK([e EXCEPT !.pc = "open"])
    <3>1. <<>> \in Seq(Mails) /\ Ascends(<<>>)
      BY DEF Ascends
    <3>2. d.limit \in Nat
      BY <2>3 DEF SyncOK
    <3>. QED
      BY <2>5, <3>1, <3>2 DEF SyncOK, ImapConnected
  <2>7. SyncOK(Ready(e))
    <3>1. /\ Ready(e).list = <<>> /\ Ready(e).client = <<>> /\ Ready(e).limit = e.limit
      BY <2>5 DEF Ready, Waiting, ImapConnected
    <3>. QED
      BY <2>5, <2>6, <3>1 DEF SyncOK
  <2>8. r.pc = "expunge" => ~Silent(d)
    BY <2>2 DEF Silent
  <2>. QED
    BY <1>a, <2>1, <2>2, <2>3, <2>4, <2>6, <2>7, <2>8, LoggedOutSync DEF Expunging
<1>. QED
  BY <1>1, <1>2, <1>3, <1>4, <1>5, <1>6, <1>7

\* The position of the first message to be expunged is one of the list.
LEMMA FirstInList ==
    ASSUME NEW r
    PROVE  FirstDeleted(r) = 0 \/ FirstDeleted(r) \in 1..Len(r.list)
<1>. DEFINE marked == {i \in 1..Len(r.list) : r.list[i] \in r.dels}
<1>1. FirstDeleted(r) = IF marked # {} THEN Min(marked) ELSE 0
  BY DEF FirstDeleted, SelectInSeq
<1>2. CASE marked # {}
  <2>1. marked \in SUBSET Nat
    OBVIOUS
  <2>2. Min(marked) \in marked
    <3>. HIDE DEF marked
    <3>. QED
      BY <1>2, <2>1, LeastIsOne
  <2>. QED
    BY <1>1, <1>2, <2>2
<1>. QED
  BY <1>1, <1>2

\* A list in order still is when a message is taken out.
LEMMA WithoutAscends ==
    ASSUME NEW l \in Seq(Mails), Ascends(l), NEW k \in DOMAIN l
    PROVE  Without(l, k) \in Seq(Mails) /\ Ascends(Without(l, k))
<1>. DEFINE less == Without(l, k)
<1>1. k \in Nat /\ k \in 1..Len(l) /\ DOMAIN l = 1..Len(l) /\ Len(l) \in Nat
  OBVIOUS
<1>2. /\ less \in Seq(Mails) /\ Len(less) = Len(l) - 1
      /\ \A j \in 1..(Len(l) - 1) : less[j] = IF j < k THEN l[j] ELSE l[j + 1]
  BY <1>1, WithoutType, Zenon
<1>. HIDE DEF less
<1>3. DOMAIN less = 1..(Len(l) - 1)
  BY <1>2
<1>4. ASSUME NEW i \in DOMAIN less, NEW j \in DOMAIN less, i < j PROVE less[i] < less[j]
  <2>. DEFINE a == IF i < k THEN i ELSE i + 1
              b == IF j < k THEN j ELSE j + 1
  <2>1. a \in DOMAIN l /\ b \in DOMAIN l /\ a < b
    BY <1>1, <1>3, <1>4
  <2>2. less[i] = l[a] /\ less[j] = l[b]
    BY <1>2, <1>3
  <2>. HIDE DEF a, b
  <2>3. l[a] < l[b]
    BY <2>1 DEF Ascends
  <2>. QED
    BY <2>2, <2>3
<1>. QED
  BY <1>2, <1>4 DEF Ascends, less

\* EXPUNGE tells the client the number of each message it removes from the list.
LEMMA ExpungeRowSync ==
    ASSUME Shapes, SyncInv, NEW s \in ImapSessions, LedgerOK(imap[s]), ExpungeRow(s)
    PROVE  SyncOK(imap'[s])
<1>. DEFINE r == imap[s]
            q == imap'[s]
            k == FirstDeleted(r)
            less == RemoveAt(r.list, k)
<1>0. DOMAIN r = DOMAIN ImapConnected /\ DOMAIN imap = ImapSessions /\ SyncOK(r) /\ r.pc = "row"
      /\ r.then \in Expunging
  BY DEF Shapes, SyncInv, ExpungeRow, At, LedgerOK
<1>1. /\ q.pc = r.then /\ q.list = less /\ q.untold = r.untold /\ q.limit = r.limit
      /\ q.client = IF r.then = "expunge" /\ k \in DOMAIN r.client
                    THEN RemoveAt(r.client, k) ELSE r.client
  BY <1>0 DEF ExpungeRow, ImapConnected
<1>2. k \in Nat /\ (k = 0 \/ k \in DOMAIN r.list) /\ r.list \in Seq(Mails) /\ Ascends(r.list)
  BY <1>0, FirstInList DEF SyncOK
<1>. HIDE DEF k
<1>3. /\ less \in Seq(Mails) /\ Ascends(less)
      /\ k = 0 => less = r.list
  <2>1. CASE k = 0
    <3>1. less = r.list
      BY <1>2, <2>1 DEF RemoveAt
    <3>. QED
      BY <1>2, <3>1
  <2>2. CASE k \in DOMAIN r.list
    <3>1. less = Without(r.list, k)
      BY <2>2 DEF Without
    <3>. QED
      BY <1>2, <2>2, <3>1, WithoutAscends
  <2>. QED
    BY <1>2, <2>1, <2>2
<1>. HIDE DEF less
<1>5. ASSUME ~q.untold, ~Silent(q) PROVE q.client = q.list
  <2>1. CASE r.then \in {"close", "reselect", "logout"}
    BY <1>1, <1>5, <2>1 DEF Silent
  <2>2. CASE r.then \notin {"close", "reselect", "logout"}
    <3>1. r.client = r.list
      BY <1>0, <1>1, <1>5, <2>2 DEF Silent, SyncOK
    <3>2. r.then = "expunge"
      BY <1>0, <2>2 DEF Expunging
    <3>3. CASE k = 0
      BY <1>1, <1>2, <1>3, <3>1, <3>2, <3>3
    <3>4. CASE k \in DOMAIN r.list
      BY <1>1, <3>1, <3>2, <3>4 DEF less
    <3>. QED
      BY <1>2, <3>3, <3>4
  <2>. QED
    BY <2>1, <2>2
<1>. QED
  BY <1>0, <1>1, <1>3, <1>5 DEF SyncOK


\* A refresh tells the client every change of the list.
LEMMA RefreshSync ==
    ASSUME Shapes, SyncInv, NEW s \in ImapSessions, Refresh(s)
    PROVE  SyncOK(imap'[s])
<1>. DEFINE r == imap[s]
            z == Refetch(r, r.sel)
<1>0. DOMAIN r = DOMAIN ImapConnected /\ DOMAIN imap = ImapSessions /\ SyncOK(r) /\ ~Silent(r)
  BY DEF Shapes, SyncInv, Refresh, At, Silent
<1>1. imap'[s] = Skip([z EXCEPT !.gen = z.read,
                                !.client = IF z.untold THEN z.list ELSE Told(z.client, r.list, z.list),
                                !.raced = FALSE])
  BY <1>0 DEF Refresh
<1>2. /\ DOMAIN z = DOMAIN ImapConnected /\ z.pc = "writeback" /\ z.list \in Seq(Mails) /\ Ascends(z.list)
      /\ z.limit \in Nat /\ z.client = r.client /\ z.untold = r.untold
  BY <1>0, RefetchSync DEF SyncOK
<1>. HIDE DEF z
<1>3. z.untold \/ Told(z.client, r.list, z.list) = z.list
  <2>1. CASE ~r.untold
    <3>1. r.list \in Seq(Mails) /\ z.client = r.list
      BY <1>0, <1>2, <2>1 DEF SyncOK
    <3>. QED
      BY <1>2, <3>1, AllTold
  <2>. QED
    BY <1>2, <2>1
<1>. DEFINE y == [z EXCEPT !.gen = z.read,
                           !.client = IF z.untold THEN z.list ELSE Told(z.client, r.list, z.list),
                           !.raced = FALSE]
<1>4. /\ DOMAIN y = DOMAIN ImapConnected /\ y.pc = "writeback" /\ y.list = z.list /\ y.limit = z.limit
      /\ y.client = y.list
  BY <1>2, <1>3 DEF ImapConnected
<1>. HIDE DEF y
<1>5. SyncOK(y)
  BY <1>2, <1>4 DEF SyncOK
<1>. QED
  BY <1>1, <1>4, <1>5, SkipSync DEF y

\* SELECT tells the client the list when it has been read; the one read after APPEND
\* is not told.
LEMMA ReadSync ==
    ASSUME Shapes, SyncInv, NEW s \in ImapSessions, Open(s) \/ Opened(s) \/ Reread(s)
    PROVE  SyncOK(imap'[s])
<1>. DEFINE r == imap[s]
            q == imap'[s]
<1>0. DOMAIN r = DOMAIN ImapConnected /\ DOMAIN imap = ImapSessions /\ SyncOK(r)
  BY DEF Shapes, SyncInv
<1>1. CASE Open(s)
  <2>. DEFINE o == [r EXCEPT !.sel = r.arg, !.arg = "none", !.read = gen, !.then = "opened"]
              z == Refetch(o, r.arg)
  <2>1. q = Skip(z)
    BY <1>0, <1>1 DEF Open
  <2>2. DOMAIN o = DOMAIN ImapConnected /\ o.limit \in Nat /\ o.then = "opened"
    BY <1>0 DEF SyncOK, ImapConnected
  <2>. HIDE DEF o
  <2>3. /\ DOMAIN z = DOMAIN ImapConnected /\ z.pc = "writeback" /\ z.then = "opened"
        /\ z.list \in Seq(Mails) /\ Ascends(z.list) /\ z.limit \in Nat
    BY <2>2, RefetchSync
  <2>. HIDE DEF z
  <2>. QED
    BY <2>1, <2>3, SkipSync DEF SyncOK, Silent
<1>2. CASE Opened(s)
  <2>. DEFINE o == [r EXCEPT !.gen = gen, !.client = r.list, !.untold = FALSE, !.raced = (r.read # gen)]
  <2>1. q = Waiting(o, "ready")
    BY <1>0, <1>2 DEF Opened, Ready
  <2>2. /\ DOMAIN o = DOMAIN ImapConnected /\ o.list = r.list /\ o.client = r.list /\ o.limit = r.limit
    BY <1>0 DEF ImapConnected
  <2>. HIDE DEF o
  <2>3. q.list = r.list /\ q.client = r.list /\ q.limit = r.limit
    BY <2>1, <2>2 DEF Waiting, ImapConnected
  <2>. QED
    BY <1>0, <2>3 DEF SyncOK
<1>3. CASE Reread(s)
  <2>. DEFINE o == [r EXCEPT !.then = "ready"]
              z == Refetch(o, r.sel)
  <2>1. q = Skip([z EXCEPT !.untold = z.untold \/ z.list # z.client])
    BY <1>0, <1>3 DEF Reread
  <2>2. DOMAIN o = DOMAIN ImapConnected /\ o.limit \in Nat
    BY <1>0 DEF SyncOK, ImapConnected
  <2>. HIDE DEF o
  <2>3. /\ DOMAIN z = DOMAIN ImapConnected /\ z.pc = "writeback" /\ z.list \in Seq(Mails) /\ Ascends(z.list)
        /\ z.limit \in Nat
    BY <2>2, RefetchSync
  <2>. HIDE DEF z
  <2>. DEFINE y == [z EXCEPT !.untold = z.untold \/ z.list # z.client]
  <2>4. /\ DOMAIN y = DOMAIN ImapConnected /\ y.pc = "writeback" /\ y.list = z.list
        /\ y.limit = z.limit /\ y.client = z.client /\ y.untold = (z.untold \/ z.list # z.client)
    BY <2>3 DEF ImapConnected
  <2>. HIDE DEF y
  <2>5. SyncOK(y)
    BY <2>3, <2>4 DEF SyncOK
  <2>. QED
    BY <2>1, <2>4, <2>5, SkipSync DEF y
<1>. QED
  BY <1>1, <1>2, <1>3

\* SyncInv holds initially ...
LEMMA SyncStart == Init => SyncInv
<1>1. SUFFICES ASSUME Init, NEW s \in ImapSessions PROVE SyncOK(imap[s])
  BY DEF SyncInv
<1>2. imap[s] = ImapConnected
  BY <1>1 DEF Init, ImapInit
<1>. QED
  BY <1>2, LoggedOutSync

\* ... and is kept.
LEMMA SyncStep ==
    ASSUME Shapes, AccountInv, SyncInv, [Next]_vars
    PROVE  SyncInv'
<1>1. ASSUME NEW s \in ImapSessions, ImapStep(s), UNCHANGED pop PROVE SyncInv'
  <2>1. SyncOK(imap'[s])
    <3>1. CASE ExpungeRow(s)
      <4>1. LedgerOK(imap[s])
        BY DEF AccountInv
      <4>. QED
        BY <3>1, <4>1, ExpungeRowSync
    <3>2. CASE \/ Refused(s) \/ CopyCheck(s) \/ AppendCommand(s) \/ Status(s)
               \/ Logout(s) \/ ImapDisconnect(s) \/ ImapKilled(s) \/ ExpungeDone(s)
      BY <3>2, EndsSync
    <3>3. CASE \/ Begin(s) \/ Login(s) \/ Idle(s) \/ Poll(s) \/ Select(s) \/ Store(s) \/ WriteBack(s)
               \/ Announce(s) \/ ExpungeBlob(s) \/ ExpungeGeneration(s) \/ Copy(s) \/ CopyRow(s)
               \/ CopyBlob(s) \/ CopyGeneration(s) \/ CopyCharge(s) \/ AppendRow(s) \/ AppendGeneration(s)
               \/ AppendBlob(s) \/ AppendCharge(s) \/ AppendFlags(s) \/ Delete(s) \/ DeleteFolderRows(s)
               \/ DeleteRefund(s) \/ DeleteFolder(s) \/ Rename(s)
      BY <3>3, QuietSync
    <3>4. CASE Refresh(s)
      BY <3>4, RefreshSync
    <3>5. CASE Open(s) \/ Opened(s) \/ Reread(s)
      BY <3>5, ReadSync
    <3>. QED
      BY <1>1, <3>1, <3>2, <3>3, <3>4, <3>5 DEF ImapStep
  <2>2. ASSUME NEW t \in ImapSessions PROVE SyncOK(imap'[t])
    BY <1>1, <2>1, ImapAlone DEF OnlyImap, SyncInv
  <2>. QED
    BY <2>2 DEF SyncInv, SyncOK, Silent
<1>2. CASE UNCHANGED imap
  BY <1>2 DEF SyncInv, SyncOK, Silent
<1>3. UNCHANGED imap \/ \E s \in ImapSessions : ImapStep(s) /\ UNCHANGED pop
  BY DEF Next, vars, imapVars
<1>. QED
  BY <1>1, <1>2, <1>3

\* The UIDs of a session's messages ascend with their sequence numbers, whatever is
\* expunged, refreshed or cut to the limit: FetchMessages sorts, and no command
\* changes the order.
ListsAscend == \A s \in ImapSessions : Ascends(imap[s].list)

\* Proved with the same invariant.
THEOREM MailListsAscend == Spec => []ListsAscend
<1>1. Shapes /\ WantInv /\ AccountInv /\ SyncInv /\ [Next]_vars
        => (Shapes /\ WantInv /\ AccountInv /\ SyncInv)'
  BY WishesStep, BooksStep, SyncStep
<1>2. SyncInv => ListsAscend
  BY DEF SyncInv, SyncOK, ListsAscend
<1>. QED
  BY <1>1, <1>2, WishesStart, BooksStart, SyncStart, PTL DEF Spec

\* Between two commands a client's sequence numbers are those of its session: what
\* ReportDelta makes of two lists, and EXPUNGE of the messages it removes, tells the
\* client every change, whatever has happened to the mailbox between.
THEOREM MailClientInSync == Spec => []ClientInSync
<1>1. Shapes /\ WantInv /\ AccountInv /\ SyncInv /\ [Next]_vars
        => (Shapes /\ WantInv /\ AccountInv /\ SyncInv)'
  BY WishesStep, BooksStep, SyncStep
<1>2. SyncInv => ClientInSync
  BY DEF SyncInv, SyncOK, Silent, ClientInSync
<1>. QED
  BY <1>1, <1>2, WishesStart, BooksStart, SyncStart, PTL DEF Spec
=============================================================================
