--------------------------- MODULE MsgQueueProofs ---------------------------
(***************************************************************************)
(* Proofs about MsgQueue for any number of messages, senders, recipients   *)
(* and workers, any bound on restarts and any set of commands.  First its  *)
(* types, that nothing accepted is lost, that what is queued has its file, *)
(* and that the queue implements StoreAndForward; then, on top of that     *)
(* invariant, what is in flight: a message is never handed to two workers, *)
(* delivered twice or left behind without cause, a refused one is not      *)
(* delivered, and the pool's queue stays bounded.                          *)
(***************************************************************************)
EXTENDS MsgQueue, FiniteSetTheorems, TLAPS

\* The program counters of EnqueueMessage, and those from which a sender still
\* comes to its 250 reply.
Enqueueing == {"assemble", "copy", "finish"}
Pending    == Enqueueing \cup {"idle", "next", "reply"}

\* The ids a sender has: those in its queueIDs and the one it works on.
Own(s) == sIds[s] \cup (IF sPc[s] \in Enqueueing THEN {sCur[s]} ELSE {})

\* What an id needs to be promised: it is in the table or dealt with, and its
\* file is there as long as the row is.
Kept(i)  == i \in rows \/ delivered[i] > 0 \/ i \in bounced \cup dropped \cup removed
Filed(i) == i \in rows \ removed => file[i] \in Copied

\* The table lock keeps the batch in the table until it is marked, and the rows
\* to be cleared are those whose files went.
LockInv ==
    /\ lock = "daemon" <=> mainPc = "mark"
    /\ mainPc = "mark" => todo \subseteq rows
    /\ lock = "control" => rows \ active \subseteq removed

\* Only ids that were handed out are worked on or dealt with.
UsedInv ==
    /\ todo \subseteq used
    /\ \A x \in Items : stage[x] # "free" => x[1] \in used
    /\ bounced \subseteq used /\ dropped \subseteq used /\ removed \subseteq used
    /\ \A i \in Ids : delivered[i] > 0 => i \in used

\* A success stands for a delivery; the item being bounced is dealt with once
\* the bounce is released or has failed; until then the bounce is an active row
\* nobody has been promised.
ResultInv ==
    /\ \A x \in Items : stage[x] = "success" => delivered[x[1]] > 0
    /\ cur # None => cur \in taken /\ cur[1] \in used /\ mainPc \in {"results", "lastResults"}
    /\ cur # None /\ bnc = None => cur[1] \in bounced \cup dropped
    /\ bnc # None => cur # None /\ bnc \in (rows \cap active) \ accepted

\* A sender's ids are its own; none is promised before the reply; until then
\* each is kept, and filed once EnqueueMessage has returned it.
SenderOK(s) ==
    /\ Own(s) \subseteq used \ BounceIds
    /\ sPc[s] \in Enqueueing => sCur[s] \notin sIds[s] \cup accepted
    /\ sPc[s] # "ok" => sIds[s] \cap accepted = {}
    /\ sPc[s] = "reply" => sIds[s] \subseteq released
    /\ sPc[s] \in Pending => \A i \in Own(s) : Kept(i)
    /\ sPc[s] \in Pending => \A i \in sIds[s] : Filed(i)
    /\ sPc[s] = "finish" => Filed(sCur[s])

SenderInv ==
    /\ \A s \in Senders : SenderOK(s)
    /\ \A s, t \in Senders : s # t => Own(s) \cap Own(t) = {}

\* The inductive invariant.
DaemonInv == LockInv /\ UsedInv /\ ResultInv
QueueInv  == TypeOK /\ DaemonInv /\ SenderInv /\ NeverLost /\ AcceptedHasFile

\* The steps that are not a sender's.
OtherStep ==
    \/ Reanimate \/ MainStep \/ Quit \/ Crash
    \/ \E x \in Items : WorkerStep(x)
    \/ Control
    \/ \E i \in Ids : AdminMark(i) \/ BackOffOver(i) \/ LifetimeOver(i)

-----------------------------------------------------------------------------
(***************************************************************************)
(* Types.                                                                  *)
(***************************************************************************)

\* The rows a run of ProcessQueue reads are eligible.
LEMMA BatchesEligible == \A B \in Batches : B \subseteq Eligible
BY DEF Batches

\* A sender's ids have been handed out.
LEMMA OwnTypes ==
    ASSUME SenderInv, NEW s \in Senders
    PROVE  /\ sIds[s] \subseteq used \ BounceIds
           /\ sPc[s] \in Enqueueing => sCur[s] \in used \ BounceIds
BY DEF SenderInv, SenderOK, Own, Enqueueing

\* A sender's steps keep the types.
LEMMA SenderTypes ==
    ASSUME TypeOK, SenderInv, NEW s \in Senders, SenderStep(s) \/ SenderCrash(s)
    PROVE  TypeOK'
<1>. USE DEF TypeOK, SenderOnly, daemonVars, tableVars, ghostVars
<1>0. /\ sIds[s] \subseteq used
      /\ sPc[s] \in Enqueueing => sCur[s] \in used
  BY OwnTypes
<1>1. ASSUME EnqueueInsert(s) PROVE TypeOK'
  BY <1>1, <1>0, QueueAssumption DEF EnqueueInsert, InsertActive, Enqueueing
<1>2. ASSUME EnqueueNoTmpfile(s) PROVE TypeOK'
  BY <1>2, <1>0, QueueAssumption DEF EnqueueNoTmpfile, Enqueueing
<1>3. ASSUME EnqueueNoFile(s) PROVE TypeOK'
  BY <1>3, <1>0, QueueAssumption DEF EnqueueNoFile, RemoveRow, DeleteRows, Enqueueing
<1>4. ASSUME EnqueueOpen(s) PROVE TypeOK'
  BY <1>4, <1>0, QueueAssumption DEF EnqueueOpen, Enqueueing
<1>5. ASSUME EnqueueCopy(s) PROVE TypeOK'
  BY <1>5, <1>0, QueueAssumption DEF EnqueueCopy, Copied, Enqueueing
<1>6. ASSUME EnqueueFinish(s) PROVE TypeOK'
  BY <1>6, <1>0, QueueAssumption DEF EnqueueFinish, Enqueueing
<1>7. ASSUME Release(s) PROVE TypeOK'
  BY <1>7, <1>0, QueueAssumption DEF Release, Deactivate, Enqueueing
<1>8. ASSUME Reply(s) PROVE TypeOK'
  BY <1>8, <1>0, QueueAssumption DEF Reply, Enqueueing, SenderInv, SenderOK
<1>9. ASSUME DeleteFiles(s) PROVE TypeOK'
  BY <1>9, <1>0, QueueAssumption DEF DeleteFiles, Enqueueing
<1>10. ASSUME DeleteMessages(s) PROVE TypeOK'
  BY <1>10, <1>0, QueueAssumption DEF DeleteMessages, DeleteRows, Enqueueing
<1>11. ASSUME SenderCrash(s) PROVE TypeOK'
  BY <1>11, <1>0, QueueAssumption DEF SenderCrash, Enqueueing
<1>. QED
  BY <1>1, <1>2, <1>3, <1>4, <1>5, <1>6, <1>7, <1>8, <1>9, <1>10, <1>11 DEF
     SenderStep

\* So do all other steps; the batch that is marked is made of rows.
LEMMA OtherTypes ==
    ASSUME TypeOK, LockInv, UsedInv, ResultInv, OtherStep
    PROVE  TypeOK'
<1>. USE DEF TypeOK, daemonVars, tableVars, senderVars, ghostVars, Items, ResultSt
<1>1. ASSUME Reanimate PROVE TypeOK'
  BY <1>1, QueueAssumption DEF Reanimate
<1>2. ASSUME BeginRun PROVE TypeOK'
  BY <1>2, QueueAssumption DEF BeginRun
<1>3. ASSUME NEW i \in Ids, PurgeRow(i) PROVE TypeOK'
  BY <1>3, QueueAssumption DEF PurgeRow, RemoveRow, DeleteRows
<1>4. ASSUME Dispatch PROVE TypeOK'
  BY <1>4, QueueAssumption, BatchesEligible DEF Dispatch, Eligible
<1>5. ASSUME DispatchNothing PROVE TypeOK'
  BY <1>5, QueueAssumption DEF DispatchNothing
<1>6. ASSUME MarkActive PROVE TypeOK'
  BY <1>6, QueueAssumption DEF MarkActive, LockInv
<1>7. ASSUME SkipRun PROVE TypeOK'
  BY <1>7, QueueAssumption DEF SkipRun
<1>8. ASSUME SwapResults PROVE TypeOK'
  BY <1>8, QueueAssumption DEF SwapResults, Results
<1>9. ASSUME NEW x \in Items, ResultSuccess(x) PROVE TypeOK'
  BY <1>9, QueueAssumption DEF ResultSuccess, InResults, RemoveRow, DeleteRows, Discard
<1>10. ASSUME NEW x \in Items, ResultDeferred(x) PROVE TypeOK'
  BY <1>10, QueueAssumption DEF ResultDeferred, InResults, Discard
<1>11. ASSUME NEW x \in Items, ResultDropped(x) PROVE TypeOK'
  BY <1>11, QueueAssumption DEF ResultDropped, InResults, Failed, RemoveRow,
     DeleteRows, Discard
<1>12. ASSUME NEW x \in Items, BounceInsert(x) PROVE TypeOK'
  BY <1>12, QueueAssumption DEF BounceInsert, InResults, Failed, InsertActive
<1>13. ASSUME NEW x \in Items, NoBounceId(x) PROVE TypeOK'
  BY <1>13, QueueAssumption DEF NoBounceId, InResults, Failed
<1>14. ASSUME BounceWrite PROVE TypeOK'
  BY <1>14, QueueAssumption DEF BounceWrite, Copied
<1>15. ASSUME BounceRelease PROVE TypeOK'
  BY <1>15, QueueAssumption DEF BounceRelease, Deactivate, ResultInv
<1>16. ASSUME BounceFails PROVE TypeOK'
  BY <1>16, QueueAssumption DEF BounceFails, RemoveRow, DeleteRows
<1>17. ASSUME BounceDone PROVE TypeOK'
  BY <1>17, QueueAssumption DEF BounceDone, RemoveRow, DeleteRows, Discard
<1>18. ASSUME ResultsDone PROVE TypeOK'
  BY <1>18, QueueAssumption DEF ResultsDone
<1>19. ASSUME WorkersStopped PROVE TypeOK'
  BY <1>19, QueueAssumption DEF WorkersStopped
<1>20. ASSUME ClearQueue PROVE TypeOK'
  BY <1>20, QueueAssumption DEF ClearQueue, Deactivate, Queued
<1>21. ASSUME Quit PROVE TypeOK'
  BY <1>21, QueueAssumption DEF Quit
<1>22. ASSUME Crash PROVE TypeOK'
  BY <1>22, QueueAssumption DEF Crash
<1>23. ASSUME NEW x \in Items, Pop(x) PROVE TypeOK'
  BY <1>23, QueueAssumption DEF Pop, WorkerOnly
<1>24. ASSUME NEW x \in Items, Deliver(x) PROVE TypeOK'
  BY <1>24, QueueAssumption DEF Deliver, WorkerOnly
<1>25. ASSUME NEW x \in Items, DeliverUnanswered(x) PROVE TypeOK'
  BY <1>25, QueueAssumption DEF DeliverUnanswered, WorkerOnly
<1>26. ASSUME NEW x \in Items, NEW status \in {"temp", "fatal"}, Fail(x, status) PROVE TypeOK'
  BY <1>26, QueueAssumption DEF Fail, WorkerOnly
<1>27. ASSUME NEW i \in Ids, ControlDelete(i) PROVE TypeOK'
  BY <1>27, QueueAssumption DEF ControlDelete, TableFree, RemoveRow, DeleteRows
<1>28. ASSUME ControlFlush PROVE TypeOK'
  BY <1>28, QueueAssumption DEF ControlFlush, TableFree
<1>29. ASSUME ControlClearFiles PROVE TypeOK'
  BY <1>29, QueueAssumption DEF ControlClearFiles, TableFree
<1>30. ASSUME ControlClearRows PROVE TypeOK'
  BY <1>30, QueueAssumption DEF ControlClearRows, DeleteRows
<1>31. ASSUME NEW i \in Ids, AdminMark(i) PROVE TypeOK'
  BY <1>31, QueueAssumption DEF AdminMark
<1>32. ASSUME NEW i \in Ids, BackOffOver(i) PROVE TypeOK'
  BY <1>32, QueueAssumption DEF BackOffOver
<1>33. ASSUME NEW i \in Ids, LifetimeOver(i) PROVE TypeOK'
  BY <1>33, QueueAssumption DEF LifetimeOver
<1>. QED
  BY <1>1, <1>2, <1>3, <1>4, <1>5, <1>6, <1>7, <1>8, <1>9, <1>10, <1>11,
     <1>12, <1>13, <1>14, <1>15, <1>16, <1>17, <1>18, <1>19, <1>20, <1>21,
     <1>22, <1>23, <1>24, <1>25, <1>26, <1>27, <1>28, <1>29, <1>30, <1>31,
     <1>32, <1>33 DEF OtherStep, MainStep, ProcessQueue, ProcessResults,
     ProcessResult, WorkerStep, Control

-----------------------------------------------------------------------------
(***************************************************************************)
(* The daemon's part of the invariant.                                     *)
(***************************************************************************)

\* A sender's step leaves it alone: the sender cannot touch the table while it
\* is locked, nor the row of the bounce, whose id is none of its own.
LEMMA SenderKeepsDaemonInv ==
    ASSUME TypeOK, DaemonInv, SenderInv, NEW s \in Senders, SenderStep(s) \/ SenderCrash(s)
    PROVE  DaemonInv'
<1>. USE DEF SenderOnly, daemonVars, tableVars, ghostVars, DaemonInv, LockInv, UsedInv,
             ResultInv, TypeOK
<1>0. /\ sIds[s] \subseteq used \ BounceIds
      /\ sPc[s] \in Enqueueing => sCur[s] \in used \ BounceIds
  BY OwnTypes
<1>1. ASSUME EnqueueInsert(s) PROVE DaemonInv'
  BY <1>1, <1>0 DEF EnqueueInsert, InsertActive, Enqueueing
<1>2. ASSUME EnqueueNoTmpfile(s) PROVE DaemonInv'
  BY <1>2, <1>0 DEF EnqueueNoTmpfile, Enqueueing
<1>3. ASSUME EnqueueNoFile(s) PROVE DaemonInv'
  BY <1>3, <1>0 DEF EnqueueNoFile, RemoveRow, DeleteRows, Enqueueing
<1>4. ASSUME EnqueueOpen(s) PROVE DaemonInv'
  BY <1>4, <1>0 DEF EnqueueOpen, Enqueueing
<1>5. ASSUME EnqueueCopy(s) PROVE DaemonInv'
  BY <1>5, <1>0 DEF EnqueueCopy, Copied, Enqueueing
<1>6. ASSUME EnqueueFinish(s) PROVE DaemonInv'
  BY <1>6, <1>0 DEF EnqueueFinish, Enqueueing
<1>7. ASSUME Release(s) PROVE DaemonInv'
  BY <1>7, <1>0 DEF Release, Deactivate, Enqueueing
<1>8. ASSUME Reply(s) PROVE DaemonInv'
  BY <1>8, <1>0 DEF Reply, Enqueueing
<1>9. ASSUME DeleteFiles(s) PROVE DaemonInv'
  BY <1>9, <1>0 DEF DeleteFiles, Enqueueing
<1>10. ASSUME DeleteMessages(s) PROVE DaemonInv'
  BY <1>10, <1>0 DEF DeleteMessages, DeleteRows, Enqueueing
<1>11. ASSUME SenderCrash(s) PROVE DaemonInv'
  BY <1>11, <1>0 DEF SenderCrash, Enqueueing
<1>. QED
  BY <1>1, <1>2, <1>3, <1>4, <1>5, <1>6, <1>7, <1>8, <1>9, <1>10, <1>11 DEF
     SenderStep

\* The daemon, the control connection and the clock keep it as well.
LEMMA OtherKeepsDaemonInv ==
    ASSUME TypeOK, DaemonInv, OtherStep
    PROVE  DaemonInv'
<1>. USE DEF daemonVars, tableVars, senderVars, ghostVars, DaemonInv, LockInv, UsedInv,
             ResultInv, TypeOK, Items, ResultSt
<1>1. ASSUME Reanimate PROVE DaemonInv'
  BY <1>1 DEF Reanimate
<1>2. ASSUME BeginRun PROVE DaemonInv'
  BY <1>2 DEF BeginRun
<1>3. ASSUME NEW i \in Ids, PurgeRow(i) PROVE DaemonInv'
  BY <1>3 DEF PurgeRow, RemoveRow, DeleteRows
<1>4. ASSUME Dispatch PROVE DaemonInv'
  BY <1>4, BatchesEligible DEF Dispatch, Eligible
<1>5. ASSUME DispatchNothing PROVE DaemonInv'
  BY <1>5 DEF DispatchNothing
<1>6. ASSUME MarkActive PROVE DaemonInv'
  BY <1>6 DEF MarkActive
<1>7. ASSUME SkipRun PROVE DaemonInv'
  BY <1>7 DEF SkipRun
<1>8. ASSUME SwapResults PROVE DaemonInv'
  BY <1>8 DEF SwapResults, Results
<1>9. ASSUME NEW x \in Items, ResultSuccess(x) PROVE DaemonInv'
  BY <1>9 DEF ResultSuccess, InResults, RemoveRow, DeleteRows, Discard
<1>10. ASSUME NEW x \in Items, ResultDeferred(x) PROVE DaemonInv'
  BY <1>10 DEF ResultDeferred, InResults, Discard
<1>11. ASSUME NEW x \in Items, ResultDropped(x) PROVE DaemonInv'
  BY <1>11 DEF ResultDropped, InResults, Failed, RemoveRow, DeleteRows, Discard
<1>12. ASSUME NEW x \in Items, BounceInsert(x) PROVE DaemonInv'
  BY <1>12, QueueAssumption DEF BounceInsert, InResults, Failed, InsertActive
<1>13. ASSUME NEW x \in Items, NoBounceId(x) PROVE DaemonInv'
  BY <1>13 DEF NoBounceId, InResults, Failed
<1>14. ASSUME BounceWrite PROVE DaemonInv'
  BY <1>14 DEF BounceWrite, Copied
<1>15. ASSUME BounceRelease PROVE DaemonInv'
  BY <1>15 DEF BounceRelease, Deactivate
<1>16. ASSUME BounceFails PROVE DaemonInv'
  BY <1>16 DEF BounceFails, RemoveRow, DeleteRows
<1>17. ASSUME BounceDone PROVE DaemonInv'
  BY <1>17 DEF BounceDone, RemoveRow, DeleteRows, Discard
<1>18. ASSUME ResultsDone PROVE DaemonInv'
  BY <1>18 DEF ResultsDone
<1>19. ASSUME WorkersStopped PROVE DaemonInv'
  BY <1>19 DEF WorkersStopped
<1>20. ASSUME ClearQueue PROVE DaemonInv'
  BY <1>20 DEF ClearQueue, Deactivate, Queued
<1>21. ASSUME Quit PROVE DaemonInv'
  BY <1>21 DEF Quit
<1>22. ASSUME Crash PROVE DaemonInv'
  BY <1>22 DEF Crash
<1>23. ASSUME NEW x \in Items, Pop(x) PROVE DaemonInv'
  BY <1>23 DEF Pop, WorkerOnly
<1>24. ASSUME NEW x \in Items, Deliver(x) PROVE DaemonInv'
  BY <1>24 DEF Deliver, WorkerOnly
<1>25. ASSUME NEW x \in Items, DeliverUnanswered(x) PROVE DaemonInv'
  BY <1>25 DEF DeliverUnanswered, WorkerOnly
<1>26. ASSUME NEW x \in Items, NEW status \in {"temp", "fatal"}, Fail(x, status) PROVE DaemonInv'
  BY <1>26 DEF Fail, WorkerOnly
<1>27. ASSUME NEW i \in Ids, ControlDelete(i) PROVE DaemonInv'
  BY <1>27 DEF ControlDelete, TableFree, RemoveRow, DeleteRows
<1>28. ASSUME ControlFlush PROVE DaemonInv'
  BY <1>28 DEF ControlFlush, TableFree
<1>29. ASSUME ControlClearFiles PROVE DaemonInv'
  BY <1>29 DEF ControlClearFiles, TableFree
<1>30. ASSUME ControlClearRows PROVE DaemonInv'
  BY <1>30 DEF ControlClearRows, DeleteRows
<1>31. ASSUME NEW i \in Ids, AdminMark(i) PROVE DaemonInv'
  BY <1>31 DEF AdminMark
<1>32. ASSUME NEW i \in Ids, BackOffOver(i) PROVE DaemonInv'
  BY <1>32 DEF BackOffOver
<1>33. ASSUME NEW i \in Ids, LifetimeOver(i) PROVE DaemonInv'
  BY <1>33 DEF LifetimeOver
<1>. QED
  BY <1>1, <1>2, <1>3, <1>4, <1>5, <1>6, <1>7, <1>8, <1>9, <1>10, <1>11,
     <1>12, <1>13, <1>14, <1>15, <1>16, <1>17, <1>18, <1>19, <1>20, <1>21,
     <1>22, <1>23, <1>24, <1>25, <1>26, <1>27, <1>28, <1>29, <1>30, <1>31,
     <1>32, <1>33 DEF OtherStep, MainStep, ProcessQueue, ProcessResults,
     ProcessResult, WorkerStep, Control

-----------------------------------------------------------------------------
(***************************************************************************)
(* What becomes of a single id.                                            *)
(***************************************************************************)

\* An id that is not the bounce being enqueued stays kept and filed whatever the
\* daemon, the control connection and the administrators do.
OtherFrame ==
    /\ UNCHANGED senderVars
    /\ used \subseteq used' /\ released \subseteq released'
    /\ accepted' \subseteq accepted \cup BounceIds
    /\ \A i \in accepted' \ accepted : Kept(i)' /\ Filed(i)'
    /\ \A i \in used : i # bnc => (Kept(i) => Kept(i)') /\ (Filed(i) => Filed(i)')

\* Each of the other steps is of that kind: what it removes from the table, it has
\* dealt with.
LEMMA OtherStepFrame ==
    ASSUME TypeOK, DaemonInv, OtherStep
    PROVE  OtherFrame
<1>. USE DEF daemonVars, tableVars, senderVars, ghostVars, DaemonInv, LockInv, UsedInv,
             ResultInv, TypeOK, OtherFrame, Kept, Filed, Items
<1>1. ASSUME Reanimate PROVE OtherFrame
  BY <1>1 DEF Reanimate
<1>2. ASSUME BeginRun PROVE OtherFrame
  BY <1>2 DEF BeginRun
<1>3. ASSUME NEW i \in Ids, PurgeRow(i) PROVE OtherFrame
  BY <1>3 DEF PurgeRow, RemoveRow, DeleteRows
<1>4. ASSUME Dispatch PROVE OtherFrame
  BY <1>4 DEF Dispatch
<1>5. ASSUME DispatchNothing PROVE OtherFrame
  BY <1>5 DEF DispatchNothing
<1>6. ASSUME MarkActive PROVE OtherFrame
  BY <1>6 DEF MarkActive
<1>7. ASSUME SkipRun PROVE OtherFrame
  BY <1>7 DEF SkipRun
<1>8. ASSUME SwapResults PROVE OtherFrame
  BY <1>8 DEF SwapResults, Results
<1>9. ASSUME NEW x \in Items, ResultSuccess(x) PROVE OtherFrame
  BY <1>9 DEF ResultSuccess, InResults, RemoveRow, DeleteRows, Discard
<1>10. ASSUME NEW x \in Items, ResultDeferred(x) PROVE OtherFrame
  BY <1>10 DEF ResultDeferred, InResults, Discard
<1>11. ASSUME NEW x \in Items, ResultDropped(x) PROVE OtherFrame
  BY <1>11 DEF ResultDropped, InResults, Failed, RemoveRow, DeleteRows, Discard
<1>12. ASSUME NEW x \in Items, BounceInsert(x) PROVE OtherFrame
  BY <1>12 DEF BounceInsert, InResults, Failed, InsertActive
<1>13. ASSUME NEW x \in Items, NoBounceId(x) PROVE OtherFrame
  BY <1>13 DEF NoBounceId, InResults, Failed
<1>14. ASSUME BounceWrite PROVE OtherFrame
  BY <1>14 DEF BounceWrite, Copied
<1>15. ASSUME BounceRelease PROVE OtherFrame
  BY <1>15 DEF BounceRelease, Deactivate
<1>16. ASSUME BounceFails PROVE OtherFrame
  BY <1>16 DEF BounceFails, RemoveRow, DeleteRows
<1>17. ASSUME BounceDone PROVE OtherFrame
  BY <1>17 DEF BounceDone, RemoveRow, DeleteRows, Discard
<1>18. ASSUME ResultsDone PROVE OtherFrame
  BY <1>18 DEF ResultsDone
<1>19. ASSUME WorkersStopped PROVE OtherFrame
  BY <1>19 DEF WorkersStopped
<1>20. ASSUME ClearQueue PROVE OtherFrame
  BY <1>20 DEF ClearQueue, Deactivate, Queued
<1>21. ASSUME Quit PROVE OtherFrame
  BY <1>21 DEF Quit
<1>22. ASSUME Crash PROVE OtherFrame
  BY <1>22 DEF Crash
<1>23. ASSUME NEW x \in Items, Pop(x) PROVE OtherFrame
  BY <1>23 DEF Pop, WorkerOnly
<1>24. ASSUME NEW x \in Items, Deliver(x) PROVE OtherFrame
  BY <1>24 DEF Deliver, WorkerOnly
<1>25. ASSUME NEW x \in Items, DeliverUnanswered(x) PROVE OtherFrame
  BY <1>25 DEF DeliverUnanswered, WorkerOnly
<1>26. ASSUME NEW x \in Items, NEW status \in {"temp", "fatal"}, Fail(x, status) PROVE OtherFrame
  BY <1>26 DEF Fail, WorkerOnly
<1>27. ASSUME NEW i \in Ids, ControlDelete(i) PROVE OtherFrame
  BY <1>27 DEF ControlDelete, TableFree, RemoveRow, DeleteRows
<1>28. ASSUME ControlFlush PROVE OtherFrame
  BY <1>28 DEF ControlFlush, TableFree
<1>29. ASSUME ControlClearFiles PROVE OtherFrame
  BY <1>29 DEF ControlClearFiles, TableFree
<1>30. ASSUME ControlClearRows PROVE OtherFrame
  BY <1>30 DEF ControlClearRows, DeleteRows
<1>31. ASSUME NEW i \in Ids, AdminMark(i) PROVE OtherFrame
  BY <1>31 DEF AdminMark
<1>32. ASSUME NEW i \in Ids, BackOffOver(i) PROVE OtherFrame
  BY <1>32 DEF BackOffOver
<1>33. ASSUME NEW i \in Ids, LifetimeOver(i) PROVE OtherFrame
  BY <1>33 DEF LifetimeOver
<1>. QED
  BY <1>1, <1>2, <1>3, <1>4, <1>5, <1>6, <1>7, <1>8, <1>9, <1>10, <1>11,
     <1>12, <1>13, <1>14, <1>15, <1>16, <1>17, <1>18, <1>19, <1>20, <1>21,
     <1>22, <1>23, <1>24, <1>25, <1>26, <1>27, <1>28, <1>29, <1>30, <1>31,
     <1>32, <1>33 DEF OtherStep, MainStep, ProcessQueue, ProcessResults,
     ProcessResult, WorkerStep, Control

\* The other steps leave the senders' ids alone, the bounce's id being none of them.
LEMMA OtherKeepsSenderInv ==
    ASSUME TypeOK, DaemonInv, SenderInv, OtherStep
    PROVE  SenderInv'
<1>1. OtherFrame
  BY OtherStepFrame
<1>2. \A s \in Senders : Own(s)' = Own(s)
  BY <1>1 DEF OtherFrame, senderVars, Own
<1>3. ASSUME NEW s \in Senders PROVE SenderOK(s)'
  <2>1. SenderOK(s)
    BY DEF SenderInv
  <2>2. \A i \in Own(s) : i \in used /\ i # bnc
    BY <2>1, QueueAssumption DEF SenderOK, TypeOK
  <2>3. sIds[s] \subseteq Own(s) /\ (sPc[s] \in Enqueueing => sCur[s] \in Own(s))
    BY DEF Own
  <2>4. \A i \in Own(s) : (Kept(i) => Kept(i)') /\ (Filed(i) => Filed(i)')
    BY <1>1, <2>2 DEF OtherFrame
  <2>5. Own(s)' \subseteq used' \ BounceIds /\ Own(s) \cap accepted' \subseteq accepted
    BY <1>1, <1>2, <2>1 DEF OtherFrame, SenderOK
  <2>6. sPc'[s] \in Pending => \A i \in Own(s)' : Kept(i)'
    BY <1>1, <1>2, <2>1, <2>4 DEF OtherFrame, senderVars, SenderOK
  <2>7. /\ sPc'[s] \in Pending => \A i \in sIds'[s] : Filed(i)'
        /\ sPc'[s] = "finish" => Filed(sCur[s])'
    BY <1>1, <2>1, <2>3, <2>4 DEF OtherFrame, senderVars, SenderOK, Enqueueing
  <2>8. /\ sPc'[s] \in Enqueueing => sCur'[s] \notin sIds'[s] \cup accepted'
        /\ sPc'[s] # "ok" => sIds'[s] \cap accepted' = {}
        /\ sPc'[s] = "reply" => sIds'[s] \subseteq released'
    BY <1>1, <2>1, <2>3, <2>5 DEF OtherFrame, senderVars, SenderOK
  <2>. QED
    BY <2>5, <2>6, <2>7, <2>8 DEF SenderOK
<1>4. \A s, t \in Senders : s # t => Own(s)' \cap Own(t)' = {}
  BY <1>2 DEF SenderInv
<1>. QED
  BY <1>3, <1>4 DEF SenderInv

\* A sender's step does no harm to the ids of others, those it has already
\* handed over included.
SenderFrame(s) ==
    /\ used \subseteq used' /\ released \subseteq released'
    /\ \A i \in used \ Own(s) : (Kept(i) => Kept(i)') /\ (Filed(i) => Filed(i)')
    /\ \A t \in Senders \ {s} : sPc'[t] = sPc[t] /\ sIds'[t] = sIds[t] /\ sCur'[t] = sCur[t]
    /\ Own(s)' \subseteq Own(s) \cup (used' \ used)
    /\ accepted' \subseteq accepted \cup Own(s)
    /\ \A i \in accepted' \ accepted : Kept(i)' /\ Filed(i)'
    /\ sPc[s] # "ok"

\* Each step of a sender is of that kind.
LEMMA SenderStepFrame ==
    ASSUME TypeOK, SenderInv, NEW s \in Senders, SenderStep(s) \/ SenderCrash(s)
    PROVE  SenderFrame(s)
<1>0. SenderOK(s)
  BY DEF SenderInv
<1>. USE DEF SenderOnly, daemonVars, tableVars, ghostVars, TypeOK, SenderFrame, Kept, Filed,
             Own, Enqueueing
<1>1. ASSUME EnqueueInsert(s) PROVE SenderFrame(s)
  BY <1>1, <1>0 DEF EnqueueInsert, InsertActive
<1>2. ASSUME EnqueueNoTmpfile(s) PROVE SenderFrame(s)
  BY <1>2, <1>0 DEF EnqueueNoTmpfile
<1>3. ASSUME EnqueueNoFile(s) PROVE SenderFrame(s)
  BY <1>3, <1>0 DEF EnqueueNoFile, RemoveRow, DeleteRows
<1>4. ASSUME EnqueueOpen(s) PROVE SenderFrame(s)
  BY <1>4, <1>0 DEF EnqueueOpen
<1>5. ASSUME EnqueueCopy(s) PROVE SenderFrame(s)
  BY <1>5, <1>0 DEF EnqueueCopy, Copied
<1>6. ASSUME EnqueueFinish(s) PROVE SenderFrame(s)
  BY <1>6, <1>0 DEF EnqueueFinish
<1>7. ASSUME Release(s) PROVE SenderFrame(s)
  BY <1>7, <1>0 DEF Release, Deactivate
<1>8. ASSUME Reply(s) PROVE SenderFrame(s)
  BY <1>8, <1>0 DEF Reply, SenderOK, Pending
<1>9. ASSUME DeleteFiles(s) PROVE SenderFrame(s)
  BY <1>9, <1>0 DEF DeleteFiles
<1>10. ASSUME DeleteMessages(s) PROVE SenderFrame(s)
  BY <1>10, <1>0 DEF DeleteMessages, DeleteRows
<1>11. ASSUME SenderCrash(s) PROVE SenderFrame(s)
  BY <1>11, <1>0 DEF SenderCrash
<1>. QED
  BY <1>1, <1>2, <1>3, <1>4, <1>5, <1>6, <1>7, <1>8, <1>9, <1>10, <1>11 DEF
     SenderStep

\* The acting sender's own ids.
LEMMA SenderKeepsOwn ==
    ASSUME TypeOK, LockInv, SenderInv, NEW s \in Senders, SenderStep(s) \/ SenderCrash(s)
    PROVE  SenderOK(s)'
<1>0. SenderOK(s) /\ accepted \subseteq used
  BY DEF SenderInv, TypeOK
<1>. USE DEF SenderOnly, daemonVars, tableVars, ghostVars, TypeOK, SenderOK, Kept, Filed,
             Own, Enqueueing, Pending
<1>1. ASSUME EnqueueInsert(s) PROVE SenderOK(s)'
  BY <1>1, <1>0, QueueAssumption DEF EnqueueInsert, InsertActive
<1>2. ASSUME EnqueueNoTmpfile(s) PROVE SenderOK(s)'
  BY <1>2, <1>0, QueueAssumption DEF EnqueueNoTmpfile
<1>3. ASSUME EnqueueNoFile(s) PROVE SenderOK(s)'
  BY <1>3, <1>0, QueueAssumption DEF EnqueueNoFile, RemoveRow, DeleteRows
<1>4. ASSUME EnqueueOpen(s) PROVE SenderOK(s)'
  BY <1>4, <1>0, QueueAssumption DEF EnqueueOpen
<1>5. ASSUME EnqueueCopy(s) PROVE SenderOK(s)'
  BY <1>5, <1>0, QueueAssumption DEF EnqueueCopy, Copied
<1>6. ASSUME EnqueueFinish(s) PROVE SenderOK(s)'
  BY <1>6, <1>0, QueueAssumption DEF EnqueueFinish
<1>7. ASSUME Release(s) PROVE SenderOK(s)'
  BY <1>7, <1>0, QueueAssumption DEF Release, Deactivate
<1>8. ASSUME Reply(s) PROVE SenderOK(s)'
  BY <1>8, <1>0, QueueAssumption DEF Reply
<1>9. ASSUME DeleteFiles(s) PROVE SenderOK(s)'
  BY <1>9, <1>0, QueueAssumption DEF DeleteFiles
<1>10. ASSUME DeleteMessages(s) PROVE SenderOK(s)'
  BY <1>10, <1>0, QueueAssumption DEF DeleteMessages, DeleteRows
<1>11. ASSUME SenderCrash(s) PROVE SenderOK(s)'
  BY <1>11, <1>0, QueueAssumption DEF SenderCrash
<1>. QED
  BY <1>1, <1>2, <1>3, <1>4, <1>5, <1>6, <1>7, <1>8, <1>9, <1>10, <1>11 DEF
     SenderStep

\* A sender's steps keep the senders' part: its own ids by SenderKeepsOwn, the
\* others' because ids are not shared.
LEMMA SenderKeepsSenderInv ==
    ASSUME TypeOK, LockInv, SenderInv, NEW s \in Senders, SenderStep(s) \/ SenderCrash(s)
    PROVE  SenderInv'
<1>1. SenderFrame(s)
  BY SenderStepFrame
<1>2. \A t \in Senders \ {s} : Own(t)' = Own(t)
  BY <1>1 DEF SenderFrame, Own
<1>3. ASSUME NEW t \in Senders, t # s PROVE SenderOK(t)'
  <2>1. SenderOK(t)
    BY DEF SenderInv
  <2>2. \A i \in Own(t) : i \in used \ Own(s)
    BY <1>3, <2>1 DEF SenderInv, SenderOK
  <2>3. sIds[t] \subseteq Own(t) /\ (sPc[t] \in Enqueueing => sCur[t] \in Own(t))
    BY DEF Own
  <2>4. \A i \in Own(t) : (Kept(i) => Kept(i)') /\ (Filed(i) => Filed(i)')
    BY <1>1, <2>2 DEF SenderFrame
  <2>5. Own(t)' \subseteq used' \ BounceIds /\ Own(t) \cap accepted' \subseteq accepted
    BY <1>1, <1>2, <1>3, <2>1, <2>2 DEF SenderFrame, SenderOK
  <2>6. sPc'[t] = sPc[t] /\ sIds'[t] = sIds[t] /\ sCur'[t] = sCur[t] /\ Own(t)' = Own(t)
    BY <1>1, <1>2, <1>3 DEF SenderFrame
  <2>7. sPc'[t] \in Pending => \A i \in Own(t)' : Kept(i)'
    BY <2>1, <2>4, <2>6 DEF SenderOK
  <2>8. /\ sPc'[t] \in Pending => \A i \in sIds'[t] : Filed(i)'
        /\ sPc'[t] = "finish" => Filed(sCur[t])'
    BY <2>1, <2>3, <2>4, <2>6 DEF SenderOK, Enqueueing
  <2>9. /\ sPc'[t] \in Enqueueing => sCur'[t] \notin sIds'[t] \cup accepted'
        /\ sPc'[t] # "ok" => sIds'[t] \cap accepted' = {}
        /\ sPc'[t] = "reply" => sIds'[t] \subseteq released'
    BY <1>1, <2>1, <2>3, <2>5, <2>6 DEF SenderFrame, SenderOK
  <2>. QED
    BY <2>5, <2>7, <2>8, <2>9 DEF SenderOK
<1>4. \A t \in Senders \ {s} : Own(s)' \cap Own(t)' = {}
  BY <1>1, <1>2 DEF SenderFrame, SenderInv, SenderOK
<1>5. \A t, u \in Senders : t # u => Own(t)' \cap Own(u)' = {}
  BY <1>2, <1>4 DEF SenderInv
<1>. QED
  BY <1>3, <1>5, SenderKeepsOwn DEF SenderInv

-----------------------------------------------------------------------------
(***************************************************************************)
(* Accepted mail.                                                          *)
(***************************************************************************)

\* No step loses what was accepted, and what a step accepts is kept and filed.
LEMMA AcceptedStep == QueueInv /\ [Next]_vars => NeverLost' /\ AcceptedHasFile'
<1>. SUFFICES ASSUME QueueInv, [Next]_vars PROVE NeverLost' /\ AcceptedHasFile'
  OBVIOUS
<1>1. \A i \in accepted : Kept(i) /\ Filed(i) /\ i \in used /\ i # bnc
  BY QueueAssumption
     DEF QueueInv, TypeOK, DaemonInv, ResultInv, NeverLost, AcceptedHasFile, Kept, Filed
<1>2. SUFFICES \A i \in accepted' : Kept(i)' /\ Filed(i)'
  BY DEF NeverLost, AcceptedHasFile, Kept, Filed
<1>3. CASE OtherStep
  BY <1>1, <1>3, OtherStepFrame DEF QueueInv, OtherFrame
<1>4. ASSUME NEW s \in Senders, SenderStep(s) \/ SenderCrash(s)
      PROVE  \A i \in accepted' : Kept(i)' /\ Filed(i)'
  <2>1. SenderFrame(s)
    BY <1>4, SenderStepFrame DEF QueueInv
  <2>2. Own(s) \cap accepted = {}
    BY <2>1 DEF QueueInv, SenderInv, SenderOK, SenderFrame, Own
  <2>. QED
    BY <1>1, <2>1, <2>2 DEF SenderFrame
<1>5. CASE UNCHANGED vars
  BY <1>1, <1>5 DEF vars, tableVars, ghostVars, Kept, Filed
<1>. QED
  BY <1>3, <1>4, <1>5 DEF Next, OtherStep

\* A step that changes nothing keeps everything.
LEMMA StutterKeeps ==
    ASSUME TypeOK, DaemonInv, SenderInv, UNCHANGED vars
    PROVE  TypeOK' /\ DaemonInv' /\ SenderInv'
<1>. USE DEF vars, tableVars, daemonVars, senderVars, ghostVars
<1>1. TypeOK'
  BY DEF TypeOK
<1>2. DaemonInv'
  BY DEF DaemonInv, LockInv, UsedInv, ResultInv
<1>3. SenderInv'
  BY DEF SenderInv, SenderOK, Own, Kept, Filed
<1>. QED
  BY <1>1, <1>2, <1>3

\* The invariant is inductive.
LEMMA QueueInvariant == Spec => []QueueInv
<1>1. Init => QueueInv
  <2>. SUFFICES ASSUME Init PROVE QueueInv
    OBVIOUS
  <2>. USE QueueAssumption DEF Init, Items
  <2>1. TypeOK
    BY DEF TypeOK
  <2>2. DaemonInv
    BY DEF DaemonInv, LockInv, UsedInv, ResultInv
  <2>3. SenderInv
    BY DEF SenderInv, SenderOK, Own, Enqueueing
  <2>4. NeverLost /\ AcceptedHasFile
    BY DEF NeverLost, AcceptedHasFile
  <2>. QED
    BY <2>1, <2>2, <2>3, <2>4 DEF QueueInv
<1>2. QueueInv /\ [Next]_vars => QueueInv'
  <2>. SUFFICES ASSUME QueueInv, [Next]_vars PROVE QueueInv'
    OBVIOUS
  <2>1. TypeOK /\ DaemonInv /\ LockInv /\ UsedInv /\ ResultInv /\ SenderInv
    BY DEF QueueInv, DaemonInv
  <2>2. NeverLost' /\ AcceptedHasFile'
    BY AcceptedStep
  <2>3. CASE OtherStep
    BY <2>1, <2>2, <2>3, OtherTypes, OtherKeepsDaemonInv, OtherKeepsSenderInv DEF
       QueueInv
  <2>4. ASSUME NEW s \in Senders, SenderStep(s) \/ SenderCrash(s) PROVE QueueInv'
    BY <2>1, <2>2, <2>4, SenderTypes, SenderKeepsDaemonInv, SenderKeepsSenderInv DEF
       QueueInv
  <2>5. CASE UNCHANGED vars
    BY <2>1, <2>2, <2>5, StutterKeeps DEF QueueInv
  <2>. QED
    BY <2>3, <2>4, <2>5 DEF Next, OtherStep
<1>. QED
  BY <1>1, <1>2, PTL DEF Spec

\* Every variable keeps its type.
THEOREM QueueTypeOK == Spec => []TypeOK
BY QueueInvariant, PTL DEF QueueInv

\* Whatever crashes, stops and commands come between its steps, a message that
\* was accepted stays in the table until it was delivered, bounced, reported or
\* removed by an administrator.
THEOREM QueueNeverLost == Spec => []NeverLost
BY QueueInvariant, PTL DEF QueueInv

\* Its queue file is there as long as its row, unless its removal was asked for.
THEOREM QueueAcceptedHasFile == Spec => []AcceptedHasFile
BY QueueInvariant, PTL DEF QueueInv

-----------------------------------------------------------------------------
(***************************************************************************)
(* The queue implements StoreAndForward.                                   *)
(***************************************************************************)

\* What the refinement sees of MsgQueue's state, and what a step may do to it.
PromiseStep == Promise!Next \/ UNCHANGED Promise!mailVars
Seen == <<rows, accepted, delivered, bounced, dropped, removed>>
Settled == {i \in Ids : delivered[i] > 0} \cup bounced \cup dropped \cup removed

\* One lemma for each action of StoreAndForward, in the words of MsgQueue; first,
\* steps that change nothing StoreAndForward sees.
LEMMA Stutters == UNCHANGED Seen => PromiseStep
BY DEF Seen, PromiseStep, Promise!mailVars

\* Submit: a new row.
LEMMA Submits ==
    ASSUME NEW i \in Ids, i \notin rows \cup Settled \cup accepted, rows' = rows \cup {i},
           UNCHANGED <<accepted, delivered, bounced, dropped, removed>>
    PROVE  PromiseStep
<1>1. Promise!Submit(i)
  BY DEF Promise!Submit, Promise!Settled, Settled
<1>. QED
  BY <1>1 DEF PromiseStep, Promise!Next

\* Promise: a 250 reply.
LEMMA Promises ==
    ASSUME NEW M \in SUBSET Ids, M \subseteq rows \cup Settled, accepted' = accepted \cup M,
           UNCHANGED <<rows, delivered, bounced, dropped, removed>>
    PROVE  PromiseStep
<1>1. Promise!Promise(M)
  BY DEF Promise!Promise, Promise!Settled, Settled
<1>. QED
  BY <1>1 DEF PromiseStep, Promise!Next

\* ReturnToSender with a report: the release of a bounce.
LEMMA Returns ==
    ASSUME NEW i \in Ids, NEW report \in {{}} \cup {{n} : n \in Ids}, report \subseteq rows,
           bounced' \cup dropped' = (bounced \cup dropped) \cup {i},
           accepted' = accepted \cup report, UNCHANGED <<rows, delivered, removed>>
    PROVE  PromiseStep
<1>1. Promise!ReturnToSender(i, report)
  BY DEF Promise!ReturnToSender
<1>. QED
  BY <1>1 DEF PromiseStep, Promise!Next

\* ReturnToSender without one: a failure that is only noted.
LEMMA Notes ==
    ASSUME NEW i \in Ids, bounced' \cup dropped' = (bounced \cup dropped) \cup {i},
           UNCHANGED <<rows, accepted, delivered, removed>>
    PROVE  PromiseStep
<1>1. {} \in {{}} \cup {{n} : n \in Ids} /\ {} \subseteq rows /\ accepted' = accepted \cup {}
  OBVIOUS
<1>. QED
  BY <1>1, Returns

\* HandOver: a delivery.
LEMMA HandsOver ==
    ASSUME NEW i \in Ids, {n \in Ids : delivered'[n] > 0} = {n \in Ids : delivered[n] > 0} \cup {i},
           UNCHANGED <<rows, accepted, bounced, dropped, removed>>
    PROVE  PromiseStep
<1>1. Promise!HandOver(i)
  BY DEF Promise!HandOver
<1>. QED
  BY <1>1 DEF PromiseStep, Promise!Next

\* Withdraw: the files of the rows to be cleared go.
LEMMA Withdraws ==
    ASSUME NEW M \in SUBSET Ids, removed' = removed \cup M,
           UNCHANGED <<rows, accepted, delivered, bounced, dropped>>
    PROVE  PromiseStep
<1>1. Promise!Withdraw(M)
  BY DEF Promise!Withdraw
<1>. QED
  BY <1>1 DEF PromiseStep, Promise!Next

\* Discard: rows leave the table.
LEMMA Discards ==
    ASSUME NEW M \in SUBSET Ids, rows' = rows \ M, UNCHANGED <<accepted, delivered>>,
           bounced \subseteq bounced', dropped \subseteq dropped', removed \subseteq removed',
           M \cap accepted \subseteq Settled'
    PROVE  PromiseStep
<1>1. Promise!Discard(M)
  BY DEF Promise!Discard, Promise!Settled, Settled
<1>. QED
  BY <1>1 DEF PromiseStep, Promise!Next

\* A sender's step is a step of StoreAndForward or a stutter.
LEMMA SenderRefines ==
    ASSUME QueueInv, NEW s \in Senders, SenderStep(s) \/ SenderCrash(s)
    PROVE  PromiseStep
<1>0. TypeOK /\ UsedInv /\ SenderOK(s)
  BY DEF QueueInv, DaemonInv, SenderInv
<1>. USE DEF SenderOnly, daemonVars, tableVars, ghostVars, TypeOK
<1>1. ASSUME EnqueueInsert(s) PROVE PromiseStep
  <2>1. PICK i \in Ids : i \notin used /\ rows' = rows \cup {i}
    BY <1>1 DEF EnqueueInsert, InsertActive
  <2>2. i \notin rows \cup Settled \cup accepted
    BY <1>0, <2>1 DEF UsedInv, Settled
  <2>. QED
    BY <1>1, <2>1, <2>2, Submits DEF EnqueueInsert
<1>2. ASSUME EnqueueNoTmpfile(s) PROVE PromiseStep
  BY <1>2, Stutters DEF EnqueueNoTmpfile, Seen
<1>3. ASSUME EnqueueNoFile(s) PROVE PromiseStep
  <2>1. PICK i : i = sCur[s] /\ i \in Ids /\ rows' = rows \ {i} /\ i \notin accepted
    BY <1>3, <1>0 DEF EnqueueNoFile, RemoveRow, DeleteRows, SenderOK, Own, Enqueueing
  <2>2. UNCHANGED <<accepted, delivered, bounced, dropped, removed>>
    BY <1>3 DEF EnqueueNoFile, RemoveRow, DeleteRows
  <2>3. {i} \in SUBSET Ids /\ {i} \cap accepted = {}
    BY <2>1
  <2>. HIDE DEF SenderOnly, daemonVars, tableVars, ghostVars, TypeOK
  <2>. QED
    BY <2>1, <2>2, <2>3, Discards
<1>4. ASSUME EnqueueOpen(s) PROVE PromiseStep
  BY <1>4, Stutters DEF EnqueueOpen, Seen
<1>5. ASSUME EnqueueCopy(s) PROVE PromiseStep
  BY <1>5, Stutters DEF EnqueueCopy, Copied, Seen
<1>6. ASSUME EnqueueFinish(s) PROVE PromiseStep
  BY <1>6, Stutters DEF EnqueueFinish, Seen
<1>7. ASSUME Release(s) PROVE PromiseStep
  BY <1>7, Stutters DEF Release, Deactivate, Seen
<1>8. ASSUME Reply(s) PROVE PromiseStep
  <2>1. sIds[s] \in SUBSET Ids /\ sIds[s] \subseteq rows \cup Settled
    BY <1>8, <1>0 DEF Reply, SenderOK, Own, Pending, Kept, Settled
  <2>. QED
    BY <1>8, <2>1, Promises DEF Reply
<1>9. ASSUME DeleteFiles(s) PROVE PromiseStep
  BY <1>9, Stutters DEF DeleteFiles, Seen
<1>10. ASSUME DeleteMessages(s) PROVE PromiseStep
  BY <1>10, <1>0, Discards DEF DeleteMessages, DeleteRows, SenderOK
<1>11. ASSUME SenderCrash(s) PROVE PromiseStep
  BY <1>11, Stutters DEF SenderCrash, Seen
<1>. QED
  BY <1>1, <1>2, <1>3, <1>4, <1>5, <1>6, <1>7, <1>8, <1>9, <1>10, <1>11 DEF
     SenderStep

\* So is every other step.
LEMMA OtherRefines ==
    ASSUME QueueInv, OtherStep
    PROVE  PromiseStep
<1>0. TypeOK /\ LockInv /\ UsedInv /\ ResultInv
  BY DEF QueueInv, DaemonInv
<1>. USE DEF daemonVars, tableVars, senderVars, ghostVars, TypeOK, Items
<1>1. ASSUME Reanimate PROVE PromiseStep
  BY <1>1, Stutters DEF Reanimate, Seen
<1>2. ASSUME BeginRun PROVE PromiseStep
  BY <1>2, Stutters DEF BeginRun, Seen
<1>3. ASSUME NEW i \in Ids, PurgeRow(i) PROVE PromiseStep
  <2>1. /\ {i} \in SUBSET Ids /\ rows' = rows \ {i}
        /\ {i} \cap accepted \subseteq Settled'
    BY <1>3, <1>0 DEF PurgeRow, RemoveRow, DeleteRows, UsedInv, ResultInv, Settled
  <2>. QED
    BY <1>3, <2>1, Discards DEF PurgeRow
<1>4. ASSUME Dispatch PROVE PromiseStep
  BY <1>4, Stutters DEF Dispatch, Seen
<1>5. ASSUME DispatchNothing PROVE PromiseStep
  BY <1>5, Stutters DEF DispatchNothing, Seen
<1>6. ASSUME MarkActive PROVE PromiseStep
  BY <1>6, Stutters DEF MarkActive, Seen
<1>7. ASSUME SkipRun PROVE PromiseStep
  BY <1>7, Stutters DEF SkipRun, Seen
<1>8. ASSUME SwapResults PROVE PromiseStep
  BY <1>8, Stutters DEF SwapResults, Results, Seen
<1>9. ASSUME NEW x \in Items, ResultSuccess(x) PROVE PromiseStep
  <2>1. /\ {x[1]} \in SUBSET Ids /\ rows' = rows \ {x[1]}
        /\ {x[1]} \cap accepted \subseteq Settled'
    BY <1>9, <1>0 DEF ResultSuccess, RemoveRow, DeleteRows, UsedInv, ResultInv, Settled
  <2>. QED
    BY <1>9, <2>1, Discards DEF ResultSuccess
<1>10. ASSUME NEW x \in Items, ResultDeferred(x) PROVE PromiseStep
  BY <1>10, Stutters DEF ResultDeferred, InResults, Discard, Seen
<1>11. ASSUME NEW x \in Items, ResultDropped(x) PROVE PromiseStep
  <2>1. /\ {x[1]} \in SUBSET Ids /\ rows' = rows \ {x[1]}
        /\ {x[1]} \cap accepted \subseteq Settled'
    BY <1>11, <1>0 DEF ResultDropped, RemoveRow, DeleteRows, UsedInv, ResultInv, Settled
  <2>. QED
    BY <1>11, <2>1, Discards DEF ResultDropped
<1>12. ASSUME NEW x \in Items, BounceInsert(x) PROVE PromiseStep
  <2>1. PICK i \in Ids : i \notin used /\ rows' = rows \cup {i}
    BY <1>12, QueueAssumption DEF BounceInsert, InsertActive
  <2>2. i \notin rows \cup Settled \cup accepted
    BY <1>0, <2>1 DEF UsedInv, Settled
  <2>. QED
    BY <1>12, <2>1, <2>2, Submits DEF BounceInsert
<1>13. ASSUME NEW x \in Items, NoBounceId(x) PROVE PromiseStep
  BY <1>13, Notes DEF NoBounceId
<1>14. ASSUME BounceWrite PROVE PromiseStep
  BY <1>14, Stutters DEF BounceWrite, Copied, Seen
<1>15. ASSUME BounceRelease PROVE PromiseStep
  <2>1. cur[1] \in Ids /\ bnc \in Ids /\ {bnc} \subseteq rows
    BY <1>15, <1>0, QueueAssumption DEF BounceRelease, ResultInv
  <2>2. /\ bounced' \cup dropped' = (bounced \cup dropped) \cup {cur[1]}
        /\ accepted' = accepted \cup {bnc}
        /\ UNCHANGED <<rows, delivered, removed>>
    BY <1>15 DEF BounceRelease, Deactivate
  <2>3. {bnc} \in {{}} \cup {{i} : i \in Ids}
    BY <2>1
  <2>. HIDE DEF daemonVars, tableVars, senderVars, ghostVars, TypeOK, Items
  <2>. QED
    BY <2>1, <2>2, <2>3, Returns
<1>16. ASSUME BounceFails PROVE PromiseStep
  <2>1. cur[1] \in Ids /\ bnc \in Ids /\ bnc \notin accepted
    BY <1>16, <1>0, QueueAssumption DEF BounceFails, ResultInv
  <2>2. CASE UNCHANGED tableVars
    BY <1>16, <2>1, <2>2, Notes DEF BounceFails
  <2>3. CASE RemoveRow(bnc)
    BY <1>16, <2>1, <2>3, Discards DEF BounceFails, RemoveRow, DeleteRows
  <2>. QED
    BY <1>16, <2>2, <2>3 DEF BounceFails
<1>17. ASSUME BounceDone PROVE PromiseStep
  <2>1. /\ {cur[1]} \in SUBSET Ids /\ rows' = rows \ {cur[1]}
        /\ {cur[1]} \cap accepted \subseteq Settled'
    BY <1>17, <1>0 DEF BounceDone, RemoveRow, DeleteRows, UsedInv, ResultInv, Settled
  <2>. QED
    BY <1>17, <2>1, Discards DEF BounceDone
<1>18. ASSUME ResultsDone PROVE PromiseStep
  BY <1>18, Stutters DEF ResultsDone, Seen
<1>19. ASSUME WorkersStopped PROVE PromiseStep
  BY <1>19, Stutters DEF WorkersStopped, Seen
<1>20. ASSUME ClearQueue PROVE PromiseStep
  BY <1>20, Stutters DEF ClearQueue, Deactivate, Queued, Seen
<1>21. ASSUME Quit PROVE PromiseStep
  BY <1>21, Stutters DEF Quit, Seen
<1>22. ASSUME Crash PROVE PromiseStep
  BY <1>22, Stutters DEF Crash, Seen
<1>23. ASSUME NEW x \in Items, Pop(x) PROVE PromiseStep
  BY <1>23, Stutters DEF Pop, WorkerOnly, Seen
<1>24. ASSUME NEW x \in Items, Deliver(x) PROVE PromiseStep
  BY <1>24, <1>0, HandsOver DEF Deliver, WorkerOnly
<1>25. ASSUME NEW x \in Items, DeliverUnanswered(x) PROVE PromiseStep
  BY <1>25, <1>0, HandsOver DEF DeliverUnanswered, WorkerOnly
<1>26. ASSUME NEW x \in Items, NEW status \in {"temp", "fatal"}, Fail(x, status) PROVE PromiseStep
  BY <1>26, Stutters DEF Fail, WorkerOnly, Seen
<1>27. ASSUME NEW i \in Ids, ControlDelete(i) PROVE PromiseStep
  <2>1. /\ {i} \in SUBSET Ids /\ rows' = rows \ {i}
        /\ {i} \cap accepted \subseteq Settled'
    BY <1>27, <1>0 DEF ControlDelete, RemoveRow, DeleteRows, UsedInv, ResultInv, Settled
  <2>. QED
    BY <1>27, <2>1, Discards DEF ControlDelete
<1>28. ASSUME ControlFlush PROVE PromiseStep
  BY <1>28, Stutters DEF ControlFlush, TableFree, Seen
<1>29. ASSUME ControlClearFiles PROVE PromiseStep
  <2>1. rows \ active \in SUBSET Ids
    BY <1>0
  <2>. QED
    BY <1>29, <2>1, Withdraws DEF ControlClearFiles
<1>30. ASSUME ControlClearRows PROVE PromiseStep
  <2>1. /\ rows \ active \in SUBSET Ids /\ rows' = rows \ (rows \ active)
        /\ (rows \ active) \cap accepted \subseteq Settled'
    BY <1>30, <1>0 DEF ControlClearRows, DeleteRows, LockInv, Settled
  <2>. QED
    BY <1>30, <2>1, Discards DEF ControlClearRows
<1>31. ASSUME NEW i \in Ids, AdminMark(i) PROVE PromiseStep
  BY <1>31, Stutters DEF AdminMark, Seen
<1>32. ASSUME NEW i \in Ids, BackOffOver(i) PROVE PromiseStep
  BY <1>32, Stutters DEF BackOffOver, Seen
<1>33. ASSUME NEW i \in Ids, LifetimeOver(i) PROVE PromiseStep
  BY <1>33, Stutters DEF LifetimeOver, Seen
<1>. QED
  BY <1>1, <1>2, <1>3, <1>4, <1>5, <1>6, <1>7, <1>8, <1>9, <1>10, <1>11,
     <1>12, <1>13, <1>14, <1>15, <1>16, <1>17, <1>18, <1>19, <1>20, <1>21,
     <1>22, <1>23, <1>24, <1>25, <1>26, <1>27, <1>28, <1>29, <1>30, <1>31,
     <1>32, <1>33 DEF OtherStep, MainStep, ProcessQueue, ProcessResults,
     ProcessResult, WorkerStep, Control

\* Every run of the queue is a run of StoreAndForward under the mapping of
\* MsgQueue: each step is one of its actions or changes nothing it sees.
THEOREM QueueKeepsPromise == Spec => KeepsPromise
<1>1. Init => Promise!Init
  BY DEF Init, Promise!Init
<1>2. QueueInv /\ [Next]_vars => PromiseStep
  <2>. SUFFICES ASSUME QueueInv, [Next]_vars PROVE PromiseStep
    OBVIOUS
  <2>1. CASE OtherStep
    BY <2>1, OtherRefines
  <2>2. ASSUME NEW s \in Senders, SenderStep(s) \/ SenderCrash(s) PROVE PromiseStep
    BY <2>2, SenderRefines
  <2>3. CASE UNCHANGED vars
    BY <2>3, Stutters DEF vars, tableVars, ghostVars, Seen
  <2>. QED
    BY <2>1, <2>2, <2>3 DEF Next, OtherStep
<1>3. QueueInv /\ [Next]_vars => [Promise!Next]_(Promise!mailVars)
  BY <1>2 DEF PromiseStep
<1>. QED
  BY <1>1, <1>3, QueueInvariant, PTL DEF Spec, KeepsPromise, Promise!Spec

-----------------------------------------------------------------------------
(* What is in flight.                                                      *)

\* The MSGQueueItem objects there are.
Flying == {x \in Items : stage[x] # "free"}

\* Rows that may not be removed: active ones, and the batch to be marked.
Held == active \cup (IF mainPc = "mark" THEN todo ELSE {})

\* InFlightOnce, object by object.
OneFlight  == \A x, y \in Flying : x[1] = y[1] => x = y \/ x[1] \in early
FlightHeld == \A x \in Flying : x[1] \in (Held \cap released) \cup early

\* A row only becomes inactive by a release or by a start of the daemon (early);
\* rows to be purged stay inactive, unless they are early.
Inactive ==
    /\ rows \ active \subseteq released \cup early
    /\ mainPc = "purge" => todo \subseteq released \cup early /\ todo \cap active \subseteq early

\* Nothing is in flight while the daemon is down.
DownEmpty == mainPc = "down" => Flying = {}

\* What is being enqueued has not been released.
Unreleased ==
    /\ bnc # None => bnc \notin released
    /\ \A s \in Senders : sPc[s] \notin {"reply", "ok", "dead"} => Own(s) \cap released = {}

\* What the main thread has taken is results.
TakenInv == taken \subseteq Results

FlightInv == TakenInv /\ OneFlight /\ FlightHeld /\ Inactive /\ DownEmpty /\ Unreleased

-----------------------------------------------------------------------------
\* What the steps need of QueueInv.
Known ==
    /\ TypeOK /\ UsedInv /\ LockInv /\ ResultInv
    /\ \A s \in Senders : Own(s) \subseteq used \ BounceIds
    /\ \A s, t \in Senders : s # t => Own(s) \cap Own(t) = {}

LEMMA WhatIsKnown == QueueInv => Known
BY DEF QueueInv, DaemonInv, SenderInv, SenderOK, Known

\* Senders touch ids that are not in flight, or early.
LEMMA SenderKeepsFlight ==
    ASSUME Known, FlightInv, NEW s \in Senders, SenderStep(s) \/ SenderCrash(s)
    PROVE  FlightInv'
<1>. USE DEF SenderOnly, daemonVars, tableVars, ghostVars, FlightInv, OneFlight, FlightHeld, Held,
             Inactive, DownEmpty, Unreleased, TakenInv, Results, ResultSt, Flying, Known, Own, Enqueueing, TypeOK, UsedInv, LockInv
<1>1. ASSUME EnqueueInsert(s) PROVE FlightInv'
  BY <1>1 DEF EnqueueInsert, InsertActive
<1>2. ASSUME EnqueueNoTmpfile(s) PROVE FlightInv'
  BY <1>2 DEF EnqueueNoTmpfile
<1>3. ASSUME EnqueueNoFile(s) PROVE FlightInv'
  BY <1>3 DEF EnqueueNoFile, RemoveRow, DeleteRows
<1>4. ASSUME EnqueueOpen(s) PROVE FlightInv'
  BY <1>4 DEF EnqueueOpen
<1>5. ASSUME EnqueueCopy(s) PROVE FlightInv'
  BY <1>5 DEF EnqueueCopy, Copied
<1>6. ASSUME EnqueueFinish(s) PROVE FlightInv'
  BY <1>6 DEF EnqueueFinish
<1>7. ASSUME Release(s) PROVE FlightInv'
  BY <1>7 DEF Release, Deactivate
<1>8. ASSUME Reply(s) PROVE FlightInv'
  BY <1>8 DEF Reply
<1>9. ASSUME DeleteFiles(s) PROVE FlightInv'
  BY <1>9 DEF DeleteFiles
<1>10. ASSUME DeleteMessages(s) PROVE FlightInv'
  BY <1>10 DEF DeleteMessages, DeleteRows
<1>11. ASSUME SenderCrash(s) PROVE FlightInv'
  BY <1>11 DEF SenderCrash
<1>. QED
  BY <1>1, <1>2, <1>3, <1>4, <1>5, <1>6, <1>7, <1>8, <1>9, <1>10, <1>11
     DEF SenderStep

\* The other steps.
LEMMA OtherKeepsFlight ==
    ASSUME Known, FlightInv, OtherStep
    PROVE  FlightInv'
<1>. USE DEF daemonVars, tableVars, senderVars, ghostVars, FlightInv, OneFlight, FlightHeld, Held,
             Inactive, DownEmpty, Unreleased, TakenInv, Results, ResultSt, Flying, Known, Own, TypeOK, UsedInv, LockInv, ResultInv
<1>1. ASSUME Reanimate PROVE FlightInv'
  BY <1>1 DEF Reanimate
<1>2. ASSUME BeginRun PROVE FlightInv'
  BY <1>2 DEF BeginRun
<1>3. ASSUME NEW i \in Ids, PurgeRow(i) PROVE FlightInv'
  BY <1>3 DEF PurgeRow, RemoveRow, DeleteRows
<1>4. ASSUME Dispatch PROVE FlightInv'
  <2>1. PICK B \in Batches : \E addr \in [B -> Copies] :
           /\ \A i \in B : stage[<<i, addr[i]>>] = "free"
           /\ stage' = [x \in Items |-> IF x[1] \in B /\ x[2] = addr[x[1]] THEN "queued" ELSE stage[x]]
           /\ todo' = B
    BY <1>4 DEF Dispatch
  <2>0. PICK addr \in [B -> Copies] :
           /\ \A i \in B : stage[<<i, addr[i]>>] = "free"
           /\ stage' = [x \in Items |-> IF x[1] \in B /\ x[2] = addr[x[1]] THEN "queued" ELSE stage[x]]
    BY <2>1
  <2>2. B \subseteq Eligible
    BY BatchesEligible
  <2>3. /\ mainPc = "purge" /\ mainPc' = "mark" /\ UNCHANGED <<tableVars, senderVars, ghostVars, bnc>>
        /\ B \subseteq (rows \cap (released \cup early)) \ active
    BY <1>4, <2>2 DEF Dispatch, Eligible
  <2>4. \A x \in Flying' : x \in Flying \/ (x[1] \in B /\ x[2] = addr[x[1]])
    BY <2>0
  <2>5. \A x \in Flying : x[1] \in active \cup early
    BY <2>3
  <2>6. OneFlight'
    <3>1. ASSUME NEW x \in Flying', NEW y \in Flying', x[1] = y[1], x[1] \notin early PROVE x = y
      <4>1. CASE x[1] \in B
        BY <2>3, <2>4, <2>5, <3>1, <4>1 DEF Items
      <4>2. CASE x[1] \notin B
        BY <2>4, <3>1, <4>2
      <4>. QED
        BY <4>1, <4>2
    <3>. QED
      BY <2>3, <3>1
  <2>7. FlightHeld'
    BY <2>1, <2>0, <2>3, <2>4
  <2>8. TakenInv'
    <3>1. taken' = taken /\ taken \subseteq Items
      BY <1>4 DEF Dispatch
    <3>2. ASSUME NEW x \in taken PROVE stage'[x] = stage[x]
      <4>1. stage[x] # "free" /\ x = <<x[1], x[2]>>
        BY <3>2 DEF Items
      <4>2. ~(x[1] \in B /\ x[2] = addr[x[1]])
        BY <2>0, <4>1
      <4>. QED
        BY <2>0, <3>1, <4>2
    <3>. QED
      BY <3>1, <3>2
  <2>9. Inactive' /\ DownEmpty' /\ Unreleased'
    BY <2>3
  <2>. QED
    BY <2>6, <2>7, <2>8, <2>9
<1>5. ASSUME DispatchNothing PROVE FlightInv'
  BY <1>5 DEF DispatchNothing
<1>6. ASSUME MarkActive PROVE FlightInv'
  BY <1>6 DEF MarkActive
<1>7. ASSUME SkipRun PROVE FlightInv'
  BY <1>7 DEF SkipRun
<1>8. ASSUME SwapResults PROVE FlightInv'
  BY <1>8 DEF SwapResults, Results
<1>9. ASSUME NEW x \in Items, ResultSuccess(x) PROVE FlightInv'
  BY <1>9 DEF ResultSuccess, InResults, RemoveRow, DeleteRows, Discard
<1>10. ASSUME NEW x \in Items, ResultDeferred(x) PROVE FlightInv'
  BY <1>10 DEF ResultDeferred, InResults, Discard
<1>11. ASSUME NEW x \in Items, ResultDropped(x) PROVE FlightInv'
  BY <1>11 DEF ResultDropped, InResults, Failed, RemoveRow, DeleteRows, Discard
<1>12. ASSUME NEW x \in Items, BounceInsert(x) PROVE FlightInv'
  BY <1>12 DEF BounceInsert, InResults, Failed, InsertActive
<1>13. ASSUME NEW x \in Items, NoBounceId(x) PROVE FlightInv'
  BY <1>13 DEF NoBounceId, InResults, Failed
<1>14. ASSUME BounceWrite PROVE FlightInv'
  BY <1>14 DEF BounceWrite, Copied
<1>15. ASSUME BounceRelease PROVE FlightInv'
  BY <1>15 DEF BounceRelease, Deactivate
<1>16. ASSUME BounceFails PROVE FlightInv'
  BY <1>16 DEF BounceFails, RemoveRow, DeleteRows
<1>17. ASSUME BounceDone PROVE FlightInv'
  <2>1. cur \in Flying /\ cur[1] \in Ids
    BY <1>17 DEF BounceDone, Items, Results, ResultSt
  <2>2. Flying' = Flying \ {cur} /\ mainPc' = mainPc /\ todo' = todo
    BY <1>17 DEF BounceDone, Discard
  <2>3. /\ rows' = rows \ {cur[1]} /\ active' = active \ {cur[1]} /\ taken' = taken \ {cur}
        /\ UNCHANGED <<released, early, senderVars, bnc>> /\ lock = "free"
    BY <1>17 DEF BounceDone, RemoveRow, DeleteRows, Discard
  <2>4. OneFlight' /\ FlightHeld'
    BY <2>1, <2>2, <2>3
  <2>5. TakenInv' /\ Inactive' /\ DownEmpty' /\ Unreleased'
    BY <1>17, <2>1, <2>2, <2>3 DEF BounceDone, Discard
  <2>. QED
    BY <2>4, <2>5
<1>18. ASSUME ResultsDone PROVE FlightInv'
  BY <1>18 DEF ResultsDone
<1>19. ASSUME WorkersStopped PROVE FlightInv'
  BY <1>19 DEF WorkersStopped
<1>20. ASSUME ClearQueue PROVE FlightInv'
  BY <1>20 DEF ClearQueue, Deactivate, Queued
<1>21. ASSUME Quit PROVE FlightInv'
  BY <1>21 DEF Quit
<1>22. ASSUME Crash PROVE FlightInv'
  BY <1>22 DEF Crash
<1>23. ASSUME NEW x \in Items, Pop(x) PROVE FlightInv'
  BY <1>23 DEF Pop, WorkerOnly
<1>24. ASSUME NEW x \in Items, Deliver(x) PROVE FlightInv'
  BY <1>24 DEF Deliver, WorkerOnly
<1>25. ASSUME NEW x \in Items, DeliverUnanswered(x) PROVE FlightInv'
  BY <1>25 DEF DeliverUnanswered, WorkerOnly
<1>26. ASSUME NEW x \in Items, NEW status \in {"temp", "fatal"}, Fail(x, status) PROVE FlightInv'
  BY <1>26 DEF Fail, WorkerOnly
<1>27. ASSUME NEW i \in Ids, ControlDelete(i) PROVE FlightInv'
  BY <1>27 DEF ControlDelete, TableFree, RemoveRow, DeleteRows
<1>28. ASSUME ControlFlush PROVE FlightInv'
  BY <1>28 DEF ControlFlush, TableFree
<1>29. ASSUME ControlClearFiles PROVE FlightInv'
  BY <1>29 DEF ControlClearFiles, TableFree
<1>30. ASSUME ControlClearRows PROVE FlightInv'
  BY <1>30 DEF ControlClearRows, DeleteRows
<1>31. ASSUME NEW i \in Ids, AdminMark(i) PROVE FlightInv'
  BY <1>31 DEF AdminMark
<1>32. ASSUME NEW i \in Ids, BackOffOver(i) PROVE FlightInv'
  BY <1>32 DEF BackOffOver
<1>33. ASSUME NEW i \in Ids, LifetimeOver(i) PROVE FlightInv'
  BY <1>33 DEF LifetimeOver
<1>. QED
  BY <1>1, <1>2, <1>3, <1>4, <1>5, <1>6, <1>7, <1>8, <1>9, <1>10, <1>11, <1>12,
     <1>13, <1>14, <1>15, <1>16, <1>17, <1>18, <1>19, <1>20, <1>21, <1>22, <1>23,
     <1>24, <1>25, <1>26, <1>27, <1>28, <1>29, <1>30, <1>31, <1>32, <1>33
     DEF OtherStep, MainStep, ProcessQueue, ProcessResults, ProcessResult, WorkerStep, Control

-----------------------------------------------------------------------------
(***************************************************************************)
(* What becomes of the items.                                              *)
(***************************************************************************)

\* The daemon keeps a released row active only as long as an item for it is in
\* flight; the batch to be marked is in flight.
ActiveFlies ==
    /\ DaemonUp => \A i \in released \cap active : \E x \in Flying : x[1] = i
    /\ mainPc = "mark" => \A i \in todo : \E x \in Flying : x[1] = i

\* When the workers have been joined none works, and the last list of results is
\* complete.
LastResults ==
    /\ mainPc \in {"lastSwap", "lastResults"} => Working = {}
    /\ mainPc = "lastResults" => Results \subseteq taken

\* A delivery is of a released message, and is on its way to being recorded, or
\* recorded by the removal of the row, or known to be unrecorded.
DeliveryKnown ==
    \A i \in Ids \ early : delivered[i] > 0 =>
        /\ i \in released
        /\ i \in unrecorded \/ i \notin rows \/ \E x \in Items : x[1] = i /\ stage[x] = "success"

\* After the DELETE of DeleteMessages.
RejectedGone == \A s \in Senders : sPc[s] = "rejected" => sIds[s] \cap rows = {}

RecordInv ==
    ActiveFlies /\ LastResults /\ DeliveryKnown /\ DeliveredOnceUnlessUnrecorded /\ RejectedGone

LEMMA SenderKeepsRecord ==
    ASSUME Known, FlightInv, RecordInv, NEW s \in Senders, SenderStep(s) \/ SenderCrash(s)
    PROVE  RecordInv'
<1>. USE DEF SenderOnly, daemonVars, tableVars, ghostVars, FlightInv, OneFlight, FlightHeld, Held, Inactive,
             Unreleased, Flying, Known, Own, Enqueueing, TypeOK, UsedInv, LockInv, RecordInv, ActiveFlies,
             LastResults, DeliveryKnown, DeliveredOnceUnlessUnrecorded, RejectedGone, DaemonUp, Working, Results
<1>1. ASSUME EnqueueInsert(s) PROVE RecordInv'
  BY <1>1 DEF EnqueueInsert, InsertActive
<1>2. ASSUME EnqueueNoTmpfile(s) PROVE RecordInv'
  BY <1>2 DEF EnqueueNoTmpfile
<1>3. ASSUME EnqueueNoFile(s) PROVE RecordInv'
  BY <1>3 DEF EnqueueNoFile, RemoveRow, DeleteRows
<1>4. ASSUME EnqueueOpen(s) PROVE RecordInv'
  BY <1>4 DEF EnqueueOpen
<1>5. ASSUME EnqueueCopy(s) PROVE RecordInv'
  BY <1>5 DEF EnqueueCopy, Copied
<1>6. ASSUME EnqueueFinish(s) PROVE RecordInv'
  BY <1>6 DEF EnqueueFinish
<1>7. ASSUME Release(s) PROVE RecordInv'
  BY <1>7 DEF Release, Deactivate
<1>8. ASSUME Reply(s) PROVE RecordInv'
  BY <1>8 DEF Reply
<1>9. ASSUME DeleteFiles(s) PROVE RecordInv'
  BY <1>9 DEF DeleteFiles
<1>10. ASSUME DeleteMessages(s) PROVE RecordInv'
  BY <1>10 DEF DeleteMessages, DeleteRows
<1>11. ASSUME SenderCrash(s) PROVE RecordInv'
  BY <1>11 DEF SenderCrash
<1>. QED
  BY <1>1, <1>2, <1>3, <1>4, <1>5, <1>6, <1>7, <1>8, <1>9, <1>10, <1>11
     DEF SenderStep

\* Dispatch adds items, at addresses that were free, one for each row of the batch.
LEMMA DispatchAdds ==
    ASSUME TypeOK, Dispatch
    PROVE  /\ \A x \in Flying : x \in Flying' /\ stage'[x] = stage[x]
           /\ \A i \in todo' : \E x \in Flying' : x[1] = i
           /\ todo' \in Batches
           /\ Queued' \in SUBSET Items
           /\ \E addr \in [todo' -> Copies] : Queued' = Queued \cup {<<i, addr[i]>> : i \in todo'}
<1>1. PICK B \in Batches : \E addr \in [B -> Copies] :
         /\ \A i \in B : stage[<<i, addr[i]>>] = "free"
         /\ stage' = [x \in Items |-> IF x[1] \in B /\ x[2] = addr[x[1]] THEN "queued" ELSE stage[x]]
         /\ todo' = B
  BY DEF Dispatch
<1>2. PICK addr \in [B -> Copies] :
         /\ \A i \in B : stage[<<i, addr[i]>>] = "free"
         /\ stage' = [x \in Items |-> IF x[1] \in B /\ x[2] = addr[x[1]] THEN "queued" ELSE stage[x]]
         /\ todo' = B
  BY <1>1
<1>3. B \subseteq Ids
  BY BatchesEligible DEF Eligible, TypeOK
<1>4. ASSUME NEW x \in Flying PROVE x \in Flying' /\ stage'[x] = stage[x]
  <2>1. x \in Items /\ x = <<x[1], x[2]>> /\ stage[x] # "free"
    BY DEF Flying, Items
  <2>2. ~(x[1] \in B /\ x[2] = addr[x[1]])
    BY <1>2, <2>1
  <2>. QED
    BY <1>2, <2>1, <2>2 DEF Flying
<1>5. ASSUME NEW i \in B PROVE <<i, addr[i]>> \in Items /\ stage'[<<i, addr[i]>>] = "queued"
  BY <1>2, <1>3, <1>5 DEF Items
<1>6. \A i \in B : \E x \in Flying' : x[1] = i
  <2>. SUFFICES ASSUME NEW i \in B PROVE \E x \in Flying' : x[1] = i
    OBVIOUS
  <2>1. <<i, addr[i]>> \in Flying'
    BY <1>5 DEF Flying
  <2>2. <<i, addr[i]>>[1] = i
    OBVIOUS
  <2>. QED
    BY <2>1, <2>2
<1>7. Queued' = Queued \cup {<<i, addr[i]>> : i \in B}
  <2>1. ASSUME NEW x \in Queued' PROVE x \in Queued \cup {<<i, addr[i]>> : i \in B}
    BY <1>2 DEF Queued, Items
  <2>2. ASSUME NEW x \in Queued PROVE x \in Queued'
    BY <1>4 DEF Queued, Flying
  <2>. QED
    BY <1>5, <2>1, <2>2 DEF Queued
<1>. QED
  BY <1>1, <1>2, <1>4, <1>6, <1>7 DEF Queued

LEMMA OtherKeepsRecord ==
    ASSUME Known, FlightInv, RecordInv, OtherStep
    PROVE  RecordInv'
<1>. USE DEF daemonVars, tableVars, senderVars, ghostVars, FlightInv, OneFlight, FlightHeld, Held, Inactive,
             DownEmpty, Unreleased, TakenInv, Flying, Known, TypeOK, UsedInv, LockInv, ResultInv, RecordInv, ActiveFlies,
             LastResults, DeliveryKnown, DeliveredOnceUnlessUnrecorded, RejectedGone, DaemonUp, Working, Results, ResultSt, Items
<1>1. ASSUME Reanimate PROVE RecordInv'
  BY <1>1 DEF Reanimate
<1>2. ASSUME BeginRun PROVE RecordInv'
  BY <1>2 DEF BeginRun
<1>3. ASSUME NEW i \in Ids, PurgeRow(i) PROVE RecordInv'
  BY <1>3 DEF PurgeRow, RemoveRow, DeleteRows
<1>4. ASSUME Dispatch PROVE RecordInv'
  <2>1. /\ mainPc' = "mark" /\ UNCHANGED <<tableVars, senderVars, ghostVars>>
    BY <1>4 DEF Dispatch
  <2>2. \A x \in Flying : x \in Flying' /\ stage'[x] = stage[x]
    BY <1>4, DispatchAdds
  <2>3. \A i \in todo' : \E x \in Flying' : x[1] = i
    BY <1>4, DispatchAdds
  <2>4. ActiveFlies'
    <3>1. mainPc = "purge"
      BY <1>4 DEF Dispatch
    <3>2. \A i \in released \cap active : \E x \in Flying : x[1] = i
      BY <3>1
    <3>3. released' = released /\ active' = active
      BY <2>1
    <3>. HIDE DEF Flying
    <3>4. \A i \in released' \cap active' : \E x \in Flying' : x[1] = i
      BY <3>2, <3>3, <2>2
    <3>. QED
      BY <3>4, <2>3 DEF ActiveFlies
  <2>5. DeliveryKnown' /\ DeliveredOnceUnlessUnrecorded'
    BY <2>1, <2>2
  <2>6. LastResults' /\ RejectedGone'
    BY <2>1
  <2>. QED
    BY <2>4, <2>5, <2>6
<1>5. ASSUME DispatchNothing PROVE RecordInv'
  BY <1>5 DEF DispatchNothing
<1>6. ASSUME MarkActive PROVE RecordInv'
  BY <1>6 DEF MarkActive
<1>7. ASSUME SkipRun PROVE RecordInv'
  BY <1>7 DEF SkipRun
<1>8. ASSUME SwapResults PROVE RecordInv'
  BY <1>8 DEF SwapResults, Results
<1>9. ASSUME NEW x \in Items, ResultSuccess(x) PROVE RecordInv'
  BY <1>9 DEF ResultSuccess, InResults, RemoveRow, DeleteRows, Discard
<1>10. ASSUME NEW x \in Items, ResultDeferred(x) PROVE RecordInv'
  BY <1>10 DEF ResultDeferred, InResults, Discard
<1>11. ASSUME NEW x \in Items, ResultDropped(x) PROVE RecordInv'
  BY <1>11 DEF ResultDropped, InResults, Failed, RemoveRow, DeleteRows, Discard
<1>12. ASSUME NEW x \in Items, BounceInsert(x) PROVE RecordInv'
  <2>1. \A s \in Senders : sIds[s] \subseteq used
    BY DEF Own
  <2>. QED
    BY <1>12, <2>1 DEF BounceInsert, InResults, Failed, InsertActive
<1>13. ASSUME NEW x \in Items, NoBounceId(x) PROVE RecordInv'
  BY <1>13 DEF NoBounceId, InResults, Failed
<1>14. ASSUME BounceWrite PROVE RecordInv'
  BY <1>14 DEF BounceWrite, Copied
<1>15. ASSUME BounceRelease PROVE RecordInv'
  BY <1>15 DEF BounceRelease, Deactivate
<1>16. ASSUME BounceFails PROVE RecordInv'
  BY <1>16 DEF BounceFails, RemoveRow, DeleteRows
<1>17. ASSUME BounceDone PROVE RecordInv'
  BY <1>17 DEF BounceDone, RemoveRow, DeleteRows, Discard
<1>18. ASSUME ResultsDone PROVE RecordInv'
  BY <1>18 DEF ResultsDone
<1>19. ASSUME WorkersStopped PROVE RecordInv'
  BY <1>19 DEF WorkersStopped
<1>20. ASSUME ClearQueue PROVE RecordInv'
  BY <1>20 DEF ClearQueue, Deactivate, Queued
<1>21. ASSUME Quit PROVE RecordInv'
  BY <1>21 DEF Quit
<1>22. ASSUME Crash PROVE RecordInv'
  BY <1>22 DEF Crash
<1>23. ASSUME NEW x \in Items, Pop(x) PROVE RecordInv'
  BY <1>23 DEF Pop, WorkerOnly
<1>24. ASSUME NEW x \in Items, Deliver(x) PROVE RecordInv'
  BY <1>24 DEF Deliver, WorkerOnly
<1>25. ASSUME NEW x \in Items, DeliverUnanswered(x) PROVE RecordInv'
  BY <1>25 DEF DeliverUnanswered, WorkerOnly
<1>26. ASSUME NEW x \in Items, NEW status \in {"temp", "fatal"}, Fail(x, status) PROVE RecordInv'
  BY <1>26 DEF Fail, WorkerOnly
<1>27. ASSUME NEW i \in Ids, ControlDelete(i) PROVE RecordInv'
  BY <1>27 DEF ControlDelete, TableFree, RemoveRow, DeleteRows
<1>28. ASSUME ControlFlush PROVE RecordInv'
  BY <1>28 DEF ControlFlush, TableFree
<1>29. ASSUME ControlClearFiles PROVE RecordInv'
  BY <1>29 DEF ControlClearFiles, TableFree
<1>30. ASSUME ControlClearRows PROVE RecordInv'
  BY <1>30 DEF ControlClearRows, DeleteRows
<1>31. ASSUME NEW i \in Ids, AdminMark(i) PROVE RecordInv'
  BY <1>31 DEF AdminMark
<1>32. ASSUME NEW i \in Ids, BackOffOver(i) PROVE RecordInv'
  BY <1>32 DEF BackOffOver
<1>33. ASSUME NEW i \in Ids, LifetimeOver(i) PROVE RecordInv'
  BY <1>33 DEF LifetimeOver
<1>. QED
  BY <1>1, <1>2, <1>3, <1>4, <1>5, <1>6, <1>7, <1>8, <1>9, <1>10, <1>11, <1>12,
     <1>13, <1>14, <1>15, <1>16, <1>17, <1>18, <1>19, <1>20, <1>21, <1>22, <1>23,
     <1>24, <1>25, <1>26, <1>27, <1>28, <1>29, <1>30, <1>31, <1>32, <1>33
     DEF OtherStep, MainStep, ProcessQueue, ProcessResults, ProcessResult, WorkerStep, Control

-----------------------------------------------------------------------------
(***************************************************************************)
(* The two invariants of this module hold in every state.                  *)
(***************************************************************************)
LEMMA FlightStutters ==
    ASSUME FlightInv, RecordInv, UNCHANGED vars
    PROVE  FlightInv' /\ RecordInv'
<1>. USE DEF vars, tableVars, daemonVars, senderVars, ghostVars, Flying
<1>1. FlightInv'
  BY DEF FlightInv, OneFlight, FlightHeld, Held, Inactive, DownEmpty, Unreleased, TakenInv, Results, Own
<1>2. RecordInv'
  BY DEF RecordInv, ActiveFlies, LastResults, DeliveryKnown, DeliveredOnceUnlessUnrecorded,
         RejectedGone, DaemonUp, Working, Results
<1>. QED
  BY <1>1, <1>2

LEMMA FlightInvariant == Spec => [](Known /\ FlightInv /\ RecordInv)
<1>1. Init => FlightInv /\ RecordInv
  <2>. SUFFICES ASSUME Init PROVE FlightInv /\ RecordInv
    OBVIOUS
  <2>. USE QueueAssumption DEF Init, Items, Flying
  <2>1. FlightInv
    BY DEF FlightInv, OneFlight, FlightHeld, Held, Inactive, DownEmpty, Unreleased, TakenInv, Own, Enqueueing
  <2>2. RecordInv
    BY DEF RecordInv, ActiveFlies, LastResults, DeliveryKnown, DeliveredOnceUnlessUnrecorded,
           RejectedGone, DaemonUp
  <2>. QED
    BY <2>1, <2>2
<1>2. FlightInv /\ RecordInv /\ Known /\ [Next]_vars => FlightInv' /\ RecordInv'
  <2>. SUFFICES ASSUME FlightInv, RecordInv, Known, [Next]_vars PROVE FlightInv' /\ RecordInv'
    OBVIOUS
  <2>1. CASE OtherStep
    BY <2>1, OtherKeepsFlight, OtherKeepsRecord
  <2>2. ASSUME NEW s \in Senders, SenderStep(s) \/ SenderCrash(s) PROVE FlightInv' /\ RecordInv'
    BY <2>2, SenderKeepsFlight, SenderKeepsRecord
  <2>3. CASE UNCHANGED vars
    BY <2>3, FlightStutters
  <2>. QED
    BY <2>1, <2>2, <2>3 DEF Next, OtherStep
<1>3. QueueInv => Known
  BY WhatIsKnown
<1>. QED
  BY <1>1, <1>2, <1>3, QueueInvariant, PTL DEF Spec

-----------------------------------------------------------------------------
(***************************************************************************)
(* The theorems.                                                           *)
(***************************************************************************)

\* The table lock of ProcessQueue keeps its promise "to avoid double processing":
\* but for rows a start of the daemon made inactive too early, there is one item
\* at most for a row, and the row is there, released, and out of the reach of the
\* control connection and of the purge loop.
THEOREM QueueInFlightOnce == Spec => []InFlightOnce
<1>1. Known /\ FlightInv => InFlightOnce
  <2>. SUFFICES ASSUME Known, FlightInv, NEW i \in Ids \ early, NEW e \in InFlight(i)
                PROVE  /\ \A c, d \in InFlight(i) : c = d
                       /\ i \in active \/ (mainPc = "mark" /\ i \in todo)
                       /\ i \in rows /\ i \in released
    BY DEF InFlightOnce
  <2>1. \A c \in InFlight(i) : <<i, c>> \in Flying /\ <<i, c>>[1] = i /\ <<i, c>>[2] = c
    BY DEF InFlight, Flying, Items
  <2>2. \A c, d \in InFlight(i) : c = d
    BY <2>1 DEF FlightInv, OneFlight
  <2>3. i \in Held \cap released
    BY <2>1 DEF FlightInv, FlightHeld
  <2>4. i \in active \/ (mainPc = "mark" /\ i \in todo)
    BY <2>3 DEF Held
  <2>5. i \in rows
    BY <2>4 DEF Known, TypeOK, LockInv
  <2>. QED
    BY <2>2, <2>3, <2>4, <2>5
<1>. QED
  BY <1>1, FlightInvariant, PTL

\* While the daemon runs it never leaves an accepted message active without an
\* item for it: no message stays in a state its SELECT skips.
THEOREM QueueActiveIsInFlight == Spec => []ActiveIsInFlight
<1>1. Known /\ RecordInv => ActiveIsInFlight
  <2>. SUFFICES ASSUME Known, RecordInv, DaemonUp, NEW i \in accepted \cap active
                PROVE  InFlight(i) # {}
    BY DEF ActiveIsInFlight
  <2>1. PICK x \in Flying : x[1] = i
    BY DEF Known, TypeOK, RecordInv, ActiveFlies
  <2>2. x[2] \in InFlight(i)
    BY <2>1 DEF InFlight, Flying, Items
  <2>. QED
    BY <2>2
<1>. QED
  BY <1>1, FlightInvariant, PTL

\* A second delivery follows only an attempt whose success the daemon could not
\* record.
THEOREM QueueDeliveredOnce == Spec => []DeliveredOnceUnlessUnrecorded
BY FlightInvariant, PTL DEF RecordInv

\* A message refused with 451 is neither delivered nor left in the queue, for
\* any of its recipients.
THEOREM QueueAllOrNothing == Spec => []AllOrNothing
<1>1. Known /\ FlightInv /\ RecordInv => AllOrNothing
  <2>. SUFFICES ASSUME Known, FlightInv, RecordInv, NEW s \in Senders, sPc[s] = "rejected",
                       NEW i \in sIds[s] \ early
                PROVE  delivered[i] = 0 /\ i \notin rows
    BY DEF AllOrNothing
  <2>1. i \in Ids /\ delivered[i] \in 0..2
    BY DEF Known, TypeOK
  <2>2. i \notin released
    BY DEF FlightInv, Unreleased, Own
  <2>3. ~(delivered[i] > 0)
    BY <2>1, <2>2 DEF RecordInv, DeliveryKnown
  <2>4. i \notin rows
    BY DEF RecordInv, RejectedGone
  <2>. QED
    BY <2>1, <2>3, <2>4
<1>. QED
  BY <1>1, FlightInvariant, PTL

\* A daemon that stops in order (threadPool->stop, the last ProcessResults,
\* ClearQueue) leaves no accepted message active behind it.
THEOREM QueueCleanStop == Spec => CleanStop
<1>1. ASSUME Known, FlightInv, RecordInv, [Next]_vars, DaemonUp, mainPc' = "down", restarts' = restarts
      PROVE  active' \cap accepted' = {}
  <2>1. ~UNCHANGED vars
    BY <1>1 DEF vars, daemonVars, DaemonUp
  <2>2. \A s \in Senders : ~SenderStep(s) /\ ~SenderCrash(s)
    BY <1>1 DEF SenderStep, EnqueueInsert, EnqueueNoTmpfile, EnqueueNoFile, EnqueueOpen, EnqueueCopy,
       EnqueueFinish, Release, Reply, DeleteFiles, DeleteMessages, SenderCrash, SenderOnly, daemonVars,
       DaemonUp
  <2>3. ~Crash
    BY <1>1 DEF Crash, Known, TypeOK
  <2>4. \A x \in Items : ~WorkerStep(x)
    BY <1>1 DEF WorkerStep, Pop, Deliver, DeliverUnanswered, Fail, WorkerOnly, DaemonUp
  <2>5. ~ProcessQueue /\ ~SkipRun /\ ~WorkersStopped /\ ~Quit /\ ~Reanimate
    BY <1>1 DEF ProcessQueue, BeginRun, PurgeRow, Dispatch, DispatchNothing, MarkActive, SkipRun,
       WorkersStopped, Quit, Reanimate, DaemonUp
  <2>6. \A x \in Items : ~ProcessResult(x)
    BY <1>1 DEF ProcessResult, ResultSuccess, ResultDeferred, ResultDropped, BounceInsert, NoBounceId,
       DaemonUp
  <2>7. ~ProcessResults
    BY <1>1, <2>6 DEF ProcessResults, SwapResults, BounceWrite, BounceRelease, BounceFails, BounceDone,
       ResultsDone, daemonVars, DaemonUp
  <2>8. ~Control /\ \A i \in Ids : ~AdminMark(i) /\ ~BackOffOver(i) /\ ~LifetimeOver(i)
    BY <1>1 DEF Control, ControlDelete, ControlFlush, ControlClearFiles, ControlClearRows, AdminMark,
       BackOffOver, LifetimeOver, daemonVars, DaemonUp
  <2>9. ClearQueue
    BY <1>1, <2>1, <2>2, <2>3, <2>4, <2>5, <2>7, <2>8 DEF Next, MainStep
  <2>10. /\ Working = {} /\ Results = {} /\ accepted' = accepted
         /\ active' = active \ {x[1] : x \in Queued}
    BY <1>1, <2>9 DEF ClearQueue, Deactivate, RecordInv, LastResults, ghostVars
  <2>11. ASSUME NEW i \in active \cap accepted PROVE i \notin active'
    <3>1. PICK x \in Flying : x[1] = i
      BY <1>1, <2>11 DEF Known, TypeOK, RecordInv, ActiveFlies
    <3>2. x \in Queued
      BY <1>1, <2>10, <3>1 DEF Known, TypeOK, Flying, Working, Results, Queued
    <3>. QED
      BY <2>10, <3>1, <3>2
  <2>. QED
    BY <2>10, <2>11
<1>2. Known /\ FlightInv /\ RecordInv /\ [Next]_vars
        => [DaemonUp /\ mainPc' = "down" /\ restarts' = restarts => active' \cap accepted' = {}]_vars
  BY <1>1
<1>. QED
  BY <1>2, FlightInvariant, PTL DEF Spec, CleanStop

-----------------------------------------------------------------------------
(***************************************************************************)
(* The bound of the pool's queue.                                          *)
(***************************************************************************)

\* All that is ever queued is finitely many items.
LEMMA QueuedFinite ==
    /\ \A S \in SUBSET Items : IsFiniteSet(S) /\ Cardinality(S) \in Nat
    /\ \A S \in SUBSET Ids : IsFiniteSet(S) /\ Cardinality(S) \in Nat
<1>1. IsFiniteSet(Items)
  BY QueueAssumption, FS_Product DEF Items
<1>2. \A S \in SUBSET Items : IsFiniteSet(S)
  BY <1>1, FS_Subset
<1>3. \A S \in SUBSET Ids : IsFiniteSet(S)
  BY QueueAssumption, FS_Subset
<1>. QED
  BY <1>2, <1>3, FS_CardinalityType

\* ProcessQueue reads no more rows than fit.
LEMMA BatchSize ==
    ASSUME TypeOK, NEW B \in Batches
    PROVE  Cardinality(B) <= ItemsToRead
<1>1. Eligible \in SUBSET Ids
  BY DEF Eligible, TypeOK
<1>2. B \in SUBSET Ids
  BY <1>1, BatchesEligible
<1>3. Cardinality(Queued) \in Nat /\ Cardinality(B) \in Nat
  BY <1>2, QueuedFinite DEF Queued
<1>4. ItemsToRead \in Nat
  BY <1>3, QueueAssumption DEF ItemsToRead
<1>5. CASE Cardinality(Eligible) <= ItemsToRead
  BY <1>5 DEF Batches
<1>6. CASE ~(Cardinality(Eligible) <= ItemsToRead)
  <2>1. Cardinality(B) = ItemsToRead
    BY <1>6 DEF Batches
  <2>. QED
    BY <1>4, <2>1
<1>. QED
  BY <1>5, <1>6

LEMMA DispatchBounded ==
    ASSUME TypeOK, QueueBounded, Dispatch
    PROVE  QueueBounded'
<1>1. PICK addr \in [todo' -> Copies] : Queued' = Queued \cup {<<i, addr[i]>> : i \in todo'}
  BY DispatchAdds
<1>. DEFINE B == todo'
            New == {<<i, addr[i]>> : i \in B}
<1>2. B \in Batches /\ Queued' \in SUBSET Items
  BY DispatchAdds
<1>3. Cardinality(B) <= ItemsToRead
  BY <1>2, BatchSize
<1>4. B \in SUBSET Ids
  BY <1>2, BatchesEligible DEF Eligible, TypeOK
<1>5. [i \in B |-> <<i, addr[i]>>] \in Surjection(B, New)
  BY DEF Surjection
<1>6. Cardinality(New) <= Cardinality(B) /\ IsFiniteSet(New)
  BY <1>4, <1>5, QueuedFinite, FS_Surjection
<1>7. IsFiniteSet(Queued) /\ Cardinality(Queued) \in Nat /\ Cardinality(B) \in Nat
  BY <1>4, QueuedFinite DEF Queued
<1>8. /\ Cardinality(Queued') = Cardinality(Queued) + Cardinality(New) - Cardinality(Queued \cap New)
      /\ Cardinality(Queued \cap New) \in Nat /\ Cardinality(New) \in Nat
  <2>1. IsFiniteSet(Queued \cap New)
    BY <1>7, FS_Intersection
  <2>. QED
    BY <1>1, <1>6, <1>7, <2>1, FS_Union, FS_CardinalityType
<1>9. Cardinality(Queued) <= QueueRunMax
  BY DEF QueueBounded
<1>10. Cardinality(New) <= ItemsToRead /\ ItemsToRead = QueueRunMax - Cardinality(Queued)
  <2>1. ItemsToRead = IF Cardinality(Queued) >= QueueRunMax THEN 0 ELSE QueueRunMax - Cardinality(Queued)
    BY DEF ItemsToRead
  <2>. HIDE DEF B, New
  <2>. QED
    BY <1>3, <1>6, <1>7, <1>8, <1>9, <2>1, QueueAssumption
<1>. HIDE DEF New, B
<1>. QED
  BY <1>7, <1>8, <1>9, <1>10, QueueAssumption DEF QueueBounded

\* No other step queues an item.
LEMMA OthersQueueNothing ==
    ASSUME TypeOK, OtherStep, ~Dispatch
    PROVE  Queued' \subseteq Queued
<1>. USE DEF daemonVars, TypeOK, Queued
<1>1. ASSUME Reanimate PROVE Queued' \subseteq Queued
  BY <1>1 DEF Reanimate
<1>2. ASSUME BeginRun PROVE Queued' \subseteq Queued
  BY <1>2 DEF BeginRun
<1>3. ASSUME NEW i \in Ids, PurgeRow(i) PROVE Queued' \subseteq Queued
  BY <1>3 DEF PurgeRow, RemoveRow, DeleteRows
<1>4. ASSUME DispatchNothing PROVE Queued' \subseteq Queued
  BY <1>4 DEF DispatchNothing
<1>5. ASSUME MarkActive PROVE Queued' \subseteq Queued
  BY <1>5 DEF MarkActive
<1>6. ASSUME SkipRun PROVE Queued' \subseteq Queued
  BY <1>6 DEF SkipRun
<1>7. ASSUME SwapResults PROVE Queued' \subseteq Queued
  BY <1>7 DEF SwapResults, Results
<1>8. ASSUME NEW x \in Items, ResultSuccess(x) PROVE Queued' \subseteq Queued
  BY <1>8 DEF ResultSuccess, InResults, RemoveRow, DeleteRows, Discard
<1>9. ASSUME NEW x \in Items, ResultDeferred(x) PROVE Queued' \subseteq Queued
  BY <1>9 DEF ResultDeferred, InResults, Discard
<1>10. ASSUME NEW x \in Items, ResultDropped(x) PROVE Queued' \subseteq Queued
  BY <1>10 DEF ResultDropped, InResults, Failed, RemoveRow, DeleteRows, Discard
<1>11. ASSUME NEW x \in Items, BounceInsert(x) PROVE Queued' \subseteq Queued
  BY <1>11 DEF BounceInsert, InResults, Failed, InsertActive
<1>12. ASSUME NEW x \in Items, NoBounceId(x) PROVE Queued' \subseteq Queued
  BY <1>12 DEF NoBounceId, InResults, Failed
<1>13. ASSUME BounceWrite PROVE Queued' \subseteq Queued
  BY <1>13 DEF BounceWrite, Copied
<1>14. ASSUME BounceRelease PROVE Queued' \subseteq Queued
  BY <1>14 DEF BounceRelease, Deactivate
<1>15. ASSUME BounceFails PROVE Queued' \subseteq Queued
  BY <1>15 DEF BounceFails, RemoveRow, DeleteRows
<1>16. ASSUME BounceDone PROVE Queued' \subseteq Queued
  BY <1>16 DEF BounceDone, RemoveRow, DeleteRows, Discard
<1>17. ASSUME ResultsDone PROVE Queued' \subseteq Queued
  BY <1>17 DEF ResultsDone
<1>18. ASSUME WorkersStopped PROVE Queued' \subseteq Queued
  BY <1>18 DEF WorkersStopped
<1>19. ASSUME ClearQueue PROVE Queued' \subseteq Queued
  BY <1>19 DEF ClearQueue, Deactivate
<1>20. ASSUME Quit PROVE Queued' \subseteq Queued
  BY <1>20 DEF Quit
<1>21. ASSUME Crash PROVE Queued' \subseteq Queued
  BY <1>21 DEF Crash
<1>22. ASSUME NEW x \in Items, Pop(x) PROVE Queued' \subseteq Queued
  BY <1>22 DEF Pop, WorkerOnly
<1>23. ASSUME NEW x \in Items, Deliver(x) PROVE Queued' \subseteq Queued
  BY <1>23 DEF Deliver, WorkerOnly
<1>24. ASSUME NEW x \in Items, DeliverUnanswered(x) PROVE Queued' \subseteq Queued
  BY <1>24 DEF DeliverUnanswered, WorkerOnly
<1>25. ASSUME NEW x \in Items, NEW status \in {"temp", "fatal"}, Fail(x, status) PROVE Queued' \subseteq Queued
  BY <1>25 DEF Fail, WorkerOnly
<1>26. ASSUME NEW i \in Ids, ControlDelete(i) PROVE Queued' \subseteq Queued
  BY <1>26 DEF ControlDelete, TableFree, RemoveRow, DeleteRows
<1>27. ASSUME ControlFlush PROVE Queued' \subseteq Queued
  BY <1>27 DEF ControlFlush, TableFree
<1>28. ASSUME ControlClearFiles PROVE Queued' \subseteq Queued
  BY <1>28 DEF ControlClearFiles, TableFree
<1>29. ASSUME ControlClearRows PROVE Queued' \subseteq Queued
  BY <1>29 DEF ControlClearRows, DeleteRows
<1>30. ASSUME NEW i \in Ids, AdminMark(i) PROVE Queued' \subseteq Queued
  BY <1>30 DEF AdminMark
<1>31. ASSUME NEW i \in Ids, BackOffOver(i) PROVE Queued' \subseteq Queued
  BY <1>31 DEF BackOffOver
<1>32. ASSUME NEW i \in Ids, LifetimeOver(i) PROVE Queued' \subseteq Queued
  BY <1>32 DEF LifetimeOver
<1>. QED
  BY <1>1, <1>2, <1>3, <1>4, <1>5, <1>6, <1>7, <1>8, <1>9, <1>10, <1>11, <1>12,
     <1>13, <1>14, <1>15, <1>16, <1>17, <1>18, <1>19, <1>20, <1>21, <1>22, <1>23,
     <1>24, <1>25, <1>26, <1>27, <1>28, <1>29, <1>30, <1>31, <1>32
     DEF OtherStep, MainStep, ProcessQueue, ProcessResults, ProcessResult, WorkerStep, Control

\* The thread pool never holds more than QUEUE_RUN_MAX waiting items, whatever
\* it already held when ProcessQueue counted.
THEOREM QueueStaysBounded == Spec => []QueueBounded
<1>1. Init => QueueBounded
  <2>. SUFFICES ASSUME Init PROVE QueueBounded
    OBVIOUS
  <2>1. Queued = {}
    BY DEF Init, Queued
  <2>. QED
    BY <2>1, FS_EmptySet, QueueAssumption DEF QueueBounded
<1>2. TypeOK /\ QueueBounded /\ [Next]_vars => QueueBounded'
  <2>. SUFFICES ASSUME TypeOK, QueueBounded, [Next]_vars, ~Dispatch PROVE QueueBounded'
    BY DispatchBounded
  <2>2. ~OtherStep => Queued' \subseteq Queued
    <3>. SUFFICES ASSUME ~OtherStep PROVE Queued' \subseteq Queued
      OBVIOUS
    <3>1. stage' = stage
      BY DEF Next, OtherStep, SenderStep, EnqueueInsert, EnqueueNoTmpfile, EnqueueNoFile,
         EnqueueOpen, EnqueueCopy, EnqueueFinish, Release, Reply, DeleteFiles, DeleteMessages,
         SenderCrash, SenderOnly, vars, daemonVars
    <3>. QED
      BY <3>1 DEF Queued
  <2>3. Queued' \subseteq Queued
    BY <2>2, OthersQueueNothing
  <2>4. Queued \in SUBSET Items
    BY DEF Queued
  <2>5. Cardinality(Queued') <= Cardinality(Queued)
    BY <2>3, <2>4, QueuedFinite, FS_Subset
  <2>6. Cardinality(Queued') \in Nat /\ Cardinality(Queued) \in Nat
    BY <2>3, <2>4, QueuedFinite
  <2>. QED
    BY <2>5, <2>6, QueueAssumption DEF QueueBounded
<1>. QED
  BY <1>1, <1>2, QueueTypeOK, PTL DEF Spec

=============================================================================
