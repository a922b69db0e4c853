------------------------- MODULE BotLifecycleProofs -------------------------
(***************************************************************************)
(* Proofs about the bot lifecycle, for any number of bots, threads and     *)
(* rental terms, any batch size and any set of offered operations.         *)
(***************************************************************************)
EXTENDS BotLifecycleInv, TLAPS

(***************************************************************************)
(* Type correctness                                                        *)
(***************************************************************************)
\* The thread record of a thread that does nothing is a thread record.
LEMMA IdleType == Idle \in Thread
BY ConstantsOK DEF Idle, Thread, PC, NoRow, Row, RowStatus, Term

\* Continuing at a label, or leaving the bot, keeps the threads well-typed.
LEMMA GotoType ==
    ASSUME TypeOK, NEW t \in Threads, NEW l \in PC \cup {"done"}, Goto(t, l)
    PROVE  thr' \in [Threads -> Thread]
<1> DEFINE new == IF l = "done" THEN Leave(thr[t]) ELSE [thr[t] EXCEPT !.pc = l]
<1>1. thr' = [thr EXCEPT ![t] = new]
  BY DEF Goto
<1>2. thr \in [Threads -> Thread] /\ thr[t] \in Thread
  BY DEF TypeOK
<1>3. Leave(thr[t]) \in Thread
  BY <1>2, IdleType DEF Leave, Thread, PC
<1>4. l # "done" => [thr[t] EXCEPT !.pc = l] \in Thread
  BY <1>2 DEF Thread
<1> QED
  BY <1>1, <1>2, <1>3, <1>4

\* Every call keeps the types.
Label == PC \cup {"done"}

LEMMA WriteStatusType ==
    ASSUME TypeOK, NEW b, NEW s \in BotStatus, WriteStatus(b, s)
    PROVE  status' \in [Bots -> RowStatus] /\ old' \in [Bots -> BOOLEAN]
BY DEF TypeOK, WriteStatus, RowStatus

LEMMA RemoveDeploymentType ==
    ASSUME TypeOK, NEW b, RemoveDeployment(b)
    PROVE  dep' \in [Bots -> BOOLEAN] /\ pods' \in [Bots -> SUBSET PodOwner]
BY DEF TypeOK, RemoveDeployment, PodOwner

LEMMA UpdateBotStatusType ==
    ASSUME TypeOK, NEW t \in Threads, NEW r, NEW s \in BotStatus,
           NEW ok \in Label, NEW err \in Label, UpdateBotStatus(t, r, s, ok, err)
    PROVE  TypeOK'
<1>1. thr' \in [Threads -> Thread]
  BY GotoType DEF UpdateBotStatus, Continue, Label
<1>2. status' \in [Bots -> RowStatus] /\ old' \in [Bots -> BOOLEAN]
  <2>1. CASE Applied(r)
    BY <2>1, WriteStatusType DEF UpdateBotStatus
  <2>2. CASE ~Applied(r)
    BY <2>2 DEF UpdateBotStatus, TypeOK
  <2> QED BY <2>1, <2>2
<1> QED
  BY <1>1, <1>2 DEF UpdateBotStatus, TypeOK, k8s, jobs

LEMMA UpdateBotType ==
    ASSUME TypeOK, NEW t \in Threads, NEW r, NEW newRow \in Row,
           NEW ok \in Label, NEW err \in Label, UpdateBot(t, r, newRow, ok, err)
    PROVE  TypeOK'
<1>1. thr' \in [Threads -> Thread]
  BY GotoType DEF UpdateBot, Continue, Label
<1>2. newRow.status \in RowStatus /\ newRow.term \in Term
  BY DEF Row
<1>3. /\ status' \in [Bots -> RowStatus]
      /\ term' \in [Bots -> Term]
      /\ old' \in [Bots -> BOOLEAN]
  BY <1>2 DEF UpdateBot, TypeOK, row
<1> QED
  BY <1>1, <1>3 DEF UpdateBot, TypeOK, k8s, jobs

LEMMA RemoveRowType ==
    ASSUME TypeOK, NEW t \in Threads, NEW r,
           NEW ok \in Label, NEW err \in Label, RemoveRow(t, r, ok, err)
    PROVE  TypeOK'
<1>1. thr' \in [Threads -> Thread]
  BY GotoType DEF RemoveRow, Continue, Label
<1> QED
  BY <1>1 DEF RemoveRow, TypeOK, RowStatus, k8s, jobs

LEMMA CreateDeploymentType ==
    ASSUME TypeOK, NEW t \in Threads, NEW r,
           NEW ok \in Label, NEW err \in Label, CreateDeployment(t, r, ok, err)
    PROVE  TypeOK'
<1>1. thr' \in [Threads -> Thread]
  BY GotoType DEF CreateDeployment, Continue, Label, PC
<1> QED
  BY <1>1 DEF CreateDeployment, TypeOK, row, jobs

LEMMA ReplaceDeploymentType ==
    ASSUME TypeOK, NEW t \in Threads, NEW r,
           NEW ok \in Label, NEW err \in Label, ReplaceDeployment(t, r, ok, err)
    PROVE  TypeOK'
<1>1. thr' \in [Threads -> Thread]
  BY GotoType DEF ReplaceDeployment, Label
<1> QED
  BY <1>1 DEF ReplaceDeployment, TypeOK, row, k8s, jobs

LEMMA DeleteDeploymentType ==
    ASSUME TypeOK, NEW t \in Threads, NEW r,
           NEW ok \in Label, NEW err \in Label, DeleteDeployment(t, r, ok, err)
    PROVE  TypeOK'
<1>1. thr' \in [Threads -> Thread]
  BY GotoType DEF DeleteDeployment, Continue, Label
<1>2. dep' \in [Bots -> BOOLEAN] /\ pods' \in [Bots -> SUBSET PodOwner]
  <2>1. CASE Applied(r)
    BY <2>1, RemoveDeploymentType DEF DeleteDeployment
  <2>2. CASE ~Applied(r)
    BY <2>2 DEF DeleteDeployment, TypeOK
  <2> QED BY <2>1, <2>2
<1> QED
  BY <1>1, <1>2 DEF DeleteDeployment, TypeOK, row, jobs

LEMMA CreateServiceType ==
    ASSUME TypeOK, NEW t \in Threads, NEW r,
           NEW ok \in Label, NEW err \in Label, CreateService(t, r, ok, err)
    PROVE  TypeOK'
<1>1. thr' \in [Threads -> Thread]
  BY GotoType DEF CreateService, Continue, Label
<1> QED
  BY <1>1 DEF CreateService, TypeOK, row, jobs

LEMMA DeleteServiceType ==
    ASSUME TypeOK, NEW t \in Threads, NEW r,
           NEW ok \in Label, NEW err \in Label, DeleteService(t, r, ok, err)
    PROVE  TypeOK'
<1>1. thr' \in [Threads -> Thread]
  BY GotoType DEF DeleteService, Continue, Label
<1> QED
  BY <1>1 DEF DeleteService, TypeOK, row, jobs

\* Calls that only look, and entries, change nothing but the thread.
LEMMA LookType ==
    ASSUME TypeOK, NEW t \in Threads, NEW l \in Label, Goto(t, l),
           UNCHANGED <<row, lapsed, k8s, jobs>>
    PROVE  TypeOK'
<1>1. thr' \in [Threads -> Thread]
  BY GotoType DEF Label
<1> QED
  BY <1>1 DEF TypeOK, row, k8s, jobs

LEMMA WaitForPodReadyType ==
    ASSUME TypeOK, NEW t \in Threads, NEW r,
           NEW ok \in Label, NEW err \in Label, WaitForPodReady(t, r, ok, err)
    PROVE  TypeOK'
BY LookType DEF WaitForPodReady

LEMMA DeploymentExistsType ==
    ASSUME TypeOK, NEW t \in Threads, NEW r,
           NEW yes \in Label, NEW no \in Label, DeploymentExists(t, r, yes, no)
    PROVE  TypeOK'
BY LookType DEF DeploymentExists

LEMMA EnterType ==
    ASSUME TypeOK, NEW t \in Threads, NEW k \in Ops, NEW b \in Bots,
           NEW l \in PC, Enter(t, k, b, l)
    PROVE  thr' \in [Threads -> Thread]
<1>1. Copy(k, b) \in Row
  BY ConstantsOK DEF Copy, NoRow, Row, TypeOK, Term, RowStatus
<1> QED
  BY <1>1 DEF Enter, TypeOK, Thread

LEMMA AcceptType ==
    ASSUME TypeOK, NEW t \in Threads, NEW k \in Ops, NEW b \in Bots,
           NEW l \in PC, Accept(t, k, b, l)
    PROVE  TypeOK'
<1>1. thr' \in [Threads -> Thread]
  BY EnterType DEF Accept
<1> QED
  BY <1>1 DEF Accept, TypeOK, row, k8s, jobs

\* Every handler keeps the types, whatever its calls answer.
LEMMA WaiterType ==
    ASSUME TypeOK, NEW t \in Threads, NEW k, NEW r, Waiter(t, k, r)
    PROVE  TypeOK'
BY WaitForPodReadyType, UpdateBotStatusType DEF Waiter, Label, PC, BotStatus

LEMMA StopType ==
    ASSUME TypeOK, NEW t \in Threads, NEW k \in Ops, NEW r, Stop(t, k, r)
    PROVE  TypeOK'
BY AcceptType, DeleteDeploymentType, DeleteServiceType, UpdateBotStatusType
   DEF Stop, Label, PC, BotStatus

LEMMA RecreateType ==
    ASSUME TypeOK, NEW t \in Threads, NEW k, NEW r, Recreate(t, k, r)
    PROVE  TypeOK'
BY ReplaceDeploymentType, DeleteServiceType, CreateServiceType,
   UpdateBotStatusType DEF Recreate, Label, PC, BotStatus

LEMMA StartBotType ==
    ASSUME TypeOK, NEW t \in Threads, NEW r, StartBot(t, r)
    PROVE  TypeOK'
<1>1. CASE \E b \in Bots : status[b] # "running" /\ Accept(t, "start", b, "create")
  BY <1>1, AcceptType DEF Ops, PC
<1>2. CASE Launch(t, "start", r, UpdateBotStatus(t, r, "running", "done", "done"))
  BY <1>2, CreateDeploymentType, ReplaceDeploymentType, CreateServiceType,
     DeleteDeploymentType, UpdateBotStatusType DEF Launch, Label, PC, BotStatus
<1> QED
  BY <1>1, <1>2 DEF StartBot

LEMMA AdminStartBotType ==
    ASSUME TypeOK, NEW t \in Threads, NEW r, AdminStartBot(t, r)
    PROVE  TypeOK'
<1>1. CASE \E b \in Bots : status[b] # "running" /\ Accept(t, "adminStart", b, "create")
  BY <1>1, AcceptType DEF Ops, PC
<1>2. CASE Launch(t, "adminStart", r, UpdateBotStatus(t, r, "starting", "await", "done"))
  BY <1>2, CreateDeploymentType, ReplaceDeploymentType, CreateServiceType,
     DeleteDeploymentType, UpdateBotStatusType DEF Launch, Label, PC, BotStatus
<1>3. CASE Waiter(t, "adminStart", r)
  BY <1>3, WaiterType
<1> QED
  BY <1>1, <1>2, <1>3 DEF AdminStartBot

LEMMA ProvisionTelegramBotType ==
    ASSUME TypeOK, NEW t \in Threads, NEW r, ProvisionTelegramBot(t, r)
    PROVE  TypeOK'
<1>1. ASSUME NEW b \in Bots, NEW i, InsertRow(b, i),
             IF Answered(i) THEN Enter(t, "provision", b, "create")
                            ELSE MayBegin("provision", b) /\ UNCHANGED thr,
             UNCHANGED <<lapsed, k8s, jobs>>
      PROVE  TypeOK'
  <2>1. thr' \in [Threads -> Thread]
    <3>1. CASE Answered(i)
      BY <3>1, <1>1, EnterType DEF Ops, PC
    <3>2. CASE ~Answered(i)
      BY <3>2, <1>1 DEF TypeOK
    <3> QED BY <3>1, <3>2
  <2>2. status' \in [Bots -> RowStatus]
    BY <1>1 DEF InsertRow, TypeOK, RowStatus, BotStatus
  <2> QED
    BY <1>1, <2>1, <2>2 DEF InsertRow, TypeOK, k8s, jobs
<1>2. CASE Launch(t, "provision", r, UpdateBotStatus(t, r, "starting", "await", "done"))
  BY <1>2, CreateDeploymentType, ReplaceDeploymentType, CreateServiceType,
     DeleteDeploymentType, UpdateBotStatusType DEF Launch, Label, PC, BotStatus
<1>3. CASE Waiter(t, "provision", r)
  BY <1>3, WaiterType
<1> QED
  BY <1>1, <1>2, <1>3 DEF ProvisionTelegramBot

LEMMA DeleteBotType ==
    ASSUME TypeOK, NEW t \in Threads, NEW r, DeleteBot(t, r) \/ AdminDeleteBot(t, r)
    PROVE  TypeOK'
<1>1. CASE DeleteBot(t, r)
  BY <1>1, AcceptType, DeleteDeploymentType, DeleteServiceType, RemoveRowType
     DEF DeleteBot, Label, PC, Ops
<1>2. CASE AdminDeleteBot(t, r)
  BY <1>2, AcceptType, DeleteDeploymentType, DeleteServiceType, RemoveRowType
     DEF AdminDeleteBot, Label, PC, Ops
<1> QED BY <1>1, <1>2

LEMMA RestartBotType ==
    ASSUME TypeOK, NEW t \in Threads, NEW r, RestartBot(t, r)
    PROVE  TypeOK'
BY AcceptType, RecreateType DEF RestartBot, Ops, PC

LEMMA RestartAllBotsType ==
    ASSUME TypeOK, NEW t \in Threads, NEW r, RestartAllBots(t, r)
    PROVE  TypeOK'
<1> DEFINE bots == {b \in Bots : status[b] = "running"}
<1>1. CASE /\ thr' = [thr EXCEPT ![t] = [op |-> "restartAll", pc |-> "next",
                                        bot |-> NoBot, todo |-> bots, row |-> NoRow]]
           /\ UNCHANGED <<row, lapsed, k8s, jobs>>
  <2>1. NoRow \in Row
    BY ConstantsOK DEF NoRow, Row, RowStatus, Term
  <2>2. thr' \in [Threads -> Thread]
    BY <1>1, <2>1 DEF TypeOK, Thread, Ops, PC
  <2> QED
    BY <1>1, <2>2 DEF TypeOK, row, k8s, jobs
<1>2. CASE At(t, "restartAll", "exists") /\ DeploymentExists(t, r, "roll", "done")
  BY <1>2, DeploymentExistsType DEF Label, PC
<1>3. CASE Recreate(t, "restartAll", r)
  BY <1>3, RecreateType
<1> QED
  BY <1>1, <1>2, <1>3 DEF RestartAllBots

LEMMA RestartNextType ==
    ASSUME TypeOK, NEW t \in Threads, RestartNext(t)
    PROVE  TypeOK'
<1>1. PICK b \in thr[t].todo :
         thr' = [thr EXCEPT ![t] = [@ EXCEPT !.pc = "exists", !.bot = b]]
  BY DEF RestartNext
<1>2. [thr[t] EXCEPT !.pc = "exists", !.bot = b] \in Thread
  BY DEF TypeOK, Thread, PC
<1>3. thr' \in [Threads -> Thread]
  BY <1>1, <1>2 DEF TypeOK
<1> QED
  BY <1>3 DEF RestartNext, TypeOK, row, k8s, jobs

LEMMA GetBotStatusType ==
    ASSUME TypeOK, NEW t \in Threads, NEW r, GetBotStatus(t, r)
    PROVE  TypeOK'
<1>1. CASE \E b \in Bots : status[b] = "running" /\ Accept(t, "status", b, "probe")
  BY <1>1, AcceptType DEF Ops, PC
<1>2. CASE /\ Goto(t, IF Answered(r) /\ "own" \notin pods[BotOf(t)] THEN "lookup" ELSE "done")
           /\ UNCHANGED <<row, lapsed, k8s, jobs>>
  BY <1>2, LookType DEF Label, PC
<1>3. CASE DeploymentExists(t, r, "done", "save")
  BY <1>3, DeploymentExistsType DEF Label, PC
<1>4. CASE UpdateBot(t, r, [thr[t].row EXCEPT !.status = "stopped"], "done", "done")
  <2>1. [thr[t].row EXCEPT !.status = "stopped"] \in Row
    BY DEF TypeOK, Thread, Row, RowStatus, BotStatus
  <2> QED
    BY <1>4, <2>1, UpdateBotType DEF Label
<1> QED
  BY <1>1, <1>2, <1>3, <1>4 DEF GetBotStatus

LEMMA PutBotType ==
    ASSUME TypeOK, NEW t \in Threads, NEW r, PutBot(t, r)
    PROVE  TypeOK'
<1>1. CASE \E b \in Bots : Accept(t, "update", b, "save")
  BY <1>1, AcceptType DEF Ops, PC
<1>2. ASSUME NEW n \in thr[t].row.term .. MaxTerm,
             UpdateBot(t, r, [thr[t].row EXCEPT !.term = n], "done", "done")
      PROVE  TypeOK'
  <2>1. thr[t].row \in Row /\ thr[t].row.term \in Term
    BY DEF TypeOK, Thread, Row
  <2>2. n \in Term
    BY <2>1, ConstantsOK DEF Term
  <2>3. [thr[t].row EXCEPT !.term = n] \in Row
    BY <2>1, <2>2 DEF Row
  <2> QED
    BY <1>2, <2>3, UpdateBotType DEF Label
<1> QED
  BY <1>1, <1>2 DEF PutBot

LEMMA ThreadStepType ==
    ASSUME TypeOK, NEW t \in Threads, NEW r, ThreadStep(t, r)
    PROVE  TypeOK'
BY StartBotType, AdminStartBotType, ProvisionTelegramBotType, StopType,
   DeleteBotType, RestartBotType, RestartAllBotsType, GetBotStatusType, PutBotType
   DEF ThreadStep, StopBot, AdminStopBot, Ops

\* The jobs and the surroundings.
LEMMA RecStepType ==
    ASSUME TypeOK, NEW b \in Bots, NEW s \in Listed, NEW r, RecStep(b, s, r)
    PROVE  TypeOK'
<1>1. ASSUME NEW l \in RecPC, RecGoto(b, s, l)
      PROVE  rpc' \in [Bots -> [Listed -> RecPC]]
  BY <1>1 DEF RecGoto, TypeOK
<1>2. CASE InspectActive(b, s, r)
  <2>1. rpc' \in [Bots -> [Listed -> RecPC]]
    BY <1>1, <1>2 DEF InspectActive, Diagnosis, RecPC
  <2> QED BY <1>2, <2>1 DEF InspectActive, RecStep, TypeOK
<1>3. CASE InspectInactive(b, s, r)
  <2>1. rpc' \in [Bots -> [Listed -> RecPC]]
    BY <1>1, <1>3 DEF InspectInactive, RecPC
  <2> QED BY <1>3, <2>1 DEF InspectInactive, RecStep, TypeOK
<1>4. CASE RecWriteRow(b, s, r)
  <2>1. rpc' \in [Bots -> [Listed -> RecPC]]
    BY <1>1, <1>4 DEF RecWriteRow, RecPC
  <2>2. status' \in [Bots -> RowStatus] /\ old' \in [Bots -> BOOLEAN]
    <3>1. RecVerdict(rpc[b][s], s) \in BotStatus
      BY DEF RecVerdict, BotStatus
    <3>2. CASE Applied(r)
      BY <1>4, <3>1, <3>2, WriteStatusType DEF RecWriteRow
    <3>3. CASE ~Applied(r)
      BY <1>4, <3>3 DEF RecWriteRow, TypeOK
    <3> QED BY <3>2, <3>3
  <2> QED BY <1>4, <2>1, <2>2 DEF RecWriteRow, RecStep, TypeOK
<1>5. CASE RecDeleteDeployment(b, s, r)
  <2>1. rpc' \in [Bots -> [Listed -> RecPC]]
    BY <1>1, <1>5 DEF RecDeleteDeployment, RecPC
  <2>2. dep' \in [Bots -> BOOLEAN] /\ pods' \in [Bots -> SUBSET PodOwner]
    <3>1. CASE Applied(r)
      BY <1>5, <3>1, RemoveDeploymentType DEF RecDeleteDeployment
    <3>2. CASE ~Applied(r)
      BY <1>5, <3>2 DEF RecDeleteDeployment, TypeOK
    <3> QED BY <3>1, <3>2
  <2> QED BY <1>5, <2>1, <2>2 DEF RecDeleteDeployment, RecStep, TypeOK
<1>6. CASE RecDeleteService(b, s, r)
  <2>1. rpc' \in [Bots -> [Listed -> RecPC]]
    BY <1>1, <1>6 DEF RecDeleteService, RecPC
  <2>2. svc' \in [Bots -> BOOLEAN]
    BY <1>6 DEF RecDeleteService, TypeOK
  <2> QED BY <1>6, <2>1, <2>2 DEF RecDeleteService, RecStep, TypeOK
<1> QED
  BY <1>2, <1>3, <1>4, <1>5, <1>6 DEF RecStep

LEMMA ReconcileFrameType ==
    ASSUME TypeOK, ReadList \/ ReadListFails \/ RecDone \/ RecKilled
    PROVE  TypeOK'
<1>1. CASE ReadList
  <2> DEFINE l == List[rq + 1]
  <2> DEFINE hits == {b \in Bots : status[b] = l}
  <2>1. rq' \in 0 .. 4 /\ l \in Listed
    BY <1>1 DEF ReadList, TypeOK, List, Listed
  <2>2. rpc' \in [Bots -> [Listed -> RecPC]]
    <3>1. \A b \in Bots : [rpc[b] EXCEPT ![l] = "listed"] \in [Listed -> RecPC]
      BY DEF TypeOK, RecPC
    <3>2. rpc' = [b \in Bots |-> IF b \in hits THEN [rpc[b] EXCEPT ![l] = "listed"]
                                               ELSE rpc[b]]
      BY <1>1 DEF ReadList
    <3> HIDE DEF l, hits
    <3> QED BY <3>1, <3>2 DEF TypeOK
  <2>3. rold' \in [Bots -> BOOLEAN]
    <3>1. rold' = IF l = "starting" THEN [b \in Bots |-> b \in hits /\ old[b]] ELSE rold
      BY <1>1 DEF ReadList
    <3> HIDE DEF l, hits
    <3>2. CASE l = "starting"
      BY <3>1, <3>2 DEF TypeOK
    <3>3. CASE l # "starting"
      BY <3>1, <3>3 DEF TypeOK
    <3> QED BY <3>2, <3>3
  <2> HIDE DEF l, hits
  <2> QED BY <1>1, <2>1, <2>2, <2>3 DEF ReadList, TypeOK, row, k8s
<1>2. CASE ReadListFails
  BY <1>2 DEF ReadListFails, TypeOK, row, k8s
<1>3. CASE RecDone
  BY <1>3 DEF RecDone, TypeOK, row, k8s
<1>4. CASE RecKilled
  BY <1>4 DEF RecKilled, NoRecWork, RecPC, TypeOK, row, k8s
<1> QED BY <1>1, <1>2, <1>3, <1>4

LEMMA CleanStepType ==
    ASSUME TypeOK, NEW b \in Bots, NEW r, CleanStep(b, r)
    PROVE  TypeOK'
<1>1. CASE CleanDeleteDeployment(b, r)
  <2>1. dep' \in [Bots -> BOOLEAN] /\ pods' \in [Bots -> SUBSET PodOwner]
    <3>1. CASE Applied(r)
      BY <1>1, <3>1, RemoveDeploymentType DEF CleanDeleteDeployment
    <3>2. CASE ~Applied(r)
      BY <1>1, <3>2 DEF CleanDeleteDeployment, TypeOK
    <3> QED BY <3>1, <3>2
  <2> QED BY <1>1, <2>1 DEF CleanDeleteDeployment, CleanStep, TypeOK, CleanPC
<1>2. CASE CleanDeleteService(b, r)
  BY <1>2 DEF CleanDeleteService, CleanStep, TypeOK, CleanPC
<1>3. CASE CleanMark(b, r)
  <2>1. status' \in [Bots -> RowStatus] /\ old' \in [Bots -> BOOLEAN]
    <3>1. CASE Applied(r)
      BY <1>3, <3>1, WriteStatusType DEF CleanMark, BotStatus
    <3>2. CASE ~Applied(r)
      BY <1>3, <3>2 DEF CleanMark, TypeOK
    <3> QED BY <3>1, <3>2
  <2> QED BY <1>3, <2>1 DEF CleanMark, CleanStep, TypeOK, CleanPC
<1> QED
  BY <1>1, <1>2, <1>3 DEF CleanStep

LEMMA CleanupFrameType ==
    ASSUME TypeOK, CleanupStart \/ CleanKilled
    PROVE  TypeOK'
<1>1. CASE CleanupStart
  BY <1>1 DEF CleanupStart, TypeOK, CleanPC, row, k8s
<1>2. CASE CleanKilled
  BY <1>2 DEF CleanKilled, TypeOK, CleanPC, row, k8s
<1> QED BY <1>1, <1>2

LEMMA SurroundingsType ==
    ASSUME TypeOK, NEW b \in Bots, PodChange(b) \/ TermEnds(b) \/ StartingTimeout(b)
    PROVE  TypeOK'
<1>1. CASE PodChange(b)
  <2>1. pods' \in [Bots -> SUBSET PodOwner]
    BY <1>1 DEF PodChange, TypeOK, PodOwner
  <2> QED BY <1>1, <2>1 DEF PodChange, TypeOK, row, jobs
<1>2. CASE TermEnds(b)
  BY <1>2, ConstantsOK DEF TermEnds, TypeOK, Term, row, k8s, jobs
<1>3. CASE StartingTimeout(b)
  BY <1>3 DEF StartingTimeout, TypeOK, k8s
<1> QED BY <1>1, <1>2, <1>3

\* The types are right in every reachable state (all handlers and jobs).
THEOREM TypeCorrect == Spec => []TypeOK
<1>1. Init => TypeOK
  BY IdleType, ConstantsOK DEF Init, TypeOK, RowStatus, Term, NoRecWork, RecPC, CleanPC
<1>2. TypeOK /\ [Next]_vars => TypeOK'
  <2> SUFFICES ASSUME TypeOK, [Next]_vars PROVE TypeOK'
    OBVIOUS
  <2>1. CASE \E t \in Threads : \E r \in Possible(t) : ThreadStep(t, r)
    BY <2>1, ThreadStepType
  <2>2. CASE \E t \in Threads : RestartNext(t)
    BY <2>2, RestartNextType
  <2>3. ASSUME NEW b \in Bots, NEW r \in Outcomes(b), CreateBot(b, r) \/ CleanStep(b, r)
        PROVE  TypeOK'
    <3>1. CASE CreateBot(b, r)
      BY <3>1 DEF CreateBot, InsertRow, TypeOK, RowStatus, BotStatus, k8s, jobs
    <3>2. CASE CleanStep(b, r)
      BY <3>2, CleanStepType
    <3> QED BY <2>3, <3>1, <3>2
  <2>4. CASE \E b \in Bots, s \in Listed : \E r \in Outcomes(b) : RecStep(b, s, r)
    BY <2>4, RecStepType
  <2>5. CASE ReadList \/ ReadListFails \/ RecDone \/ RecKilled
    BY <2>5, ReconcileFrameType
  <2>6. CASE CleanupStart \/ CleanKilled
    BY <2>6, CleanupFrameType
  <2>7. CASE \E b \in Bots : PodChange(b) \/ TermEnds(b) \/ StartingTimeout(b)
    BY <2>7, SurroundingsType
  <2>8. CASE ServerCrash
    BY <2>8, IdleType DEF ServerCrash, TypeOK, row, k8s, jobs
  <2>9. CASE UNCHANGED vars
    BY <2>9 DEF vars, TypeOK
  <2> QED
    BY <2>1, <2>2, <2>3, <2>4, <2>5, <2>6, <2>7, <2>8, <2>9 DEF Next
<1> QED
  BY <1>1, <1>2, PTL DEF Spec

(***************************************************************************)
(* Control: which labels a thread goes through, and who shares a bot       *)
(***************************************************************************)
\* Thread t goes on to a label of its operation, or leaves its bot.
Proceeds(t) ==
    /\ thr[t].pc \notin {"idle", "next"}
    /\ \E l \in Label :
         /\ Goto(t, l)
         /\ l # "done" =>
              /\ l \notin {"idle", "next"}
              /\ BotOf(t) \in Orderly => l \in Route(thr[t].op)

\* Thread t takes up operation k on bot b.
Begins(t, k, b) ==
    \E l \in PC \ {"idle", "next"} : Enter(t, k, b, l) /\ l \in Route(k)

\* Thread t takes up a restart of all running bots.
BeginsAll(t, bots) ==
    /\ thr[t].pc = "idle"
    /\ \A b \in bots : MayBegin("restartAll", b)
    /\ thr' = [thr EXCEPT ![t] = [op |-> "restartAll", pc |-> "next",
                                  bot |-> NoBot, todo |-> bots, row |-> NoRow]]

\* No thread takes up anything: what it holds it held before.
NoNewHolders ==
    \A u \in Threads :
        /\ thr'[u].todo \subseteq thr[u].todo
        /\ thr'[u].todo # {} => thr'[u].op = thr[u].op

\* A reliable bot answers every call.
LEMMA ReliableAnswers ==
    ASSUME NEW t \in Threads, NEW r \in Possible(t)
    PROVE  BotOf(t) \in Orderly => r = "ok" /\ Applied(r) /\ Answered(r)
BY ConstantsOK DEF Possible, Outcomes, Orderly, Applied, Answered

\* What an orderly bot never lets overlap.
LEMMA OrderlyOverlap ==
    ASSUME NEW b \in Orderly
    PROVE  /\ b \in Bots
           /\ "reconcile" \notin Overlap[b] /\ "update" \notin Overlap[b]
           /\ "status" \notin Overlap[b]
           /\ \A k \in UpOps, j \in DownOps : ~({j, k} \subseteq Overlap[b])
<1>1. b \in Bots
  BY ConstantsOK DEF Orderly
<1>2. Overlap[b] \subseteq UpOps \/ Overlap[b] \subseteq DownOps
  BY DEF Orderly
<1> QED
  BY <1>1, <1>2 DEF UpOps, DownOps

LEMMA ProceedsKeeps ==
    ASSUME TypeOK, ThreadShape, NEW t \in Threads, Proceeds(t)
    PROVE  ThreadShape' /\ NoNewHolders
<1>1. PICK l \in Label :
        /\ Goto(t, l)
        /\ l # "done" =>
             /\ l \notin {"idle", "next"}
             /\ BotOf(t) \in Orderly => l \in Route(thr[t].op)
  BY DEF Proceeds
<1>2. /\ thr[t].bot \in thr[t].todo
      /\ thr[t].op # "restartAll" => thr[t].todo = {thr[t].bot}
      /\ thr[t] \in Thread
  BY DEF ThreadShape, Proceeds, Idle, TypeOK
<1>3. \A u \in Threads : u # t => thr'[u] = thr[u]
  BY <1>1 DEF Goto, TypeOK
<1>4. CASE l = "done"
  <2>1. thr'[t] = Leave(thr[t])
    BY <1>1, <1>4 DEF Goto, TypeOK
  <2>2. CASE thr[t].todo \ {thr[t].bot} = {}
    <3>1. thr'[t] = Idle
      BY <2>1, <2>2 DEF Leave
    <3>2. thr'[t].todo = {}
      BY <3>1 DEF Idle
    <3>3. ThreadShape'
      BY <1>3, <3>1 DEF ThreadShape
    <3>4. NoNewHolders
      BY <1>3, <3>2 DEF NoNewHolders
    <3> QED BY <3>3, <3>4
  <2>3. CASE thr[t].todo \ {thr[t].bot} # {}
    <3>1. /\ thr'[t].op = thr[t].op /\ thr'[t].pc = "next" /\ thr'[t].bot = NoBot
          /\ thr'[t].todo = thr[t].todo \ {thr[t].bot}
      BY <1>2, <2>1, <2>3 DEF Leave, Thread
    <3>2. thr[t].op = "restartAll"
      BY <1>2, <2>3
    <3> QED
      BY <1>3, <3>1, <3>2 DEF ThreadShape, NoNewHolders
  <2> QED BY <2>2, <2>3
<1>5. CASE l # "done"
  <2>1. thr'[t] = [thr[t] EXCEPT !.pc = l]
    BY <1>1, <1>5 DEF Goto, TypeOK
  <2>2. /\ thr'[t].op = thr[t].op /\ thr'[t].pc = l /\ thr'[t].bot = thr[t].bot
        /\ thr'[t].todo = thr[t].todo
    BY <1>2, <2>1 DEF Thread
  <2>3. l \notin {"idle", "next"} /\ (thr[t].bot \in Orderly => l \in Route(thr[t].op))
    BY <1>1, <1>5 DEF BotOf
  <2>4. ThreadShape'
    BY <1>2, <1>3, <2>2, <2>3 DEF ThreadShape
  <2>5. NoNewHolders
    BY <1>3, <2>2 DEF NoNewHolders
  <2> QED BY <2>4, <2>5
<1> QED BY <1>4, <1>5

LEMMA ProceedsBy ==
    ASSUME NEW t \in Threads, thr[t].pc \notin {"idle", "next"},
           NEW l \in Label \ {"idle", "next"}, Goto(t, l),
           BotOf(t) \in Orderly /\ l # "done" => l \in Route(thr[t].op)
    PROVE  Proceeds(t)
BY DEF Proceeds

\* A call goes on at one of its two labels, at the first if it is answered.
LEMMA ContinueProceeds ==
    ASSUME NEW t \in Threads, NEW r \in Possible(t), thr[t].pc \notin {"idle", "next"},
           NEW ok \in Label \ {"idle", "next"}, NEW err \in Label \ {"idle", "next"},
           ok # "done" => ok \in Route(thr[t].op), Continue(t, r, ok, err)
    PROVE  Proceeds(t)
BY ProceedsBy, ReliableAnswers DEF Continue

LEMMA LaunchControl ==
    ASSUME NEW t \in Threads, NEW k \in Launchers, NEW r \in Possible(t),
           NEW s, NEW l \in Label \ {"idle", "next"}, l # "done" => l \in Route(k),
           Launch(t, k, r, UpdateBotStatus(t, r, s, l, "done"))
    PROVE  Proceeds(t) /\ UNCHANGED jobs
<1> USE DEF At, Label, PC
<1>1. Route(k) = {"create", "replace", "expose", "mark"}
        \/ Route(k) = {"create", "replace", "expose", "mark", "await", "arrived", "giveup"}
  BY DEF Route, Launchers, Stoppers, Deleters
<1>2. CASE At(t, k, "create") /\ CreateDeployment(t, r, "expose", "done")
  <2>1. CASE dep[BotOf(t)] /\ Answered(r)
    BY <1>1, <1>2, <2>1, ProceedsBy DEF CreateDeployment
  <2>2. CASE ~(dep[BotOf(t)] /\ Answered(r))
    BY <1>1, <1>2, <2>2, ContinueProceeds DEF CreateDeployment
  <2> QED BY <1>2, <2>1, <2>2 DEF CreateDeployment
<1>3. CASE At(t, k, "replace") /\ ReplaceDeployment(t, r, "expose", "done")
  BY <1>1, <1>3, ProceedsBy DEF ReplaceDeployment
<1>4. CASE At(t, k, "expose") /\ CreateService(t, r, "mark", "rollback")
  BY <1>1, <1>4, ContinueProceeds DEF CreateService
<1>5. CASE At(t, k, "rollback") /\ DeleteDeployment(t, r, "done", "done")
  BY <1>5, ContinueProceeds DEF DeleteDeployment
<1>6. CASE At(t, k, "mark") /\ UpdateBotStatus(t, r, s, l, "done")
  BY <1>6, ContinueProceeds DEF UpdateBotStatus
<1> QED
  BY <1>2, <1>3, <1>4, <1>5, <1>6 DEF Launch

LEMMA WaiterControl ==
    ASSUME NEW t \in Threads, NEW k \in {"adminStart", "provision"},
           NEW r \in Possible(t), Waiter(t, k, r)
    PROVE  Proceeds(t) /\ UNCHANGED jobs
<1> USE DEF At, Label, PC
<1>1. {"arrived", "giveup"} \subseteq Route(k)
  BY DEF Route, Stoppers, Deleters
<1>2. CASE At(t, k, "await") /\ WaitForPodReady(t, r, "arrived", "giveup")
  BY <1>1, <1>2, ProceedsBy DEF WaitForPodReady
<1>3. CASE At(t, k, "arrived") /\ UpdateBotStatus(t, r, "running", "done", "done")
  BY <1>3, ContinueProceeds DEF UpdateBotStatus
<1>4. CASE At(t, k, "giveup") /\ UpdateBotStatus(t, r, "error", "done", "done")
  BY <1>4, ContinueProceeds DEF UpdateBotStatus
<1> QED BY <1>2, <1>3, <1>4 DEF Waiter

LEMMA RecreateControl ==
    ASSUME NEW t \in Threads, NEW k \in Restarters,
           NEW r \in Possible(t), Recreate(t, k, r)
    PROVE  Proceeds(t) /\ UNCHANGED jobs
<1> USE DEF At, Label, PC
<1>1. {"hide", "expose", "mark"} \subseteq Route(k)
  BY DEF Route, Restarters, Stoppers, Deleters
<1>2. CASE At(t, k, "roll") /\ ReplaceDeployment(t, r, "hide", "done")
  BY <1>1, <1>2, ProceedsBy DEF ReplaceDeployment
<1>3. CASE At(t, k, "hide") /\ DeleteService(t, r, "expose", "expose")
  BY <1>1, <1>3, ContinueProceeds DEF DeleteService
<1>4. CASE At(t, k, "expose") /\ CreateService(t, r, "mark", "done")
  BY <1>1, <1>4, ContinueProceeds DEF CreateService
<1>5. CASE At(t, k, "mark") /\ UpdateBotStatus(t, r, "running", "done", "done")
  BY <1>5, ContinueProceeds DEF UpdateBotStatus
<1> QED BY <1>2, <1>3, <1>4, <1>5 DEF Recreate

\* What a step of a thread does to the threads: it goes on with its operation,
\* or takes one up; only a failed insert of ProvisionTelegramBot does neither.
ThreadMove(t) ==
    \/ Proceeds(t)
    \/ \E k \in Ops \ {"restartAll"}, b \in Bots : Begins(t, k, b)
    \/ \E bots \in SUBSET Bots : BeginsAll(t, bots)
    \/ UNCHANGED thr

LEMMA AcceptMove ==
    ASSUME NEW t \in Threads, NEW k \in Ops \ {"restartAll"}, NEW b \in Bots,
           NEW l \in Route(k), l \in PC \ {"idle", "next"}, Accept(t, k, b, l)
    PROVE  ThreadMove(t) /\ UNCHANGED jobs
BY DEF ThreadMove, Begins, Accept

LEMMA ThreadStepMove ==
    ASSUME NEW t \in Threads, NEW r \in Possible(t), ThreadStep(t, r)
    PROVE  ThreadMove(t) /\ UNCHANGED jobs
<1> USE DEF At, Label, PC
<1>1. CASE StartBot(t, r)
  <2>1. CASE \E b \in Bots : status[b] # "running" /\ Accept(t, "start", b, "create")
    BY <2>1, AcceptMove DEF Route, Ops, Stoppers, Deleters
  <2>2. CASE Launch(t, "start", r, UpdateBotStatus(t, r, "running", "done", "done"))
    BY <2>2, LaunchControl DEF Launchers, ThreadMove
  <2> QED BY <1>1, <2>1, <2>2 DEF StartBot
<1>2. CASE AdminStartBot(t, r)
  <2>1. CASE \E b \in Bots : status[b] # "running" /\ Accept(t, "adminStart", b, "create")
    BY <2>1, AcceptMove DEF Route, Ops, Stoppers, Deleters
  <2>2. CASE Launch(t, "adminStart", r, UpdateBotStatus(t, r, "starting", "await", "done"))
    BY <2>2, LaunchControl DEF Launchers, ThreadMove, Route, Stoppers, Deleters
  <2>3. CASE Waiter(t, "adminStart", r)
    BY <2>3, WaiterControl DEF ThreadMove
  <2> QED BY <1>2, <2>1, <2>2, <2>3 DEF AdminStartBot
<1>3. CASE ProvisionTelegramBot(t, r)
  <2>1. ASSUME NEW b \in Bots, NEW i,
               IF Answered(i) THEN Enter(t, "provision", b, "create")
                              ELSE MayBegin("provision", b) /\ UNCHANGED thr,
               UNCHANGED <<lapsed, k8s, jobs>>
        PROVE  ThreadMove(t) /\ UNCHANGED jobs
    BY <2>1 DEF ThreadMove, Begins, Route, Ops, Stoppers, Deleters
  <2>2. CASE Launch(t, "provision", r, UpdateBotStatus(t, r, "starting", "await", "done"))
    BY <2>2, LaunchControl DEF Launchers, ThreadMove, Route, Stoppers, Deleters
  <2>3. CASE Waiter(t, "provision", r)
    BY <2>3, WaiterControl DEF ThreadMove
  <2> QED BY <1>3, <2>1, <2>2, <2>3 DEF ProvisionTelegramBot
<1>4. ASSUME NEW k \in Stoppers, Stop(t, k, r)
      PROVE  ThreadMove(t) /\ UNCHANGED jobs
  <2>1. Route(k) = {"remove", "unexpose", "mark"}
    BY <1>4 DEF Route, Stoppers, Deleters
  <2>2. CASE \E b \in Bots : status[b] = "running" /\ Accept(t, k, b, "remove")
    BY <1>4, <2>1, <2>2, AcceptMove DEF Ops, Stoppers
  <2>3. CASE At(t, k, "remove") /\ DeleteDeployment(t, r, "unexpose", "done")
    BY <2>1, <2>3, ContinueProceeds DEF DeleteDeployment, ThreadMove
  <2>4. CASE At(t, k, "unexpose") /\ DeleteService(t, r, "mark", "done")
    BY <2>1, <2>4, ContinueProceeds DEF DeleteService, ThreadMove
  <2>5. CASE At(t, k, "mark") /\ UpdateBotStatus(t, r, "stopped", "done", "done")
    BY <2>5, ContinueProceeds DEF UpdateBotStatus, ThreadMove
  <2> QED BY <1>4, <2>2, <2>3, <2>4, <2>5 DEF Stop
<1>5. CASE DeleteBot(t, r)
  <2>1. Route("delete") = {"remove", "unexpose", "erase"}
    BY DEF Route, Stoppers, Deleters
  <2>2. CASE \E b \in Bots :
               Accept(t, "delete", b, IF status[b] = "running" THEN "remove" ELSE "erase")
    BY <2>1, <2>2, AcceptMove DEF Ops
  <2>3. CASE At(t, "delete", "remove") /\ DeleteDeployment(t, r, "unexpose", "done")
    BY <2>1, <2>3, ContinueProceeds DEF DeleteDeployment, ThreadMove
  <2>4. CASE At(t, "delete", "unexpose") /\ DeleteService(t, r, "erase", "done")
    BY <2>1, <2>4, ContinueProceeds DEF DeleteService, ThreadMove
  <2>5. CASE At(t, "delete", "erase") /\ RemoveRow(t, r, "done", "done")
    BY <2>5, ContinueProceeds DEF RemoveRow, ThreadMove
  <2> QED BY <1>5, <2>2, <2>3, <2>4, <2>5 DEF DeleteBot
<1>6. CASE AdminDeleteBot(t, r)
  <2>1. Route("adminDelete") = {"remove", "unexpose", "erase"}
    BY DEF Route, Stoppers, Deleters
  <2>2. CASE \E b \in Bots :
               Accept(t, "adminDelete", b, IF status[b] = "running" THEN "remove" ELSE "erase")
    BY <2>1, <2>2, AcceptMove DEF Ops
  <2>3. CASE At(t, "adminDelete", "remove") /\ DeleteDeployment(t, r, "unexpose", "unexpose")
    BY <2>1, <2>3, ContinueProceeds DEF DeleteDeployment, ThreadMove
  <2>4. CASE At(t, "adminDelete", "unexpose") /\ DeleteService(t, r, "erase", "erase")
    BY <2>1, <2>4, ContinueProceeds DEF DeleteService, ThreadMove
  <2>5. CASE At(t, "adminDelete", "erase") /\ RemoveRow(t, r, "done", "done")
    BY <2>5, ContinueProceeds DEF RemoveRow, ThreadMove
  <2> QED BY <1>6, <2>2, <2>3, <2>4, <2>5 DEF AdminDeleteBot
<1>7. CASE RestartBot(t, r)
  <2>1. CASE \E b \in Bots : status[b] = "running" /\ Accept(t, "restart", b, "roll")
    BY <2>1, AcceptMove DEF Route, Ops, Stoppers, Deleters
  <2>2. CASE Recreate(t, "restart", r)
    BY <2>2, RecreateControl DEF Restarters, ThreadMove
  <2> QED BY <1>7, <2>1, <2>2 DEF RestartBot
<1>8. CASE RestartAllBots(t, r)
  <2>1. CASE At(t, "restartAll", "exists") /\ DeploymentExists(t, r, "roll", "done")
    <3>1. "roll" \in Route("restartAll")
      BY DEF Route, Stoppers, Deleters
    <3> QED BY <2>1, <3>1, ProceedsBy DEF DeploymentExists, ThreadMove
  <2>2. CASE Recreate(t, "restartAll", r)
    BY <2>2, RecreateControl DEF Restarters, ThreadMove
  <2>3. CASE ~(At(t, "restartAll", "exists") /\ DeploymentExists(t, r, "roll", "done"))
               /\ ~Recreate(t, "restartAll", r)
    <3> DEFINE bots == {b \in Bots : status[b] = "running"}
    <3>1. BeginsAll(t, bots) /\ UNCHANGED jobs
      BY <1>8, <2>3 DEF RestartAllBots, BeginsAll
    <3>2. bots \in SUBSET Bots
      OBVIOUS
    <3> HIDE DEF bots
    <3> QED BY <3>1, <3>2 DEF ThreadMove
  <2> QED BY <2>1, <2>2, <2>3
<1>9. CASE GetBotStatus(t, r)
  <2>1. CASE \E b \in Bots : status[b] = "running" /\ Accept(t, "status", b, "probe")
    BY <2>1, AcceptMove DEF Route, Ops, Stoppers, Deleters
  <2>2. "lookup" \in Route("status") /\ "save" \in Route("status")
    BY DEF Route, Stoppers, Deleters
  <2>3. CASE /\ At(t, "status", "probe")
             /\ Goto(t, IF Answered(r) /\ "own" \notin pods[BotOf(t)] THEN "lookup" ELSE "done")
             /\ UNCHANGED <<row, lapsed, k8s, jobs>>
    BY <2>2, <2>3, ProceedsBy DEF ThreadMove
  <2>4. CASE At(t, "status", "lookup") /\ DeploymentExists(t, r, "done", "save")
    BY <2>2, <2>4, ProceedsBy DEF DeploymentExists, ThreadMove
  <2>5. CASE /\ At(t, "status", "save")
             /\ UpdateBot(t, r, [thr[t].row EXCEPT !.status = "stopped"], "done", "done")
    BY <2>5, ContinueProceeds DEF UpdateBot, ThreadMove
  <2> QED BY <1>9, <2>1, <2>3, <2>4, <2>5 DEF GetBotStatus
<1>10. CASE PutBot(t, r)
  <2>1. CASE \E b \in Bots : Accept(t, "update", b, "save")
    BY <2>1, AcceptMove DEF Route, Ops, Stoppers, Deleters
  <2>2. ASSUME At(t, "update", "save"), NEW n,
               UpdateBot(t, r, [thr[t].row EXCEPT !.term = n], "done", "done")
        PROVE  ThreadMove(t) /\ UNCHANGED jobs
    BY <2>2, ContinueProceeds DEF UpdateBot, ThreadMove
  <2> QED BY <1>10, <2>1, <2>2 DEF PutBot
<1> QED
  BY <1>1, <1>2, <1>3, <1>4, <1>5, <1>6, <1>7, <1>8, <1>9, <1>10
     DEF ThreadStep, StopBot, AdminStopBot, Stoppers

\* What MayBegin says of an orderly bot.
LEMMA MayBeginOrderly ==
    ASSUME NEW b \in Orderly, NEW k, MayBegin(k, b)
    PROVE  /\ ~Reconciling(b)
           /\ \A u \in Holders(b) : {thr[u].op, k} \subseteq Overlap[b]
           /\ Cleaning(b) => {k, "cleanup"} \subseteq Overlap[b]
           /\ k = "reconcile" => Holders(b) = {} /\ ~Cleaning(b)
BY OrderlyOverlap DEF MayBegin, Working

\* Fewer holders and no new work of the jobs cannot break the discipline.
LEMMA FewerDisciplined ==
    ASSUME TypeOK, NEW b \in Orderly, Disciplined(b), NoNewHolders,
           Reconciling(b)' => Reconciling(b), Cleaning(b)' => Cleaning(b)
    PROVE  Disciplined(b)'
<1>1. \A u \in Threads : u \in Holders(b)' => u \in Holders(b) /\ thr'[u].op = thr[u].op
  BY DEF NoNewHolders, Holders
<1>2. Holders(b) = {} => Holders(b)' = {}
  BY <1>1 DEF Holders
<1>3. \A u \in Holders(b)' : u \in Threads
  BY DEF Holders
<1> QED
  BY <1>1, <1>2, <1>3 DEF Disciplined

LEMMA IdleThread ==
    ASSUME ThreadShape, NEW t \in Threads, thr[t].pc = "idle"
    PROVE  thr[t] = Idle /\ thr[t].todo = {}
<1>1. thr[t] = Idle
  BY DEF ThreadShape
<1>2. Idle.todo = {}
  BY DEF Idle
<1> QED BY <1>1, <1>2

LEMMA BeginsKeeps ==
    ASSUME TypeOK, Sharing, NEW t \in Threads, NEW k \in Ops \ {"restartAll"},
           NEW b \in Bots, Begins(t, k, b), UNCHANGED <<rpc, cpc>>
    PROVE  Sharing'
<1>1. PICK l \in PC \ {"idle", "next"} : Enter(t, k, b, l) /\ l \in Route(k)
  BY DEF Begins
<1>2. thr[t] = Idle /\ thr[t].todo = {}
  BY <1>1, IdleThread DEF Enter, Sharing
<1>3. \A u \in Threads : u # t => thr'[u] = thr[u]
  BY <1>1 DEF Enter, TypeOK
<1>4. /\ thr'[t].op = k /\ thr'[t].pc = l /\ thr'[t].bot = b /\ thr'[t].todo = {b}
  BY <1>1 DEF Enter, TypeOK
<1>5. ThreadShape'
  BY <1>1, <1>3, <1>4 DEF Sharing, ThreadShape
<1>6. ASSUME NEW c \in Orderly PROVE Disciplined(c)'
  <2>0. Disciplined(c) /\ c \in Bots
    BY OrderlyOverlap DEF Sharing
  <2>1. (Reconciling(c)' <=> Reconciling(c)) /\ (Cleaning(c)' <=> Cleaning(c))
    BY DEF Reconciling, Cleaning
  <2>2. CASE c # b
    <3>1. \A u \in Threads : u \in Holders(c)' => u \in Holders(c) /\ thr'[u].op = thr[u].op
      BY <1>3, <1>4, <2>2 DEF Holders
    <3>2. (Holders(c) = {} => Holders(c)' = {}) /\ \A u \in Holders(c)' : u \in Threads
      BY <3>1 DEF Holders
    <3> QED BY <2>0, <2>1, <3>1, <3>2 DEF Disciplined
  <2>3. CASE c = b
    <3>1. MayBegin(k, c)
      BY <1>1, <2>3 DEF Enter
    <3>2. /\ ~Reconciling(c)
          /\ \A u \in Holders(c) : {thr[u].op, k} \subseteq Overlap[c]
          /\ Cleaning(c) => {k, "cleanup"} \subseteq Overlap[c]
      BY <3>1, MayBeginOrderly
    <3>3. \A u \in Holders(c)' : \/ u = t /\ thr'[u].op = k
                                 \/ u # t /\ u \in Holders(c) /\ thr'[u].op = thr[u].op
      BY <1>3, <1>4 DEF Holders
    <3> QED BY <2>0, <2>1, <3>2, <3>3 DEF Disciplined
  <2> QED BY <2>2, <2>3
<1> QED BY <1>5, <1>6 DEF Sharing

LEMMA BeginsAllKeeps ==
    ASSUME TypeOK, Sharing, NEW t \in Threads, NEW bots \in SUBSET Bots,
           BeginsAll(t, bots), UNCHANGED <<rpc, cpc>>
    PROVE  Sharing'
<1>2. thr[t] = Idle /\ thr[t].todo = {}
  BY IdleThread DEF BeginsAll, Sharing
<1>3. \A u \in Threads : u # t => thr'[u] = thr[u]
  BY DEF BeginsAll, TypeOK
<1>4. /\ thr'[t].op = "restartAll" /\ thr'[t].pc = "next" /\ thr'[t].bot = NoBot
      /\ thr'[t].todo = bots
  BY DEF BeginsAll, TypeOK
<1>5. ThreadShape'
  BY <1>3, <1>4 DEF Sharing, ThreadShape
<1>6. ASSUME NEW c \in Orderly PROVE Disciplined(c)'
  <2>0. Disciplined(c) /\ c \in Bots
    BY OrderlyOverlap DEF Sharing
  <2>1. (Reconciling(c)' <=> Reconciling(c)) /\ (Cleaning(c)' <=> Cleaning(c))
    BY DEF Reconciling, Cleaning
  <2>2. CASE c \notin bots
    <3>1. \A u \in Threads : u \in Holders(c)' => u \in Holders(c) /\ thr'[u].op = thr[u].op
      BY <1>3, <1>4, <2>2 DEF Holders
    <3>2. (Holders(c) = {} => Holders(c)' = {}) /\ \A u \in Holders(c)' : u \in Threads
      BY <3>1 DEF Holders
    <3> QED BY <2>0, <2>1, <3>1, <3>2 DEF Disciplined
  <2>3. CASE c \in bots
    <3>1. MayBegin("restartAll", c)
      BY <2>3 DEF BeginsAll
    <3>2. /\ ~Reconciling(c)
          /\ \A u \in Holders(c) : {thr[u].op, "restartAll"} \subseteq Overlap[c]
          /\ Cleaning(c) => {"restartAll", "cleanup"} \subseteq Overlap[c]
      BY <3>1, MayBeginOrderly
    <3>3. \A u \in Holders(c)' : \/ u = t /\ thr'[u].op = "restartAll"
                                 \/ u # t /\ u \in Holders(c) /\ thr'[u].op = thr[u].op
      BY <1>3, <1>4 DEF Holders
    <3> QED BY <2>0, <2>1, <3>2, <3>3 DEF Disciplined, Ops
  <2> QED BY <2>2, <2>3
<1> QED BY <1>5, <1>6 DEF Sharing

LEMMA RestartNextKeeps ==
    ASSUME TypeOK, ThreadShape, NEW t \in Threads, RestartNext(t)
    PROVE  ThreadShape' /\ NoNewHolders
<1>1. PICK b \in thr[t].todo :
         thr' = [thr EXCEPT ![t] = [@ EXCEPT !.pc = "exists", !.bot = b]]
  BY DEF RestartNext
<1>2. \A u \in Threads : u # t => thr'[u] = thr[u]
  BY <1>1 DEF TypeOK
<1>3. /\ thr'[t].op = "restartAll" /\ thr'[t].pc = "exists" /\ thr'[t].bot = b
      /\ thr'[t].todo = thr[t].todo
  <2>1. thr'[t] = [thr[t] EXCEPT !.pc = "exists", !.bot = b] /\ thr[t] \in Thread
    BY <1>1 DEF TypeOK
  <2> QED BY <2>1 DEF Thread, RestartNext, At
<1>4. "exists" \in Route("restartAll")
  BY DEF Route, Stoppers, Deleters
<1>5. thr'[t].op = thr[t].op
  BY <1>3 DEF RestartNext, At
<1>6. ThreadShape'
  BY <1>2, <1>3, <1>4 DEF ThreadShape
<1>7. NoNewHolders
  BY <1>2, <1>3, <1>5 DEF NoNewHolders
<1> QED BY <1>6, <1>7

\* Whatever works on an orderly bot at the same time may overlap there.
LEMMA SharingStep ==
    ASSUME TypeOK, Sharing, [Next]_vars
    PROVE  Sharing'
<1> SUFFICES ASSUME TypeOK, Sharing, [Next]_vars PROVE Sharing'
  OBVIOUS
<1>0. ASSUME ThreadShape', NoNewHolders,
             \A b \in Orderly : (Reconciling(b)' => Reconciling(b)) /\ (Cleaning(b)' => Cleaning(b))
      PROVE  Sharing'
  BY <1>0, FewerDisciplined DEF Sharing
<1>s. ASSUME UNCHANGED thr PROVE ThreadShape' /\ NoNewHolders
  BY <1>s DEF Sharing, ThreadShape, NoNewHolders
<1>j. ASSUME UNCHANGED <<rpc, cpc>>, NEW b
      PROVE  (Reconciling(b)' => Reconciling(b)) /\ (Cleaning(b)' => Cleaning(b))
  BY <1>j DEF Reconciling, Cleaning
<1>1. ASSUME NEW t \in Threads, NEW r \in Possible(t), ThreadStep(t, r)
      PROVE  Sharing'
  <2>1. ThreadMove(t) /\ UNCHANGED <<rpc, cpc>>
    BY <1>1, ThreadStepMove DEF jobs
  <2>2. CASE Proceeds(t)
    BY <2>1, <2>2, <1>0, <1>j, ProceedsKeeps DEF Sharing
  <2>3. CASE \E k \in Ops \ {"restartAll"}, b \in Bots : Begins(t, k, b)
    BY <2>1, <2>3, BeginsKeeps
  <2>4. CASE \E bots \in SUBSET Bots : BeginsAll(t, bots)
    BY <2>1, <2>4, BeginsAllKeeps
  <2>5. CASE UNCHANGED thr
    BY <2>1, <2>5, <1>0, <1>s, <1>j
  <2> QED BY <2>1, <2>2, <2>3, <2>4, <2>5 DEF ThreadMove
<1>2. ASSUME NEW t \in Threads, RestartNext(t)
      PROVE  Sharing'
  BY <1>2, <1>0, <1>j, RestartNextKeeps DEF Sharing, RestartNext, jobs
<1>3. ASSUME NEW b \in Bots, NEW r, CreateBot(b, r)
      PROVE  Sharing'
  BY <1>3, <1>0, <1>s, <1>j DEF CreateBot, jobs
<1>4. ASSUME NEW b \in Bots, NEW r, CleanStep(b, r)
      PROVE  Sharing'
  <2>1. UNCHANGED <<thr, rpc>> /\ cpc[b] # "none"
    BY <1>4 DEF CleanStep, CleanDeleteDeployment, CleanDeleteService, CleanMark
  <2>2. \E l \in CleanPC : cpc' = [cpc EXCEPT ![b] = l]
    BY <1>4 DEF CleanStep, CleanDeleteDeployment, CleanDeleteService, CleanMark, CleanPC
  <2>3. \A c \in Orderly : (Reconciling(c)' => Reconciling(c)) /\ (Cleaning(c)' => Cleaning(c))
    BY <2>1, <2>2, OrderlyOverlap DEF Reconciling, Cleaning, TypeOK
  <2> QED BY <2>1, <2>3, <1>0, <1>s
<1>5. ASSUME NEW b \in Bots, NEW s \in Listed, NEW r, RecStep(b, s, r)
      PROVE  Sharing'
  <2>1. UNCHANGED <<thr, cpc>>
    BY <1>5 DEF RecStep
  <2>2. rpc[b][s] # "none"
    BY <1>5 DEF RecStep, InspectActive, InspectInactive, RecWriteRow,
                RecDeleteDeployment, RecDeleteService
  <2>3. \E l : rpc' = [rpc EXCEPT ![b][s] = l]
    BY <1>5 DEF RecStep, InspectActive, InspectInactive, RecWriteRow,
                RecDeleteDeployment, RecDeleteService, RecGoto
  <2>4. \A c \in Bots : c # b => rpc'[c] = rpc[c]
    BY <2>3 DEF TypeOK
  <2>5. \A c \in Orderly : (Reconciling(c)' => Reconciling(c)) /\ (Cleaning(c)' => Cleaning(c))
    BY <2>1, <2>2, <2>4, OrderlyOverlap DEF Reconciling, Cleaning
  <2> QED BY <2>1, <2>5, <1>0, <1>s
<1>6. CASE ReadList
  <2>1. UNCHANGED <<thr, cpc>>
    BY <1>6 DEF ReadList
  <2>2. ASSUME NEW c \in Orderly PROVE Disciplined(c)'
    <3>0. c \in Bots /\ Disciplined(c)
      BY OrderlyOverlap DEF Sharing
    <3>1. CASE MayBegin("reconcile", c)
      <4>1. Holders(c) = {} /\ ~Cleaning(c)
        BY <3>1, MayBeginOrderly
      <4>2. Holders(c)' = {} /\ ~Cleaning(c)'
        BY <4>1, <2>1 DEF Holders, Cleaning
      <4> QED BY <4>2 DEF Disciplined
    <3>2. CASE ~MayBegin("reconcile", c)
      <4> DEFINE l == List[rq + 1]
      <4> DEFINE hits == {b \in Bots : status[b] = l}
      <4>1. c \notin hits
        BY <1>6, <3>0, <3>2 DEF ReadList
      <4>2. rpc' = [b \in Bots |-> IF b \in hits THEN [rpc[b] EXCEPT ![l] = "listed"]
                                                 ELSE rpc[b]]
        BY <1>6 DEF ReadList
      <4> HIDE DEF hits, l
      <4>3. rpc'[c] = rpc[c]
        BY <3>0, <4>1, <4>2
      <4> QED BY <2>1, <3>0, <4>3, <1>s, FewerDisciplined DEF Reconciling, Cleaning
    <3> QED BY <3>1, <3>2
  <2> QED BY <2>1, <2>2, <1>s DEF Sharing
<1>7. CASE ReadListFails \/ RecDone
  BY <1>7, <1>0, <1>s, <1>j DEF ReadListFails, RecDone
<1>8. CASE RecKilled
  <2>1. UNCHANGED <<thr, cpc>> /\ rpc' = NoRecWork
    BY <1>8 DEF RecKilled
  <2>2. \A c \in Orderly : ~Reconciling(c)' /\ (Cleaning(c)' => Cleaning(c))
    BY <2>1, OrderlyOverlap DEF NoRecWork, Reconciling, Cleaning
  <2> QED BY <2>1, <2>2, <1>0, <1>s
<1>9. CASE CleanupStart
  <2>1. UNCHANGED <<thr, rpc>>
    BY <1>9 DEF CleanupStart
  <2>2. ASSUME NEW c \in Orderly PROVE Disciplined(c)'
    <3>0. c \in Bots /\ Disciplined(c)
      BY OrderlyOverlap DEF Sharing
    <3>1. CASE MayBegin("cleanup", c)
      <4>1. /\ ~Reconciling(c)
            /\ \A u \in Holders(c) : {thr[u].op, "cleanup"} \subseteq Overlap[c]
        BY <3>1, MayBeginOrderly
      <4>2. Holders(c)' = Holders(c) /\ ~Reconciling(c)'
        BY <4>1, <2>1 DEF Holders, Reconciling
      <4> QED BY <2>1, <3>0, <4>1, <4>2 DEF Disciplined
    <3>2. CASE ~MayBegin("cleanup", c)
      <4>1. ~Cleaning(c)'
        BY <1>9, <3>0, <3>2 DEF CleanupStart, Cleaning
      <4> QED BY <2>1, <3>0, <4>1, <1>s, FewerDisciplined DEF Reconciling
    <3> QED BY <3>1, <3>2
  <2> QED BY <2>1, <2>2, <1>s DEF Sharing
<1>10. CASE CleanKilled
  <2>1. UNCHANGED <<thr, rpc>> /\ \A c \in Orderly : ~Cleaning(c)'
    BY <1>10, OrderlyOverlap DEF CleanKilled, Cleaning
  <2> QED BY <2>1, <1>0, <1>s DEF Reconciling
<1>11. CASE \E b \in Bots : PodChange(b) \/ TermEnds(b) \/ StartingTimeout(b)
  BY <1>11, <1>0, <1>s, <1>j DEF PodChange, TermEnds, StartingTimeout, jobs
<1>12. CASE ServerCrash
  <2>1. \A u \in Threads : thr'[u] = Idle
    BY <1>12 DEF ServerCrash
  <2>2. ThreadShape' /\ NoNewHolders
    BY <2>1 DEF ThreadShape, NoNewHolders, Idle
  <2> QED BY <1>12, <2>2, <1>0, <1>j DEF ServerCrash, jobs
<1>13. CASE UNCHANGED vars
  BY <1>13, <1>0, <1>s, <1>j DEF vars
<1> QED
  BY <1>1, <1>2, <1>3, <1>4, <1>5, <1>6, <1>7, <1>8, <1>9, <1>10, <1>11, <1>12, <1>13
     DEF Next

(***************************************************************************)
(* Consistency: row, cluster and the operations under way on an orderly bot *)
(***************************************************************************)
\* Nothing about bot b changes but, perhaps, which other bot a thread is at.
SameData(b) ==
    /\ status'[b] = status[b] /\ term'[b] = term[b] /\ lapsed'[b] = lapsed[b]
    /\ dep'[b] = dep[b] /\ svc'[b] = svc[b]
    /\ rpc'[b] = rpc[b] /\ cpc'[b] = cpc[b]

SameThreads(b) ==
    \A u \in Threads :
        /\ b \in thr'[u].todo <=> b \in thr[u].todo
        /\ b \in thr[u].todo => thr'[u].op = thr[u].op
        /\ thr'[u].bot = b <=> thr[u].bot = b
        /\ thr[u].bot = b => thr'[u] = thr[u]

LEMMA UntouchedKeeps ==
    ASSUME NEW b, Consistent(b), SameData(b), SameThreads(b)
    PROVE  Consistent(b)'
<1> USE DEF SameData, SameThreads, On
<1>1. /\ Reviving(b)' <=> Reviving(b)
      /\ Launching(b)' <=> Launching(b)
      /\ Awaited(b)' <=> Awaited(b)
      /\ TearingDown(b)' <=> TearingDown(b)
      /\ Present(b)' <=> Present(b)
  BY DEF Reviving, Launching, Awaited, TearingDown, Present
<1>2. LaunchOK(b)'
  BY <1>1 DEF Consistent, LaunchOK
<1>3. RestartOK(b)'
  BY <1>1 DEF Consistent, RestartOK, Holders
<1>4. StopOK(b)'
  BY <1>1 DEF Consistent, StopOK, Bare
<1>5. SaveOK(b)'
  BY <1>1 DEF Consistent, SaveOK
<1>6. ReconcileOK(b)'
  BY <1>1 DEF Consistent, ReconcileOK
<1>7. CleanupOK(b)'
  BY <1>1 DEF Consistent, CleanupOK, Expired
<1>8. StatusOK(b)'
  BY <1>1 DEF Consistent, StatusOK, Bare
<1> QED BY <1>2, <1>3, <1>4, <1>5, <1>6, <1>7, <1>8 DEF Consistent

\* Thread t, at a call on b, goes on at label l or leaves b.
MovesTo(t, b, l) ==
    /\ \A u \in Threads : u # t => thr'[u] = thr[u]
    /\ l # "done" => /\ thr'[t].op = thr[t].op /\ thr'[t].pc = l
                     /\ thr'[t].bot = b /\ thr'[t].todo = thr[t].todo
                     /\ thr'[t].row = thr[t].row
    /\ l = "done" => /\ thr'[t].bot # b /\ thr'[t].todo = thr[t].todo \ {b}
                     /\ thr'[t].todo # {} => thr'[t].op = thr[t].op

LEMMA GotoEffect ==
    ASSUME TypeOK, ThreadShape, NEW t \in Threads, thr[t].pc \notin {"idle", "next"},
           NEW l \in Label, Goto(t, l)
    PROVE  /\ BotOf(t) \in Bots /\ BotOf(t) \in thr[t].todo
           /\ MovesTo(t, BotOf(t), l)
           /\ \A b \in Bots : b # BotOf(t) => SameThreads(b)
<1>1. /\ BotOf(t) \in thr[t].todo /\ thr[t] \in Thread
  BY DEF ThreadShape, Idle, BotOf, TypeOK
<1>2. BotOf(t) \in Bots
  BY <1>1 DEF Thread
<1>3. \A u \in Threads : u # t => thr'[u] = thr[u]
  BY DEF Goto, TypeOK
<1>4. CASE l # "done"
  <2>1. thr'[t] = [thr[t] EXCEPT !.pc = l]
    BY <1>4 DEF Goto, TypeOK
  <2>2. /\ thr'[t].op = thr[t].op /\ thr'[t].pc = l /\ thr'[t].bot = thr[t].bot
        /\ thr'[t].todo = thr[t].todo /\ thr'[t].row = thr[t].row
    BY <1>1, <2>1 DEF Thread
  <2>3. MovesTo(t, BotOf(t), l)
    BY <1>3, <1>4, <2>2 DEF MovesTo, BotOf
  <2>4. \A b \in Bots : b # BotOf(t) => SameThreads(b)
    BY <1>3, <2>2 DEF SameThreads, BotOf
  <2> QED BY <1>1, <1>2, <2>3, <2>4
<1>5. CASE l = "done"
  <2>1. thr'[t] = Leave(thr[t])
    BY <1>5 DEF Goto, TypeOK
  <2>2. /\ thr'[t].bot = NoBot /\ thr'[t].todo = thr[t].todo \ {BotOf(t)}
        /\ thr'[t].todo # {} => thr'[t].op = thr[t].op
    <3>1. CASE thr[t].todo \ {thr[t].bot} = {}
      <4>1. thr'[t] = Idle
        BY <2>1, <3>1 DEF Leave
      <4>2. Idle.bot = NoBot /\ Idle.todo = {}
        BY DEF Idle
      <4> QED BY <3>1, <4>1, <4>2 DEF BotOf
    <3>2. CASE thr[t].todo \ {thr[t].bot} # {}
      BY <1>1, <2>1, <3>2 DEF Leave, Thread, BotOf
    <3> QED BY <3>1, <3>2
  <2>3. NoBot \notin Bots
    BY ConstantsOK
  <2>4. MovesTo(t, BotOf(t), l)
    BY <1>2, <1>3, <1>5, <2>2, <2>3 DEF MovesTo
  <2>5. \A b \in Bots : b # BotOf(t) => SameThreads(b)
    BY <1>1, <1>3, <2>2, <2>3 DEF SameThreads, BotOf
  <2> QED BY <1>1, <1>2, <2>4, <2>5
<1> QED BY <1>4, <1>5

\* What the holders of an orderly bot can be doing.
LEMMA HolderOps ==
    ASSUME Sharing, NEW b \in Orderly
    PROVE  /\ \A u \in Holders(b) :
                thr[u].op \in Launchers \cup Restarters \cup Stoppers \cup Deleters \cup Savers
           /\ \A u \in Threads : thr[u].bot = b =>
                /\ u \in Holders(b)
                /\ thr[u].pc \in Route(thr[u].op)
<1>0. b \in Bots /\ NoBot \notin Bots
  BY OrderlyOverlap, ConstantsOK
<1>1. ASSUME NEW u \in Threads, thr[u].bot = b
      PROVE  u \in Holders(b) /\ thr[u].pc \in Route(thr[u].op)
  BY <1>0, <1>1 DEF Sharing, ThreadShape, Idle, Holders
<1>2. ASSUME NEW u \in Holders(b)
      PROVE  thr[u].op \in Launchers \cup Restarters \cup Stoppers \cup Deleters \cup Savers
  <2>1. CASE thr[u].op = "restartAll"
    BY <2>1 DEF Restarters
  <2>2. CASE thr[u].op # "restartAll"
    <3>1. thr[u] # Idle
      BY DEF Idle, Holders
    <3>2. thr[u].bot = b
      BY <1>2, <2>2, <3>1 DEF Sharing, ThreadShape, Holders
    <3>3. thr[u].pc \in Route(thr[u].op) /\ thr[u].op \in Ops
      BY <1>1, <1>2, <3>2 DEF Sharing, Disciplined, Holders
    <3> QED
      BY <2>2, <3>3 DEF Route, Ops, Launchers, Restarters, Stoppers, Deleters, Savers
  <2> QED BY <2>1, <2>2
<1> QED BY <1>1, <1>2

\* Who shares an orderly bot with an operation under way there.
LEMMA Company ==
    ASSUME Sharing, NEW b \in Orderly, NEW t \in Holders(b)
    PROVE  /\ ~Reconciling(b)
           /\ thr[t].op \in Launchers \cup Restarters =>
                /\ ~Cleaning(b)
                /\ \A u \in Holders(b) : thr[u].op \in Launchers \cup Restarters
           /\ thr[t].op \in Stoppers \cup Deleters =>
                \A u \in Holders(b) : thr[u].op \in Stoppers \cup Deleters
           /\ thr[t].op \in Savers =>
                /\ ~Cleaning(b)
                /\ \A u \in Holders(b) : u = t
<1> USE DEF Launchers, Restarters, Stoppers, Deleters, Savers, UpOps, DownOps
<1>1. Disciplined(b)
  BY DEF Sharing
<1>2. /\ "update" \notin Overlap[b] /\ "status" \notin Overlap[b]
      /\ \A k \in UpOps, j \in DownOps : ~({j, k} \subseteq Overlap[b])
  BY OrderlyOverlap
<1>3. \A u \in Holders(b) : u # t => {thr[t].op, thr[u].op} \subseteq Overlap[b]
  BY <1>1 DEF Disciplined
<1>4. Cleaning(b) => {thr[t].op, "cleanup"} \subseteq Overlap[b]
  BY <1>1 DEF Disciplined
<1>5. \A u \in Holders(b) :
        thr[u].op \in Launchers \cup Restarters \cup Stoppers \cup Deleters \cup Savers
  BY HolderOps
<1>6. ~Reconciling(b)
  BY <1>1 DEF Disciplined
<1>7. CASE thr[t].op \in Launchers \cup Restarters
  <2>1. ~Cleaning(b)
    BY <1>2, <1>4, <1>7
  <2>2. \A u \in Holders(b) : thr[u].op \in Launchers \cup Restarters
    BY <1>2, <1>3, <1>5, <1>7
  <2> QED BY <1>6, <1>7, <2>1, <2>2
<1>8. CASE thr[t].op \in Stoppers \cup Deleters
  <2>1. \A u \in Holders(b) : thr[u].op \in Stoppers \cup Deleters
    BY <1>2, <1>3, <1>5, <1>8
  <2> QED BY <1>6, <1>8, <2>1
<1>9. CASE thr[t].op \in Savers
  BY <1>2, <1>3, <1>4, <1>6, <1>9
<1> QED BY <1>5, <1>7, <1>8, <1>9

\* A call on b that takes thread t from one label to another.
Call(t, b, from, l) ==
    /\ thr[t].bot = b /\ thr[t].pc = from
    /\ MovesTo(t, b, l)
    /\ lapsed'[b] = lapsed[b] /\ rpc'[b] = rpc[b] /\ cpc'[b] = cpc[b]

SameDep(b)    == dep'[b] = dep[b]
SameSvc(b)    == svc'[b] = svc[b]
SameStatus(b) == status'[b] = status[b]

\* The calls on b of a start, none of which fails.
LaunchCall(t, b) ==
    /\ thr[t].op \in Launchers
    /\ \/ Call(t, b, "create", "replace") /\ dep[b] /\ SameDep(b) /\ SameSvc(b) /\ SameStatus(b)
       \/ Call(t, b, "create", "expose") /\ dep'[b] /\ SameSvc(b) /\ SameStatus(b)
       \/ Call(t, b, "replace", "expose") /\ SameDep(b) /\ SameSvc(b) /\ SameStatus(b)
       \/ Call(t, b, "expose", "mark") /\ SameDep(b) /\ svc'[b] /\ SameStatus(b)
       \/ Call(t, b, "mark", "done") /\ SameDep(b) /\ SameSvc(b) /\ status'[b] = "running"
       \/ Call(t, b, "mark", "await") /\ SameDep(b) /\ SameSvc(b) /\ status'[b] = "starting"
       \/ Call(t, b, "await", "arrived") /\ SameDep(b) /\ SameSvc(b) /\ SameStatus(b)
       \/ Call(t, b, "await", "giveup") /\ SameDep(b) /\ SameSvc(b) /\ SameStatus(b)
       \/ Call(t, b, "arrived", "done") /\ SameDep(b) /\ SameSvc(b) /\ status'[b] = "running"
       \/ Call(t, b, "giveup", "done") /\ SameDep(b) /\ SameSvc(b) /\ status'[b] = "error"

\* The calls on b of a restart, none of which fails.
ReviveCall(t, b) ==
    /\ thr[t].op \in Restarters
    /\ \/ Call(t, b, "exists", "roll") /\ SameDep(b) /\ SameSvc(b) /\ SameStatus(b)
       \/ Call(t, b, "roll", "hide") /\ SameDep(b) /\ SameSvc(b) /\ SameStatus(b)
       \/ Call(t, b, "hide", "expose") /\ SameDep(b) /\ ~svc'[b] /\ SameStatus(b)
       \/ Call(t, b, "expose", "mark") /\ SameDep(b) /\ svc'[b] /\ SameStatus(b)
       \/ Call(t, b, "mark", "done") /\ SameDep(b) /\ SameSvc(b) /\ status'[b] = "running"

UpCall(t, b) == (LaunchCall(t, b) \/ ReviveCall(t, b)) /\ term'[b] = term[b]

\* Only operations that build b up, and no job, are at work on b.
BuildingUp(b) ==
    /\ ~Reconciling(b) /\ ~Cleaning(b)
    /\ \A u \in Threads :
         /\ thr[u].bot = b => b \in thr[u].todo
         /\ b \in thr[u].todo => thr[u].op \in Launchers \cup Restarters

\* What every call of an operation that builds b up amounts to.
LEMMA UpEffect ==
    ASSUME TypeOK, NEW b \in Bots, BuildingUp(b), Consistent(b),
           NEW t \in Threads, UpCall(t, b)
    PROVE  /\ \A u \in Threads : u # t => thr'[u] = thr[u]
           /\ dep[b] => dep'[b]
           /\ svc[b] \/ Reviving(b) => svc'[b] \/ Reviving(b)'
           /\ status'[b] \in {status[b], "running", "starting", "error"}
           /\ status'[b] = "running" =>
                status[b] = "running" \/ (dep[b] /\ (svc[b] \/ Reviving(b)))
           /\ status'[b] = "starting" => Awaited(b)'
           /\ status'[b] \in {"none", "created", "stopped", "deleted"} =>
                /\ status'[b] = status[b]
                /\ Launching(b) => Launching(b)'
                /\ dep[b] \/ Launching(b)'
           /\ thr'[t].bot = b /\ thr'[t].op \in Launchers =>
                /\ thr'[t].pc # "create" => dep'[b]
                /\ thr'[t].pc \in {"mark", "await", "arrived", "giveup"} =>
                     svc'[b] \/ Reviving(b)'
                /\ thr'[t].pc \in {"await", "arrived", "giveup"} =>
                     status'[b] \in {"running", "starting", "error"}
           /\ thr'[t].bot = b /\ thr'[t].op \in Restarters /\ thr'[t].pc = "mark" =>
                svc'[b] \/ Reviving(b)'
<1> USE DEF UpCall, LaunchCall, ReviveCall, Call, MovesTo, SameDep, SameSvc, SameStatus, On
<1>1. \A u \in Threads : u # t => thr'[u] = thr[u]
  OBVIOUS
<1>2. thr[t].op \in Launchers =>
        /\ Present(b) /\ thr[t].op \notin Restarters
        /\ thr[t].pc # "create" => dep[b]
        /\ thr[t].pc \in {"mark", "await", "arrived", "giveup"} => svc[b] \/ Reviving(b)
        /\ thr[t].pc \in {"await", "arrived", "giveup"} =>
             status[b] \in {"running", "starting", "error"}
  BY DEF Consistent, LaunchOK, Launchers, Restarters
<1>3. thr[t].op \in Restarters =>
        /\ dep[b] /\ thr[t].op \notin Launchers
        /\ thr[t].pc = "mark" => svc[b] \/ Reviving(b)
  <2>1. t \in Holders(b)
    BY DEF BuildingUp, Holders
  <2> QED BY <2>1 DEF Consistent, RestartOK, Launchers, Restarters
<1>4. dep[b] => dep'[b]
  OBVIOUS
<1>5. svc[b] \/ Reviving(b) => svc'[b] \/ Reviving(b)'
  BY <1>1, <1>2, <1>3 DEF Reviving
<1>6. status'[b] \in {status[b], "running", "starting", "error"}
  OBVIOUS
<1>7. status'[b] = "running" =>
        status[b] = "running" \/ (dep[b] /\ (svc[b] \/ Reviving(b)))
  BY <1>2, <1>3
<1>8. status'[b] = "starting" => Awaited(b)'
  BY <1>1 DEF Awaited, Consistent, StatusOK
<1>9. ASSUME status'[b] \in {"none", "created", "stopped", "deleted"}
      PROVE  /\ status'[b] = status[b]
             /\ Launching(b) => Launching(b)'
             /\ dep[b] \/ Launching(b)'
  <2>1. status'[b] = status[b]
    BY <1>9
  <2>2. thr[t].op \in Launchers /\ thr[t].op \notin Restarters
    <3>1. t \notin Holders(b) \/ thr[t].op \notin Restarters
      BY <1>9, <2>1 DEF Consistent, RestartOK
    <3> QED BY <3>1 DEF BuildingUp, Holders
  <2>3. Launching(b) => Launching(b)'
    BY <1>1, <1>9, <2>2 DEF Launching
  <2>4. dep[b] \/ Launching(b)'
    BY <1>1, <1>2, <1>9, <2>2 DEF Launching
  <2> QED BY <2>1, <2>3, <2>4
<1>10. thr'[t].bot = b /\ thr'[t].op \in Launchers =>
         /\ thr'[t].pc # "create" => dep'[b]
         /\ thr'[t].pc \in {"mark", "await", "arrived", "giveup"} => svc'[b] \/ Reviving(b)'
         /\ thr'[t].pc \in {"await", "arrived", "giveup"} =>
              status'[b] \in {"running", "starting", "error"}
  BY <1>1, <1>2, <1>5 DEF Launchers, Restarters
<1>11. thr'[t].bot = b /\ thr'[t].op \in Restarters /\ thr'[t].pc = "mark" =>
         svc'[b] \/ Reviving(b)'
  BY <1>1, <1>3, <1>5 DEF Launchers, Restarters
<1> QED
  BY <1>1, <1>4, <1>5, <1>6, <1>7, <1>8, <1>9, <1>10, <1>11

LEMMA UpKeeps ==
    ASSUME TypeOK, NEW b \in Bots, BuildingUp(b), Consistent(b),
           NEW t \in Threads, UpCall(t, b)
    PROVE  Consistent(b)'
<1>1. /\ \A u \in Threads : u # t => thr'[u] = thr[u]
      /\ thr[t].bot = b /\ b \in thr[t].todo
      /\ thr'[t].todo \subseteq thr[t].todo
      /\ thr'[t].todo # {} => thr'[t].op = thr[t].op
      /\ thr'[t].bot = b => b \in thr'[t].todo
      /\ rpc'[b] = rpc[b] /\ cpc'[b] = cpc[b]
  BY DEF UpCall, LaunchCall, ReviveCall, Call, MovesTo, BuildingUp
<1>2. BuildingUp(b)'
  BY <1>1 DEF BuildingUp, Reconciling, Cleaning
<1>3. \A u \in Threads :
        thr'[u].bot = b \/ b \in thr'[u].todo =>
          /\ thr'[u].op \notin Stoppers \cup Deleters \cup Savers
          /\ thr'[u].op \in Launchers \/ thr'[u].op \in Restarters
  BY <1>2 DEF BuildingUp, Launchers, Restarters, Stoppers, Deleters, Savers
<1>4. cpc'[b] = "none" /\ \A s \in Listed : rpc'[b][s] = "none"
  BY <1>2 DEF BuildingUp, Reconciling, Cleaning
<1>5. ~TearingDown(b)
  BY <1>1, <1>4 DEF TearingDown, BuildingUp, On, Listed, Launchers, Restarters,
                     Stoppers, Deleters
<1>6. /\ dep[b] => dep'[b]
      /\ svc[b] \/ Reviving(b) => svc'[b] \/ Reviving(b)'
      /\ status'[b] \in {status[b], "running", "starting", "error"}
  BY UpEffect
<1>7. LaunchOK(b)'
  <2> SUFFICES ASSUME NEW u \in Threads, thr'[u].bot = b, thr'[u].op \in Launchers
               PROVE  /\ Present(b)'
                      /\ thr'[u].pc # "create" => dep'[b]
                      /\ thr'[u].pc \in {"mark", "await", "arrived", "giveup"} =>
                           svc'[b] \/ Reviving(b)'
                      /\ thr'[u].pc \in {"await", "arrived", "giveup"} =>
                           status'[b] \in {"running", "starting", "error"}
    BY DEF LaunchOK, On
  <2>1. CASE u # t
    <3>1. /\ Present(b)
          /\ thr[u].pc # "create" => dep[b]
          /\ thr[u].pc \in {"mark", "await", "arrived", "giveup"} => svc[b] \/ Reviving(b)
          /\ thr[u].pc \in {"await", "arrived", "giveup"} =>
               status[b] \in {"running", "starting", "error"}
      BY <1>1, <2>1 DEF Consistent, LaunchOK, On
    <3> QED BY <1>1, <1>6, <2>1, <3>1 DEF Present, BotStatus
  <2>2. CASE u = t
    <3>1. thr[t].op \in Launchers
      BY <1>1, <2>2
    <3>2. Present(b)
      BY <1>1, <3>1 DEF Consistent, LaunchOK, On
    <3> QED BY <1>6, <2>2, <3>2, UpEffect DEF Present, BotStatus
  <2> QED BY <2>1, <2>2
<1>8. RestartOK(b)'
  <2> SUFFICES ASSUME NEW u \in Threads, b \in thr'[u].todo, thr'[u].op \in Restarters
               PROVE  /\ dep'[b] /\ status'[b] \in {"running", "starting", "error"}
                      /\ thr'[u].bot = b /\ thr'[u].pc = "mark" =>
                           svc'[b] \/ Reviving(b)'
    BY DEF RestartOK, On, Holders
  <2>1. u \in Holders(b) /\ thr[u].op \in Restarters
    BY <1>1 DEF Holders
  <2>2. /\ dep[b] /\ status[b] \in {"running", "starting", "error"}
        /\ thr[u].bot = b /\ thr[u].pc = "mark" => svc[b] \/ Reviving(b)
    BY <2>1 DEF Consistent, RestartOK, On
  <2>3. CASE u # t
    BY <1>1, <1>6, <2>2, <2>3
  <2>4. CASE u = t
    BY <1>6, <2>2, <2>4, UpEffect
  <2> QED BY <2>3, <2>4
<1>9. StopOK(b)'
  BY <1>3 DEF StopOK, On
<1>10. SaveOK(b)'
  BY <1>3 DEF SaveOK, On
<1>11. ReconcileOK(b)' /\ CleanupOK(b)'
  BY <1>4 DEF ReconcileOK, CleanupOK
<1>12. StatusOK(b)'
  <2>1. ASSUME status'[b] = "running" PROVE dep'[b] /\ (svc'[b] \/ Reviving(b)')
    <3>1. status[b] = "running" => dep[b] /\ (svc[b] \/ Reviving(b))
      BY <1>5 DEF Consistent, StatusOK
    <3>2. dep[b] /\ (svc[b] \/ Reviving(b))
      BY <2>1, <3>1, UpEffect
    <3> QED BY <1>6, <3>2
  <2>2. ASSUME status'[b] = "starting" PROVE Awaited(b)'
    BY <2>2, UpEffect
  <2>3. ASSUME status'[b] \in {"none", "created", "stopped", "deleted"}
        PROVE  Bare(b)' \/ Launching(b)'
    <3>1. /\ status'[b] = status[b] /\ (Launching(b) => Launching(b)')
          /\ dep[b] \/ Launching(b)'
      BY <2>3, UpEffect
    <3>2. Bare(b) \/ Launching(b)
      BY <2>3, <3>1 DEF Consistent, StatusOK
    <3> QED BY <3>1, <3>2 DEF Bare
  <2> QED BY <2>1, <2>2, <2>3 DEF StatusOK
<1> QED
  BY <1>7, <1>8, <1>9, <1>10, <1>11, <1>12 DEF Consistent

\* The calls on b of an operation that tears b down, none of which fails.
DownCall(t, b) ==
    /\ thr[t].op \in Stoppers \cup Deleters
    /\ term'[b] = term[b]
    /\ \/ Call(t, b, "remove", "unexpose") /\ ~dep'[b] /\ SameSvc(b) /\ SameStatus(b)
       \/ \E l \in {"mark", "erase"} :
            Call(t, b, "unexpose", l) /\ SameDep(b) /\ ~svc'[b] /\ SameStatus(b)
       \/ Call(t, b, "mark", "done") /\ SameDep(b) /\ SameSvc(b)
            /\ status'[b] = (IF Present(b) THEN "stopped" ELSE status[b])
       \/ Call(t, b, "erase", "done") /\ SameDep(b) /\ SameSvc(b)
            /\ status'[b] = "gone"

\* The calls of the cleanup job on b, none of which fails.
CleanCall(b, from, l) ==
    /\ cpc[b] = from /\ cpc'[b] = l
    /\ term'[b] = term[b] /\ lapsed'[b] = lapsed[b]
    /\ rpc'[b] = rpc[b] /\ thr' = thr

CleanDown(b) ==
    \/ CleanCall(b, "reapDep", "reapSvc") /\ ~dep'[b] /\ SameSvc(b) /\ SameStatus(b)
    \/ CleanCall(b, "reapSvc", "mark") /\ SameDep(b) /\ ~svc'[b] /\ SameStatus(b)
    \/ CleanCall(b, "mark", "none") /\ SameDep(b) /\ SameSvc(b)
         /\ status'[b] = (IF Present(b) THEN "deleted" ELSE status[b])

\* Only operations that tear b down, and perhaps the cleanup job, work on b.
BringingDown(b) ==
    /\ ~Reconciling(b)
    /\ \A u \in Threads :
         /\ thr[u].bot = b => b \in thr[u].todo /\ thr[u].pc \in Route(thr[u].op)
         /\ b \in thr[u].todo => thr[u].op \in Stoppers \cup Deleters

\* An orderly bot that is only being brought down: what is left of Consistent.
LEMMA DownShape ==
    ASSUME NEW b, BringingDown(b)
    PROVE  /\ LaunchOK(b) /\ RestartOK(b) /\ SaveOK(b) /\ ReconcileOK(b)
           /\ ~Reviving(b) /\ ~Launching(b) /\ ~Awaited(b)
<1> USE DEF Launchers, Restarters, Stoppers, Deleters, Savers, On, BringingDown
<1>1. LaunchOK(b) /\ SaveOK(b) /\ ~Reviving(b) /\ ~Launching(b)
  BY DEF LaunchOK, SaveOK, Reviving, Launching
<1>2. RestartOK(b)
  BY DEF RestartOK, Holders
<1>3. ReconcileOK(b)
  BY DEF ReconcileOK, Reconciling
<1>4. ~Awaited(b)
  BY DEF Awaited, Route
<1> QED BY <1>1, <1>2, <1>3, <1>4

\* A step that takes something away from b leaves what the others rely on.
LEMMA DownKeeps ==
    ASSUME TypeOK, NEW b \in Bots, BringingDown(b), Consistent(b), BringingDown(b)',
           \/ \E t \in Threads : DownCall(t, b)
           \/ CleanDown(b)
    PROVE  Consistent(b)'
<1> USE DEF SameDep, SameSvc, SameStatus, On, Bare
<1>1. LaunchOK(b)' /\ RestartOK(b)' /\ SaveOK(b)' /\ ReconcileOK(b)'
  BY DownShape, PTL
<1>2. ~Reviving(b) /\ ~Launching(b) /\ ~Awaited(b)
  BY DownShape
<1>3. /\ dep'[b] => dep[b]
      /\ svc'[b] => svc[b]
      /\ status'[b] \in {status[b], "stopped", "deleted", "gone"}
  BY DEF DownCall, CleanDown
<1>4. StopOK(b)'
  <2> SUFFICES ASSUME NEW u \in Threads, thr'[u].bot = b,
                      thr'[u].op \in Stoppers \cup Deleters
               PROVE  /\ status'[b] # "none"
                      /\ thr'[u].pc = "unexpose" => ~dep'[b]
                      /\ thr'[u].pc = "mark" => Bare(b)'
                      /\ thr'[u].pc = "erase" /\ status'[b] = "running" => Bare(b)'
    BY DEF StopOK
  <2>1. CASE thr'[u] = thr[u]
    <3>1. /\ status[b] # "none"
          /\ thr[u].pc = "unexpose" => ~dep[b]
          /\ thr[u].pc = "mark" => Bare(b)
          /\ thr[u].pc = "erase" /\ status[b] = "running" => Bare(b)
      BY <2>1 DEF Consistent, StopOK
    <3> QED BY <1>3, <2>1, <3>1
  <2>2. CASE thr'[u] # thr[u]
    <3>1. DownCall(u, b)
      BY <2>2 DEF DownCall, Call, MovesTo, CleanDown, CleanCall
    <3>2. status[b] # "none" /\ (thr[u].pc = "unexpose" => ~dep[b])
      BY <3>1 DEF Consistent, StopOK, DownCall, Call
    <3> QED BY <1>3, <3>1, <3>2 DEF DownCall, Call, MovesTo
  <2> QED BY <2>1, <2>2
<1>5. CleanupOK(b)'
  <2>1. CASE \E t \in Threads : DownCall(t, b)
    <3>1. cpc'[b] = cpc[b] /\ term'[b] = term[b] /\ lapsed'[b] = lapsed[b]
      BY <2>1 DEF DownCall, Call
    <3> QED BY <1>3, <3>1 DEF Consistent, CleanupOK, Expired
  <2>2. CASE CleanDown(b)
    <3>1. term'[b] = term[b] /\ lapsed'[b] = lapsed[b]
      BY <2>2 DEF CleanDown, CleanCall
    <3> QED BY <1>3, <2>2, <3>1 DEF Consistent, CleanupOK, Expired, CleanDown, CleanCall
  <2> QED BY <2>1, <2>2
<1>6. StatusOK(b)'
  <2>1. ASSUME status'[b] = "running"
        PROVE  (dep'[b] /\ svc'[b]) \/ TearingDown(b)'
    <3>1. status[b] = "running" /\ Present(b)
      BY <1>3, <2>1 DEF Present, BotStatus
    <3>2. CASE \E t \in Threads : DownCall(t, b)
      <4>1. PICK t \in Threads : DownCall(t, b)
        BY <3>2
      <4>2. /\ thr'[t].bot = b /\ thr'[t].op \in Stoppers \cup Deleters
            /\ thr'[t].pc \in {"unexpose", "mark", "erase"}
        BY <2>1, <3>1, <4>1 DEF DownCall, Call, MovesTo
      <4> QED BY <4>2 DEF TearingDown
    <3>3. CASE CleanDown(b)
      BY <2>1, <3>1, <3>3 DEF CleanDown, CleanCall, TearingDown
    <3> QED BY <3>2, <3>3
  <2>2. status'[b] # "starting"
    BY <1>2, <1>3 DEF Consistent, StatusOK
  <2>3. ASSUME status'[b] \in {"none", "created", "stopped", "deleted"}
        PROVE  Bare(b)'
    <3>1. CASE status'[b] = status[b]
      BY <1>2, <1>3, <2>3, <3>1 DEF Consistent, StatusOK
    <3>2. CASE status'[b] # status[b]
      <4>1. Bare(b)
        BY <2>3, <3>2 DEF Consistent, StopOK, CleanupOK, DownCall, Call, CleanDown, CleanCall
      <4> QED BY <1>3, <4>1
    <3> QED BY <3>1, <3>2
  <2> QED BY <2>1, <2>2, <2>3 DEF StatusOK
<1> QED BY <1>1, <1>4, <1>5, <1>6 DEF Consistent

\* The calls on b of an operation that reads the row and saves it: neither
\* the status nor the cluster changes.
SaveCall(t, b) ==
    /\ thr[t].op \in Savers
    /\ SameDep(b) /\ SameSvc(b) /\ SameStatus(b) /\ term'[b] >= term[b]
    /\ \/ Call(t, b, "probe", "lookup") /\ term'[b] = term[b]
       \/ Call(t, b, "probe", "done") \/ Call(t, b, "lookup", "done")
       \/ Call(t, b, "save", "done")

\* Thread t alone works on b, and saves its row.
Saving(t, b) ==
    /\ ~Reconciling(b) /\ ~Cleaning(b)
    /\ thr[t].op \in Savers
    /\ \A u \in Threads : thr[u].bot = b \/ b \in thr[u].todo => u = t

LEMMA SaveKeeps ==
    ASSUME TypeOK, NEW b \in Bots, Consistent(b),
           NEW t \in Threads, Saving(t, b), SaveCall(t, b)
    PROVE  Consistent(b)'
<1> USE DEF SaveCall, Call, MovesTo, SameDep, SameSvc, SameStatus, On,
            Launchers, Restarters, Stoppers, Deleters, Savers
<1>1. /\ \A u \in Threads : u # t => thr'[u] = thr[u]
      /\ thr'[t].bot = b \/ thr'[t].todo # {} => thr'[t].op \in Savers
      /\ thr'[t].bot = b => thr'[t].pc = "lookup" /\ thr'[t].row = thr[t].row
  OBVIOUS
<1>2. \A u \in Threads : thr'[u].bot = b \/ b \in thr'[u].todo => u = t
  BY <1>1 DEF Saving
<1>3. cpc'[b] = "none" /\ \A s \in Listed : rpc'[b][s] = "none"
  BY DEF Saving, Reconciling, Cleaning
<1>4. LaunchOK(b)' /\ StopOK(b)'
  BY <1>1, <1>2 DEF LaunchOK, StopOK
<1>5. RestartOK(b)'
  BY <1>1, <1>2 DEF RestartOK, Holders
<1>6. SaveOK(b)'
  <2> SUFFICES ASSUME NEW u \in Threads, thr'[u].bot = b
               PROVE  /\ thr'[u].row = [status |-> status'[b], term |-> term'[b]]
                      /\ Present(b)'
                      /\ thr'[u].op = "status" => status'[b] = "running" /\ thr'[u].pc # "save"
    BY DEF SaveOK
  <2>1. u = t
    BY <1>2
  <2>2. Call(t, b, "probe", "lookup") /\ term'[b] = term[b] /\ thr[t].op \in Savers
    BY <2>1
  <2>3. /\ thr[t].row = [status |-> status[b], term |-> term[b]]
        /\ Present(b)
        /\ thr[t].op = "status" => status[b] = "running"
    BY <2>2 DEF Consistent, SaveOK
  <2> QED BY <1>1, <2>1, <2>2, <2>3 DEF Present
<1>7. ReconcileOK(b)' /\ CleanupOK(b)'
  BY <1>3 DEF ReconcileOK, CleanupOK
<1>8. ~TearingDown(b) /\ ~Reviving(b) /\ ~Launching(b)
  <2>1. \A u \in Threads : thr[u].bot = b => thr[u].op \in Savers
    BY DEF Saving
  <2>2. cpc[b] = "none" /\ rpc[b]["running"] = "none"
    BY DEF Saving, Reconciling, Cleaning, Listed
  <2> QED BY <2>1, <2>2 DEF TearingDown, Reviving, Launching
<1>9. ~Awaited(b)
  BY DEF Awaited, Saving
<1>10. StatusOK(b)'
  BY <1>8, <1>9 DEF Consistent, StatusOK, Bare
<1> QED
  BY <1>4, <1>5, <1>6, <1>7, <1>10 DEF Consistent

\* Thread u has just come to b, and what its operation relies on holds there.
Newcomer(u, b) ==
    /\ thr[u].bot # b
    /\ thr'[u].bot = b /\ thr'[u].op \in Launchers =>
         Present(b)' /\ thr'[u].pc = "create"
    /\ b \in thr'[u].todo /\ thr'[u].op \in Restarters =>
         dep[b] /\ status[b] \in {"running", "starting", "error"} /\ thr'[u].pc # "mark"
    /\ thr'[u].bot = b /\ thr'[u].op \in Stoppers \cup Deleters =>
         /\ Present(b)
         /\ thr'[u].pc = "remove" \/ (thr'[u].pc = "erase" /\ status[b] # "running")
    /\ thr'[u].bot = b /\ thr'[u].op \in Savers =>
         /\ thr'[u].row = [status |-> status[b], term |-> term[b]]
         /\ Present(b)
         /\ thr'[u].op = "status" => status[b] = "running" /\ thr'[u].pc # "save"

\* Operations may come to b, and the row of b may be inserted.
Joins(b) ==
    /\ \A u \in Threads : thr'[u] = thr[u] \/ Newcomer(u, b)
    /\ term'[b] = term[b] /\ lapsed'[b] = lapsed[b]
    /\ dep'[b] = dep[b] /\ svc'[b] = svc[b]
    /\ rpc'[b] = rpc[b] /\ cpc'[b] = cpc[b]
    /\ \/ status'[b] = status[b]
       \/ status[b] = "none" /\ status'[b] = "created"

LEMMA JoinKeeps ==
    ASSUME NEW b, Consistent(b), Joins(b)
    PROVE  Consistent(b)'
<1> USE DEF Joins, On
<1>1. /\ Reviving(b) => Reviving(b)'
      /\ Launching(b) => Launching(b)'
      /\ Awaited(b) => Awaited(b)'
      /\ TearingDown(b) => TearingDown(b)'
  BY DEF Reviving, Launching, Awaited, TearingDown, Newcomer
<1>2. LaunchOK(b)'
  <2> SUFFICES ASSUME NEW u \in Threads, thr'[u].bot = b, thr'[u].op \in Launchers
               PROVE  /\ Present(b)'
                      /\ thr'[u].pc # "create" => dep'[b]
                      /\ thr'[u].pc \in {"mark", "await", "arrived", "giveup"} =>
                           svc'[b] \/ Reviving(b)'
                      /\ thr'[u].pc \in {"await", "arrived", "giveup"} =>
                           status'[b] \in {"running", "starting", "error"}
    BY DEF LaunchOK
  <2>1. CASE Newcomer(u, b)
    BY <2>1 DEF Newcomer
  <2>2. CASE thr'[u] = thr[u]
    BY <1>1, <2>2 DEF Consistent, LaunchOK, Present, BotStatus
  <2> QED BY <2>1, <2>2
<1>3. RestartOK(b)'
  <2> SUFFICES ASSUME NEW u \in Threads, b \in thr'[u].todo, thr'[u].op \in Restarters
               PROVE  /\ dep'[b] /\ status'[b] \in {"running", "starting", "error"}
                      /\ thr'[u].bot = b /\ thr'[u].pc = "mark" =>
                           svc'[b] \/ Reviving(b)'
    BY DEF RestartOK, Holders
  <2>1. CASE Newcomer(u, b)
    BY <2>1 DEF Newcomer
  <2>2. CASE thr'[u] = thr[u]
    BY <1>1, <2>2 DEF Consistent, RestartOK, Holders
  <2> QED BY <2>1, <2>2
<1>4. StopOK(b)'
  <2> SUFFICES ASSUME NEW u \in Threads, thr'[u].bot = b,
                      thr'[u].op \in Stoppers \cup Deleters
               PROVE  /\ status'[b] # "none"
                      /\ thr'[u].pc = "unexpose" => ~dep'[b]
                      /\ thr'[u].pc = "mark" => Bare(b)'
                      /\ thr'[u].pc = "erase" /\ status'[b] = "running" => Bare(b)'
    BY DEF StopOK
  <2>1. CASE Newcomer(u, b)
    BY <2>1 DEF Newcomer, Present, BotStatus
  <2>2. CASE thr'[u] = thr[u]
    BY <2>2 DEF Consistent, StopOK, Bare
  <2> QED BY <2>1, <2>2
<1>5. SaveOK(b)'
  <2> SUFFICES ASSUME NEW u \in Threads, thr'[u].bot = b, thr'[u].op \in Savers
               PROVE  /\ thr'[u].row = [status |-> status'[b], term |-> term'[b]]
                      /\ Present(b)'
                      /\ thr'[u].op = "status" =>
                           status'[b] = "running" /\ thr'[u].pc # "save"
    BY DEF SaveOK
  <2>1. CASE Newcomer(u, b)
    BY <2>1 DEF Newcomer, Present, BotStatus
  <2>2. CASE thr'[u] = thr[u]
    BY <2>2 DEF Consistent, SaveOK, Present, BotStatus
  <2> QED BY <2>1, <2>2
<1>6. ReconcileOK(b)' /\ CleanupOK(b)'
  BY DEF Consistent, ReconcileOK, CleanupOK, Expired, Listed
<1>7. StatusOK(b)'
  BY <1>1 DEF Consistent, StatusOK, Bare
<1> QED
  BY <1>2, <1>3, <1>4, <1>5, <1>6, <1>7 DEF Consistent

\* A job takes b up, or the term of b ends.
LEMMA JobBeginKeeps ==
    ASSUME NEW b, Consistent(b), UNCHANGED thr,
           status'[b] = status[b], term'[b] = term[b],
           dep'[b] = dep[b], svc'[b] = svc[b],
           TearingDown(b) => TearingDown(b)', ReconcileOK(b)', CleanupOK(b)'
    PROVE  Consistent(b)'
<1>1. /\ Reviving(b)' <=> Reviving(b)
      /\ Launching(b)' <=> Launching(b)
      /\ Awaited(b)' <=> Awaited(b)
  BY DEF Reviving, Launching, Awaited, On
<1>2. LaunchOK(b)' /\ StopOK(b)' /\ SaveOK(b)'
  BY <1>1 DEF Consistent, LaunchOK, StopOK, SaveOK, Present, Bare, On
<1>3. RestartOK(b)'
  BY <1>1 DEF Consistent, RestartOK, Holders, On
<1>4. StatusOK(b)'
  BY <1>1 DEF Consistent, StatusOK, Bare
<1> QED BY <1>2, <1>3, <1>4 DEF Consistent

\* A step of the reconcile job on b: no operation is at b, and only one of the
\* four lists has it.
LEMMA RecKeeps ==
    ASSUME TypeOK, Sharing, NEW b \in Orderly, Consistent(b),
           NEW s \in Listed, RecStep(b, s, "ok")
    PROVE  Consistent(b)'
<1> USE DEF On, Bare, Applied, Answered
<1>0. b \in Bots
  BY OrderlyOverlap
<1>1. UNCHANGED thr /\ term'[b] = term[b] /\ lapsed'[b] = lapsed[b] /\ cpc'[b] = cpc[b]
  BY DEF RecStep
<1>2. rpc[b][s] # "none"
  BY DEF RecStep, InspectActive, InspectInactive, RecWriteRow,
         RecDeleteDeployment, RecDeleteService
<1>3. PICK l : rpc' = [rpc EXCEPT ![b][s] = l]
  BY DEF RecStep, InspectActive, InspectInactive, RecWriteRow,
         RecDeleteDeployment, RecDeleteService, RecGoto
<1>4. rpc'[b][s] = l /\ \A i \in Listed : i # s => rpc'[b][i] = rpc[b][i]
  BY <1>0, <1>3 DEF TypeOK
<1>5. Holders(b) = {} /\ ~Cleaning(b)
  BY <1>2 DEF Sharing, Disciplined, Reconciling
<1>6. \A u \in Threads : thr[u].bot # b /\ b \notin thr[u].todo
  BY <1>5, HolderOps DEF Holders
<1>7. /\ status[b] = s
      /\ rpc[b][s] \in {"listed", "reapDep", "reapSvc", "reapRow"}
      /\ rpc[b][s] \in {"reapSvc", "reapRow"} => ~dep[b]
      /\ rpc[b][s] = "reapRow" => ~svc[b] /\ s \in Active
      /\ \A i \in Listed : i # s => rpc[b][i] = "none"
  BY <1>2 DEF Consistent, ReconcileOK
<1>8. ~Awaited(b) /\ ~Launching(b) /\ ~Reviving(b)
  BY <1>6 DEF Awaited, Launching, Reviving
<1>9. s # "starting" /\ (s = "stopped" => Bare(b))
      /\ (s = "running" => dep[b] \/ rpc[b]["running"] \in {"reapSvc", "reapRow"})
  BY <1>5, <1>6, <1>7, <1>8 DEF Consistent, StatusOK, TearingDown, Cleaning
<1>10. /\ LaunchOK(b)' /\ StopOK(b)' /\ SaveOK(b)' /\ CleanupOK(b)'
  BY <1>1, <1>5, <1>6 DEF LaunchOK, StopOK, SaveOK, CleanupOK, Cleaning
<1>11. RestartOK(b)'
  BY <1>1, <1>6 DEF RestartOK, Holders
<1>12. CASE InspectActive(b, s, "ok")
  <2>1. rpc[b][s] = "listed" /\ s = "running" /\ UNCHANGED <<status, dep, svc>>
    BY <1>9, <1>12 DEF InspectActive, Active
  <2>2. dep[b]
    BY <1>9, <2>1
  <2>3. l \in {"none", "reapDep"}
    BY <1>0, <1>3, <1>4, <1>12, <2>1, <2>2 DEF InspectActive, RecGoto, Diagnosis, TypeOK
  <2>4. ReconcileOK(b)'
    BY <1>4, <1>7, <2>1, <2>3 DEF ReconcileOK
  <2>5. svc[b]
    BY <1>5, <1>6, <1>7, <1>8, <2>1 DEF Consistent, StatusOK, TearingDown, Cleaning
  <2>6. StatusOK(b)'
    BY <1>7, <2>1, <2>2, <2>5 DEF StatusOK
  <2> QED BY <1>10, <1>11, <2>4, <2>6 DEF Consistent
<1>13. CASE InspectInactive(b, s, "ok")
  <2>1. rpc[b][s] = "listed" /\ s \in {"stopped", "error"} /\ UNCHANGED <<status, dep, svc>>
    BY <1>13 DEF InspectInactive, Active, Listed
  <2>2. l \in {"none", "reapDep"}
    BY <1>0, <1>3, <1>4, <1>13 DEF InspectInactive, RecGoto, TypeOK
  <2>3. ReconcileOK(b)'
    BY <1>4, <1>7, <2>1, <2>2 DEF ReconcileOK
  <2>4. StatusOK(b)'
    <3>1. status'[b] = s /\ (s = "stopped" => ~dep'[b] /\ ~svc'[b])
      BY <1>7, <1>9, <2>1
    <3> QED BY <2>1, <3>1 DEF StatusOK
  <2> QED BY <1>10, <1>11, <2>3, <2>4 DEF Consistent
<1>14. CASE RecWriteRow(b, s, "ok")
  <2>1. rpc[b][s] = "reapRow" /\ s = "running" /\ UNCHANGED <<dep, svc>>
    BY <1>7, <1>9, <1>14 DEF RecWriteRow, Active
  <2>2. status'[b] = "stopped"
    BY <1>0, <1>7, <1>14, <2>1 DEF RecWriteRow, WriteStatus, RecVerdict, Present, BotStatus, TypeOK
  <2>3. l = "none"
    BY <1>0, <1>3, <1>4, <1>14, <2>1 DEF RecWriteRow, RecGoto, TypeOK
  <2>4. ReconcileOK(b)'
    BY <1>4, <1>7, <2>3 DEF ReconcileOK
  <2>5. StatusOK(b)'
    BY <1>7, <2>1, <2>2 DEF StatusOK
  <2> QED BY <1>10, <1>11, <2>4, <2>5 DEF Consistent
<1>15. CASE RecDeleteDeployment(b, s, "ok")
  <2>1. rpc[b][s] = "reapDep" /\ ~dep'[b] /\ UNCHANGED <<status, svc>>
    BY <1>0, <1>15 DEF RecDeleteDeployment, RemoveDeployment, TypeOK
  <2>2. l = "reapSvc"
    BY <1>0, <1>3, <1>4, <1>15 DEF RecDeleteDeployment, RecGoto, TypeOK
  <2>3. ReconcileOK(b)'
    BY <1>4, <1>7, <2>1, <2>2 DEF ReconcileOK
  <2>4. StatusOK(b)'
    <3>1. /\ status'[b] = s /\ s \in {"running", "stopped", "error"}
          /\ s = "stopped" => ~dep'[b] /\ ~svc'[b]
      BY <1>7, <1>9, <2>1 DEF Listed
    <3>2. s = "running" => TearingDown(b)'
      BY <1>4, <2>2 DEF TearingDown
    <3> QED BY <3>1, <3>2 DEF StatusOK
  <2> QED BY <1>10, <1>11, <2>3, <2>4 DEF Consistent
<1>16. CASE RecDeleteService(b, s, "ok")
  <2>1. rpc[b][s] = "reapSvc" /\ ~svc'[b] /\ ~dep'[b] /\ UNCHANGED <<status, dep>>
    BY <1>0, <1>7, <1>16 DEF RecDeleteService, TypeOK
  <2>2. l = IF s \in Active THEN "reapRow" ELSE "none"
    BY <1>0, <1>3, <1>4, <1>16, <2>1 DEF RecDeleteService, RecGoto, TypeOK
  <2>3. ReconcileOK(b)'
    BY <1>4, <1>7, <2>1, <2>2 DEF ReconcileOK
  <2>4. StatusOK(b)'
    BY <1>4, <1>7, <1>9, <2>1, <2>2 DEF StatusOK, TearingDown, Active
  <2> QED BY <1>10, <1>11, <2>3, <2>4 DEF Consistent
<1> QED
  BY <1>12, <1>13, <1>14, <1>15, <1>16 DEF RecStep

\* What a step of thread t leaves alone: every bot but its own.
Elsewhere(t) ==
    \A b \in Bots : b # BotOf(t) => SameData(b) /\ SameThreads(b)

\* A call that went well takes thread t to label l.
Done(t, l) == Call(t, BotOf(t), thr[t].pc, l)

LEMMA StatusEffect ==
    ASSUME TypeOK, ThreadShape, NEW t \in Threads, thr[t].pc \notin {"idle", "next"},
           NEW r, NEW s, NEW ok \in Label, NEW err \in Label,
           UpdateBotStatus(t, r, s, ok, err)
    PROVE  /\ Elsewhere(t)
           /\ r = "ok" => /\ Done(t, ok)
                          /\ SameDep(BotOf(t)) /\ SameSvc(BotOf(t))
                          /\ term'[BotOf(t)] = term[BotOf(t)]
                          /\ status'[BotOf(t)] =
                               (IF Present(BotOf(t)) THEN s ELSE status[BotOf(t)])
<1> DEFINE c == BotOf(t)
<1>1. Goto(t, IF Answered(r) THEN ok ELSE err)
  BY DEF UpdateBotStatus, Continue
<1>2. /\ c \in Bots /\ \A b \in Bots : b # c => SameThreads(b)
      /\ MovesTo(t, c, IF Answered(r) THEN ok ELSE err)
  BY <1>1, GotoEffect
<1>3. UNCHANGED <<term, lapsed, dep, svc, rpc, cpc>>
  BY DEF UpdateBotStatus, k8s, jobs
<1>4. status' = IF Applied(r)
                  THEN [status EXCEPT ![c] = IF Present(c) THEN s ELSE @] ELSE status
  BY DEF UpdateBotStatus, WriteStatus
<1>5. Elsewhere(t)
  BY <1>2, <1>3, <1>4 DEF Elsewhere, SameData, TypeOK
<1>6. ASSUME r = "ok"
      PROVE  /\ Done(t, ok) /\ SameDep(c) /\ SameSvc(c) /\ term'[c] = term[c]
             /\ status'[c] = (IF Present(c) THEN s ELSE status[c])
  BY <1>2, <1>3, <1>4, <1>6
     DEF Applied, Answered, Done, Call, SameDep, SameSvc, TypeOK, BotOf
<1> QED BY <1>5, <1>6

LEMMA SaveEffect ==
    ASSUME TypeOK, ThreadShape, NEW t \in Threads, thr[t].pc \notin {"idle", "next"},
           NEW r, NEW n, NEW ok \in Label, NEW err \in Label,
           UpdateBot(t, r, n, ok, err)
    PROVE  /\ Elsewhere(t)
           /\ r = "ok" => /\ Done(t, ok)
                          /\ SameDep(BotOf(t)) /\ SameSvc(BotOf(t))
                          /\ term'[BotOf(t)] = n.term
                          /\ status'[BotOf(t)] = n.status
<1> DEFINE c == BotOf(t)
<1>1. Goto(t, IF Answered(r) THEN ok ELSE err)
  BY DEF UpdateBot, Continue
<1>2. /\ c \in Bots /\ \A b \in Bots : b # c => SameThreads(b)
      /\ MovesTo(t, c, IF Answered(r) THEN ok ELSE err)
  BY <1>1, GotoEffect
<1>3. UNCHANGED <<lapsed, dep, svc, rpc, cpc>>
  BY DEF UpdateBot, k8s, jobs
<1>4. IF Applied(r) THEN /\ status' = [status EXCEPT ![c] = n.status]
                         /\ term' = [term EXCEPT ![c] = n.term]
                    ELSE status' = status /\ term' = term
  BY DEF UpdateBot, row
<1>5. Elsewhere(t)
  BY <1>2, <1>3, <1>4 DEF Elsewhere, SameData, TypeOK
<1>6. ASSUME r = "ok"
      PROVE  /\ Done(t, ok) /\ SameDep(c) /\ SameSvc(c)
             /\ term'[c] = n.term /\ status'[c] = n.status
  BY <1>2, <1>3, <1>4, <1>6
     DEF Applied, Answered, Done, Call, SameDep, SameSvc, TypeOK, BotOf
<1> QED BY <1>5, <1>6

LEMMA RemoveEffect ==
    ASSUME TypeOK, ThreadShape, NEW t \in Threads, thr[t].pc \notin {"idle", "next"},
           NEW r, NEW ok \in Label, NEW err \in Label, RemoveRow(t, r, ok, err)
    PROVE  /\ Elsewhere(t)
           /\ r = "ok" => /\ Done(t, ok)
                          /\ SameDep(BotOf(t)) /\ SameSvc(BotOf(t))
                          /\ term'[BotOf(t)] = term[BotOf(t)]
                          /\ status'[BotOf(t)] = "gone"
<1> DEFINE c == BotOf(t)
<1>1. Goto(t, IF Answered(r) THEN ok ELSE err)
  BY DEF RemoveRow, Continue
<1>2. /\ c \in Bots /\ \A b \in Bots : b # c => SameThreads(b)
      /\ MovesTo(t, c, IF Answered(r) THEN ok ELSE err)
  BY <1>1, GotoEffect
<1>3. UNCHANGED <<term, lapsed, dep, svc, rpc, cpc>>
  BY DEF RemoveRow, k8s, jobs
<1>4. status' = IF Applied(r) THEN [status EXCEPT ![c] = "gone"] ELSE status
  BY DEF RemoveRow
<1>5. Elsewhere(t)
  BY <1>2, <1>3, <1>4 DEF Elsewhere, SameData, TypeOK
<1>6. ASSUME r = "ok"
      PROVE  /\ Done(t, ok) /\ SameDep(c) /\ SameSvc(c) /\ term'[c] = term[c]
             /\ status'[c] = "gone"
  BY <1>2, <1>3, <1>4, <1>6
     DEF Applied, Answered, Done, Call, SameDep, SameSvc, TypeOK, BotOf
<1> QED BY <1>5, <1>6

\* A call on the cluster changes the Deployment or the Service of one bot.
LEMMA ClusterEffect ==
    ASSUME TypeOK, ThreadShape, NEW t \in Threads, thr[t].pc \notin {"idle", "next"},
           NEW l \in Label, Goto(t, l), UNCHANGED <<status, term, lapsed, rpc, cpc>>,
           NEW d \in BOOLEAN, dep' = [dep EXCEPT ![BotOf(t)] = d] \/ dep' = dep,
           NEW v \in BOOLEAN, svc' = [svc EXCEPT ![BotOf(t)] = v] \/ svc' = svc
    PROVE  /\ Elsewhere(t) /\ Done(t, l) /\ BotOf(t) \in Bots
           /\ SameStatus(BotOf(t)) /\ term'[BotOf(t)] = term[BotOf(t)]
<1>1. /\ BotOf(t) \in Bots /\ \A b \in Bots : b # BotOf(t) => SameThreads(b)
      /\ MovesTo(t, BotOf(t), l)
  BY GotoEffect
<1>2. Elsewhere(t)
  BY <1>1 DEF Elsewhere, SameData, TypeOK
<1> QED BY <1>1, <1>2 DEF Done, Call, SameStatus, BotOf

LEMMA CreateDeploymentEffect ==
    ASSUME TypeOK, ThreadShape, NEW t \in Threads, thr[t].pc \notin {"idle", "next"},
           NEW r, NEW ok \in Label, NEW err \in Label, CreateDeployment(t, r, ok, err)
    PROVE  /\ Elsewhere(t)
           /\ r = "ok" => /\ SameSvc(BotOf(t)) /\ SameStatus(BotOf(t))
                          /\ term'[BotOf(t)] = term[BotOf(t)]
                          /\ \/ Done(t, "replace") /\ dep[BotOf(t)] /\ SameDep(BotOf(t))
                             \/ Done(t, ok) /\ dep'[BotOf(t)]
<1> DEFINE l == IF dep[BotOf(t)] /\ Answered(r) THEN "replace"
                ELSE IF Answered(r) THEN ok ELSE err
<1>1. Goto(t, l) /\ l \in Label
  BY DEF CreateDeployment, Continue, Label, PC
<1>2. UNCHANGED <<status, term, lapsed, svc, rpc, cpc>>
  BY DEF CreateDeployment, row, jobs
<1>3. dep' = [dep EXCEPT ![BotOf(t)] = TRUE] \/ dep' = dep
  BY DEF CreateDeployment
<1>4. /\ Elsewhere(t) /\ Done(t, l) /\ BotOf(t) \in Bots
      /\ SameStatus(BotOf(t)) /\ term'[BotOf(t)] = term[BotOf(t)]
  BY <1>1, <1>2, <1>3, ClusterEffect
<1>5. r = "ok" => \/ l = "replace" /\ dep[BotOf(t)] /\ SameDep(BotOf(t))
                  \/ l = ok /\ dep'[BotOf(t)]
  BY <1>4 DEF CreateDeployment, Applied, Answered, SameDep, TypeOK
<1> QED BY <1>2, <1>4, <1>5 DEF SameSvc

LEMMA DeleteDeploymentEffect ==
    ASSUME TypeOK, ThreadShape, NEW t \in Threads, thr[t].pc \notin {"idle", "next"},
           NEW r, NEW ok \in Label, NEW err \in Label, DeleteDeployment(t, r, ok, err)
    PROVE  /\ Elsewhere(t)
           /\ r = "ok" => /\ Done(t, ok) /\ ~dep'[BotOf(t)] /\ SameSvc(BotOf(t))
                          /\ SameStatus(BotOf(t)) /\ term'[BotOf(t)] = term[BotOf(t)]
<1> DEFINE l == IF Answered(r) THEN ok ELSE err
<1>1. Goto(t, l) /\ l \in Label
  BY DEF DeleteDeployment, Continue
<1>2. UNCHANGED <<status, term, lapsed, svc, rpc, cpc>>
  BY DEF DeleteDeployment, row, jobs
<1>3. dep' = IF Applied(r) THEN [dep EXCEPT ![BotOf(t)] = FALSE] ELSE dep
  BY DEF DeleteDeployment, RemoveDeployment
<1>4. /\ Elsewhere(t) /\ Done(t, l) /\ BotOf(t) \in Bots
      /\ SameStatus(BotOf(t)) /\ term'[BotOf(t)] = term[BotOf(t)]
  BY <1>1, <1>2, <1>3, ClusterEffect
<1> QED BY <1>2, <1>3, <1>4 DEF SameSvc, Applied, Answered, TypeOK

LEMMA ServiceEffect ==
    ASSUME TypeOK, ThreadShape, NEW t \in Threads, thr[t].pc \notin {"idle", "next"},
           NEW r, NEW ok \in Label, NEW err \in Label, NEW v \in BOOLEAN,
           svc' = IF Applied(r) THEN [svc EXCEPT ![BotOf(t)] = v] ELSE svc,
           Continue(t, r, ok, err), UNCHANGED <<row, lapsed, dep, pods, jobs>>
    PROVE  /\ Elsewhere(t)
           /\ r = "ok" => /\ Done(t, ok) /\ svc'[BotOf(t)] = v /\ SameDep(BotOf(t))
                          /\ SameStatus(BotOf(t)) /\ term'[BotOf(t)] = term[BotOf(t)]
<1> DEFINE l == IF Answered(r) THEN ok ELSE err
<1>1. Goto(t, l) /\ l \in Label
  BY DEF Continue
<1>2. UNCHANGED <<status, term, lapsed, dep, rpc, cpc>>
  BY DEF row, jobs
<1>3. /\ Elsewhere(t) /\ Done(t, l) /\ BotOf(t) \in Bots
      /\ SameStatus(BotOf(t)) /\ term'[BotOf(t)] = term[BotOf(t)]
  BY <1>1, <1>2, ClusterEffect
<1> QED BY <1>2, <1>3 DEF SameDep, Applied, Answered, TypeOK

\* A call that only looks.
LEMMA LookEffect ==
    ASSUME TypeOK, ThreadShape, NEW t \in Threads, thr[t].pc \notin {"idle", "next"},
           NEW l \in Label, Goto(t, l), UNCHANGED <<row, lapsed, k8s, jobs>>
    PROVE  /\ Elsewhere(t) /\ Done(t, l)
           /\ SameDep(BotOf(t)) /\ SameSvc(BotOf(t)) /\ SameStatus(BotOf(t))
           /\ term'[BotOf(t)] = term[BotOf(t)]
<1>1. UNCHANGED <<status, term, lapsed, dep, svc, rpc, cpc>>
  BY DEF row, k8s, jobs
<1>2. Elsewhere(t) /\ Done(t, l) /\ SameStatus(BotOf(t)) /\ term'[BotOf(t)] = term[BotOf(t)]
  BY <1>1, ClusterEffect
<1> QED BY <1>1, <1>2 DEF SameDep, SameSvc

\* A step of an operation that is under way: on an orderly bot it is one of
\* the calls above, and it touches no other bot.
Handled(t) ==
    /\ thr[t].pc \notin {"idle", "next"}
    /\ Elsewhere(t)
    /\ BotOf(t) \in Orderly =>
         UpCall(t, BotOf(t)) \/ DownCall(t, BotOf(t)) \/ SaveCall(t, BotOf(t))

AllConsistent == \A b \in Orderly : Consistent(b)

LEMMA LaunchHandled ==
    ASSUME TypeOK, Sharing, AllConsistent, NEW t \in Threads, NEW r \in Possible(t),
           NEW k \in Launchers, NEW s, NEW l,
           \/ s = "running" /\ l = "done"
           \/ s = "starting" /\ l = "await",
           Launch(t, k, r, UpdateBotStatus(t, r, s, l, "done"))
    PROVE  Handled(t)
<1> DEFINE c == BotOf(t)
<1> USE DEF At, Label, PC
<1>0. ThreadShape /\ thr[t].op = k /\ thr[t].pc \notin {"idle", "next"}
  BY DEF Launch, Sharing
<1>1. c \in Orderly =>
        /\ r = "ok" /\ Answered(r)
        /\ Present(c)
        /\ thr[t].pc # "create" => dep[c]
        /\ thr[t].pc # "rollback"
  <2> SUFFICES ASSUME c \in Orderly
               PROVE  /\ r = "ok" /\ Answered(r)
                      /\ Present(c)
                      /\ thr[t].pc # "create" => dep[c]
                      /\ thr[t].pc # "rollback"
    OBVIOUS
  <2>1. thr[t].pc \in Route(k)
    BY <1>0, HolderOps DEF BotOf
  <2>2. thr[t].pc # "rollback"
    BY <2>1 DEF Route, Launchers, Stoppers, Deleters
  <2> QED BY <1>0, <2>2, ReliableAnswers DEF AllConsistent, Consistent, LaunchOK, On, BotOf
<1>2. CASE At(t, k, "create") /\ CreateDeployment(t, r, "expose", "done")
  <2>1. Elsewhere(t)
    BY <1>0, <1>2, CreateDeploymentEffect
  <2>2. c \in Orderly => UpCall(t, c)
    BY <1>0, <1>1, <1>2, CreateDeploymentEffect DEF UpCall, LaunchCall, ReviveCall, Done
  <2> QED BY <1>0, <2>1, <2>2 DEF Handled
<1>3. CASE At(t, k, "replace") /\ ReplaceDeployment(t, r, "expose", "done")
  <2> DEFINE m == IF Answered(r) /\ dep[c] THEN "expose" ELSE "done"
  <2>1. Goto(t, m) /\ UNCHANGED <<row, lapsed, k8s, jobs>>
    BY <1>3 DEF ReplaceDeployment
  <2>2. /\ Elsewhere(t) /\ Done(t, m) /\ term'[c] = term[c]
        /\ SameDep(c) /\ SameSvc(c) /\ SameStatus(c)
    BY <1>0, <2>1, LookEffect
  <2>3. c \in Orderly => UpCall(t, c)
    BY <1>0, <1>1, <1>3, <2>2 DEF UpCall, LaunchCall, ReviveCall, Done
  <2> QED BY <1>0, <2>2, <2>3 DEF Handled
<1>4. CASE At(t, k, "expose") /\ CreateService(t, r, "mark", "rollback")
  <2>1. /\ Elsewhere(t)
        /\ r = "ok" => /\ Done(t, "mark") /\ svc'[c] = TRUE
                       /\ term'[c] = term[c] /\ SameDep(c) /\ SameStatus(c)
    BY <1>0, <1>4, ServiceEffect DEF CreateService
  <2>2. c \in Orderly => UpCall(t, c)
    BY <1>0, <1>1, <1>4, <2>1 DEF UpCall, LaunchCall, ReviveCall, Done
  <2> QED BY <1>0, <2>1, <2>2 DEF Handled
<1>5. CASE At(t, k, "rollback") /\ DeleteDeployment(t, r, "done", "done")
  BY <1>0, <1>1, <1>5, DeleteDeploymentEffect DEF Handled
<1>6. CASE At(t, k, "mark") /\ UpdateBotStatus(t, r, s, l, "done")
  <2>1. Elsewhere(t)
    BY <1>0, <1>6, StatusEffect
  <2>2. c \in Orderly => UpCall(t, c)
    BY <1>0, <1>1, <1>6, StatusEffect DEF UpCall, LaunchCall, ReviveCall, Done
  <2> QED BY <1>0, <2>1, <2>2 DEF Handled
<1> QED BY <1>2, <1>3, <1>4, <1>5, <1>6 DEF Launch

LEMMA WaiterHandled ==
    ASSUME TypeOK, Sharing, AllConsistent, NEW t \in Threads, NEW r \in Possible(t),
           NEW k \in {"adminStart", "provision"}, Waiter(t, k, r)
    PROVE  Handled(t)
<1> DEFINE c == BotOf(t)
<1> USE DEF At, Label, PC
<1>0. ThreadShape /\ thr[t].op = k /\ k \in Launchers /\ thr[t].pc \notin {"idle", "next"}
  BY DEF Waiter, Sharing, Launchers
<1>1. c \in Orderly => r = "ok" /\ Present(c)
  BY <1>0, ReliableAnswers DEF AllConsistent, Consistent, LaunchOK, On, BotOf
<1>2. CASE At(t, k, "await") /\ WaitForPodReady(t, r, "arrived", "giveup")
  <2> DEFINE m == IF Answered(r) /\ pods[c] # {} THEN "arrived" ELSE "giveup"
  <2>1. Goto(t, m) /\ UNCHANGED <<row, lapsed, k8s, jobs>>
    BY <1>2 DEF WaitForPodReady
  <2>2. /\ Elsewhere(t) /\ Done(t, m) /\ term'[c] = term[c]
        /\ SameDep(c) /\ SameSvc(c) /\ SameStatus(c)
    BY <1>0, <2>1, LookEffect
  <2>3. UpCall(t, c)
    BY <1>0, <1>2, <2>2 DEF UpCall, LaunchCall, ReviveCall, Done
  <2> QED BY <1>0, <2>2, <2>3 DEF Handled
<1>3. CASE At(t, k, "arrived") /\ UpdateBotStatus(t, r, "running", "done", "done")
  <2>1. Elsewhere(t)
    BY <1>0, <1>3, StatusEffect
  <2>2. c \in Orderly => UpCall(t, c)
    BY <1>0, <1>1, <1>3, StatusEffect DEF UpCall, LaunchCall, ReviveCall, Done
  <2> QED BY <1>0, <2>1, <2>2 DEF Handled
<1>4. CASE At(t, k, "giveup") /\ UpdateBotStatus(t, r, "error", "done", "done")
  <2>1. Elsewhere(t)
    BY <1>0, <1>4, StatusEffect
  <2>2. c \in Orderly => UpCall(t, c)
    BY <1>0, <1>1, <1>4, StatusEffect DEF UpCall, LaunchCall, ReviveCall, Done
  <2> QED BY <1>0, <2>1, <2>2 DEF Handled
<1> QED BY <1>2, <1>3, <1>4 DEF Waiter

LEMMA RestartFacts ==
    ASSUME Sharing, AllConsistent, NEW t \in Threads, NEW r \in Possible(t),
           thr[t].op \in Restarters
    PROVE  BotOf(t) \in Orderly => r = "ok" /\ Answered(r) /\ dep[BotOf(t)] /\ Present(BotOf(t))
<1> SUFFICES ASSUME BotOf(t) \in Orderly
             PROVE  r = "ok" /\ Answered(r) /\ dep[BotOf(t)] /\ Present(BotOf(t))
  OBVIOUS
<1>1. t \in Holders(BotOf(t))
  BY HolderOps DEF BotOf
<1>2. dep[BotOf(t)] /\ status[BotOf(t)] \in {"running", "starting", "error"}
  BY <1>1 DEF AllConsistent, Consistent, RestartOK
<1> QED BY <1>2, ReliableAnswers DEF Present, BotStatus

LEMMA RecreateHandled ==
    ASSUME TypeOK, Sharing, AllConsistent, NEW t \in Threads, NEW r \in Possible(t),
           NEW k \in Restarters, Recreate(t, k, r)
    PROVE  Handled(t)
<1> DEFINE c == BotOf(t)
<1> USE DEF At, Label, PC
<1>0. ThreadShape /\ thr[t].op = k /\ thr[t].pc \notin {"idle", "next"}
  BY DEF Recreate, Sharing
<1>1. c \in Orderly => r = "ok" /\ Answered(r) /\ dep[c] /\ Present(c)
  BY <1>0, RestartFacts
<1>2. CASE At(t, k, "roll") /\ ReplaceDeployment(t, r, "hide", "done")
  <2> DEFINE m == IF Answered(r) /\ dep[c] THEN "hide" ELSE "done"
  <2>1. Goto(t, m) /\ UNCHANGED <<row, lapsed, k8s, jobs>>
    BY <1>2 DEF ReplaceDeployment
  <2>2. /\ Elsewhere(t) /\ Done(t, m) /\ term'[c] = term[c]
        /\ SameDep(c) /\ SameSvc(c) /\ SameStatus(c)
    BY <1>0, <2>1, LookEffect
  <2>3. c \in Orderly => UpCall(t, c)
    BY <1>0, <1>1, <1>2, <2>2 DEF UpCall, LaunchCall, ReviveCall, Done
  <2> QED BY <1>0, <2>2, <2>3 DEF Handled
<1>3. CASE At(t, k, "hide") /\ DeleteService(t, r, "expose", "expose")
  <2>1. /\ Elsewhere(t)
        /\ r = "ok" => /\ Done(t, "expose") /\ svc'[c] = FALSE
                       /\ term'[c] = term[c] /\ SameDep(c) /\ SameStatus(c)
    BY <1>0, <1>3, ServiceEffect DEF DeleteService
  <2>2. c \in Orderly => UpCall(t, c)
    BY <1>0, <1>1, <1>3, <2>1 DEF UpCall, LaunchCall, ReviveCall, Done
  <2> QED BY <1>0, <2>1, <2>2 DEF Handled
<1>4. CASE At(t, k, "expose") /\ CreateService(t, r, "mark", "done")
  <2>1. /\ Elsewhere(t)
        /\ r = "ok" => /\ Done(t, "mark") /\ svc'[c] = TRUE
                       /\ term'[c] = term[c] /\ SameDep(c) /\ SameStatus(c)
    BY <1>0, <1>4, ServiceEffect DEF CreateService
  <2>2. c \in Orderly => UpCall(t, c)
    BY <1>0, <1>1, <1>4, <2>1 DEF UpCall, LaunchCall, ReviveCall, Done
  <2> QED BY <1>0, <2>1, <2>2 DEF Handled
<1>5. CASE At(t, k, "mark") /\ UpdateBotStatus(t, r, "running", "done", "done")
  <2>1. Elsewhere(t)
    BY <1>0, <1>5, StatusEffect
  <2>2. c \in Orderly => UpCall(t, c)
    BY <1>0, <1>1, <1>5, StatusEffect DEF UpCall, LaunchCall, ReviveCall, Done
  <2> QED BY <1>0, <2>1, <2>2 DEF Handled
<1> QED BY <1>2, <1>3, <1>4, <1>5 DEF Recreate

\* The calls that bring a bot down.
LEMMA RemoveHandled ==
    ASSUME TypeOK, Sharing, NEW t \in Threads, NEW r \in Possible(t),
           thr[t].op \in Stoppers \cup Deleters,
           NEW l \in {"done", "unexpose", "erase"},
           \/ thr[t].pc = "remove" /\ DeleteDeployment(t, r, "unexpose", l)
           \/ thr[t].pc = "unexpose" /\ DeleteService(t, r, "mark", l)
           \/ thr[t].pc = "unexpose" /\ DeleteService(t, r, "erase", l)
           \/ thr[t].pc = "mark" /\ UpdateBotStatus(t, r, "stopped", l, l)
           \/ thr[t].pc = "erase" /\ RemoveRow(t, r, l, l),
           thr[t].pc \in {"mark", "erase"} => l = "done"
    PROVE  Handled(t)
<1> DEFINE c == BotOf(t)
<1> USE DEF Label, PC
<1>0. ThreadShape /\ thr[t].pc \notin {"idle", "next"}
  BY DEF Sharing
<1>1. c \in Orderly => r = "ok"
  BY ReliableAnswers
<1>2. CASE thr[t].pc = "remove" /\ DeleteDeployment(t, r, "unexpose", l)
  <2>1. Elsewhere(t)
    BY <1>0, <1>2, DeleteDeploymentEffect
  <2>2. c \in Orderly => DownCall(t, c)
    BY <1>0, <1>1, <1>2, DeleteDeploymentEffect DEF DownCall, Done
  <2> QED BY <1>0, <2>1, <2>2 DEF Handled
<1>3. ASSUME NEW m \in {"mark", "erase"}, thr[t].pc = "unexpose", DeleteService(t, r, m, l)
      PROVE  Handled(t)
  <2>1. /\ Elsewhere(t)
        /\ r = "ok" => /\ Done(t, m) /\ svc'[c] = FALSE /\ term'[c] = term[c]
                       /\ SameDep(c) /\ SameStatus(c)
    BY <1>0, <1>3, ServiceEffect DEF DeleteService
  <2>2. c \in Orderly => DownCall(t, c)
    BY <1>0, <1>1, <1>3, <2>1 DEF DownCall, Done
  <2> QED BY <1>0, <2>1, <2>2 DEF Handled
<1>4. CASE thr[t].pc = "mark" /\ UpdateBotStatus(t, r, "stopped", l, l)
  <2>1. Elsewhere(t)
    BY <1>0, <1>4, StatusEffect
  <2>2. c \in Orderly => DownCall(t, c)
    BY <1>0, <1>1, <1>4, StatusEffect DEF DownCall, Done
  <2> QED BY <1>0, <2>1, <2>2 DEF Handled
<1>5. CASE thr[t].pc = "erase" /\ RemoveRow(t, r, l, l)
  <2>1. Elsewhere(t)
    BY <1>0, <1>5, RemoveEffect
  <2>2. c \in Orderly => DownCall(t, c)
    BY <1>0, <1>1, <1>5, RemoveEffect DEF DownCall, Done
  <2> QED BY <1>0, <2>1, <2>2 DEF Handled
<1> QED BY <1>2, <1>3, <1>4, <1>5

\* A running bot that is only being looked at has its Deployment.
LEMMA SaverFacts ==
    ASSUME Sharing, NEW b \in Orderly, Consistent(b),
           NEW t \in Threads, thr[t].bot = b, thr[t].op \in Savers
    PROVE  /\ Saving(t, b)
           /\ thr[t].row = [status |-> status[b], term |-> term[b]]
           /\ thr[t].op = "status" => dep[b] /\ thr[t].pc # "save"
<1>1. t \in Holders(b)
  BY HolderOps
<1>2. ~Reconciling(b) /\ ~Cleaning(b) /\ \A u \in Holders(b) : u = t
  BY <1>1, Company
<1>3. \A u \in Threads : thr[u].bot = b \/ b \in thr[u].todo => u = t
  BY <1>2, HolderOps DEF Holders
<1>4. Saving(t, b)
  BY <1>2, <1>3 DEF Saving
<1>5. /\ thr[t].row = [status |-> status[b], term |-> term[b]]
      /\ thr[t].op = "status" => status[b] = "running" /\ thr[t].pc # "save"
  BY DEF Consistent, SaveOK, On
<1>6. ~TearingDown(b)
  BY <1>2, <1>3 DEF TearingDown, Reconciling, Cleaning, Listed, On, Savers, Stoppers, Deleters
<1>7. status[b] = "running" => dep[b]
  BY <1>6 DEF Consistent, StatusOK
<1> QED BY <1>4, <1>5, <1>7

LEMMA StatusHandled ==
    ASSUME TypeOK, Sharing, AllConsistent, NEW t \in Threads, NEW r \in Possible(t),
           thr[t].op = "status",
           \/ /\ thr[t].pc = "probe"
              /\ Goto(t, IF Answered(r) /\ "own" \notin pods[BotOf(t)] THEN "lookup" ELSE "done")
              /\ UNCHANGED <<row, lapsed, k8s, jobs>>
           \/ thr[t].pc = "lookup" /\ DeploymentExists(t, r, "done", "save")
           \/ /\ thr[t].pc = "save"
              /\ UpdateBot(t, r, [thr[t].row EXCEPT !.status = "stopped"], "done", "done")
    PROVE  Handled(t)
<1> DEFINE c == BotOf(t)
<1> USE DEF Label, PC
<1>0. ThreadShape /\ thr[t].pc \notin {"idle", "next"} /\ thr[t].op \in Savers
  BY DEF Sharing, Savers
<1>1. c \in Orderly => r = "ok" /\ Answered(r) /\ dep[c] /\ thr[t].pc # "save"
  BY <1>0, ReliableAnswers, SaverFacts DEF AllConsistent, BotOf
<1>2. ASSUME NEW m \in {"lookup", "done", "save"}, Goto(t, m),
             UNCHANGED <<row, lapsed, k8s, jobs>>,
             c \in Orderly => \/ thr[t].pc = "probe" /\ m \in {"lookup", "done"}
                              \/ thr[t].pc = "lookup" /\ m = "done"
      PROVE  Handled(t)
  <2>1. /\ Elsewhere(t) /\ Done(t, m) /\ term'[c] = term[c]
        /\ SameDep(c) /\ SameSvc(c) /\ SameStatus(c)
    BY <1>0, <1>2, LookEffect
  <2>2. c \in Orderly => term'[c] >= term[c]
    BY <2>1, OrderlyOverlap, ConstantsOK DEF TypeOK, Term
  <2>3. c \in Orderly => SaveCall(t, c)
    BY <1>0, <1>2, <2>1, <2>2 DEF SaveCall, Done
  <2> QED BY <1>0, <2>1, <2>3 DEF Handled
<1>3. CASE thr[t].pc = "probe" /\ thr[t].pc # "lookup"
  BY <1>2, <1>3
<1>4. CASE thr[t].pc = "lookup"
  <2>1. DeploymentExists(t, r, "done", "save")
    BY <1>4
  <2> QED BY <1>1, <1>2, <1>4, <2>1 DEF DeploymentExists
<1>5. CASE thr[t].pc = "save"
  <2>1. UpdateBot(t, r, [thr[t].row EXCEPT !.status = "stopped"], "done", "done")
    BY <1>5
  <2>2. Elsewhere(t)
    BY <1>0, <2>1, SaveEffect
  <2> QED BY <1>0, <1>1, <1>5, <2>2 DEF Handled
<1> QED BY <1>3, <1>4, <1>5

LEMMA UpdateHandled ==
    ASSUME TypeOK, Sharing, AllConsistent, NEW t \in Threads, NEW r \in Possible(t),
           thr[t].op = "update", thr[t].pc = "save", NEW n \in thr[t].row.term .. MaxTerm,
           UpdateBot(t, r, [thr[t].row EXCEPT !.term = n], "done", "done")
    PROVE  Handled(t)
<1> DEFINE c == BotOf(t)
<1> USE DEF Label, PC
<1>0. ThreadShape /\ thr[t].pc \notin {"idle", "next"} /\ thr[t].op \in Savers
  BY DEF Sharing, Savers
<1>1. Elsewhere(t)
  BY <1>0, SaveEffect
<1>2. c \in Orderly => r = "ok" /\ thr[t].row = [status |-> status[c], term |-> term[c]]
  BY <1>0, ReliableAnswers, SaverFacts DEF AllConsistent, BotOf
<1>3. c \in Orderly => SaveCall(t, c)
  <2>1. r = "ok" => /\ Done(t, "done") /\ SameDep(c) /\ SameSvc(c)
                    /\ status'[c] = [thr[t].row EXCEPT !.term = n].status
                    /\ term'[c] = [thr[t].row EXCEPT !.term = n].term
    BY <1>0, SaveEffect
  <2>2. c \in Orderly => status'[c] = status[c] /\ term'[c] >= term[c]
    <3> SUFFICES ASSUME c \in Orderly
                 PROVE  status'[c] = status[c] /\ term'[c] >= term[c]
      OBVIOUS
    <3>1. thr[t].row.status = status[c] /\ thr[t].row.term = term[c] /\ r = "ok"
      BY <1>2
    <3>2. status'[c] = status[c] /\ term'[c] = n
      BY <1>2, <2>1, <3>1
    <3>3. term[c] \in Nat /\ n >= term[c]
      BY <3>1, OrderlyOverlap, ConstantsOK DEF TypeOK, Term
    <3> QED BY <3>2, <3>3
  <2> QED BY <1>0, <1>2, <2>1, <2>2 DEF SaveCall, Done, SameStatus
<1> QED BY <1>0, <1>1, <1>3 DEF Handled

\* An operation comes to some bots, or a row is inserted.
Joining ==
    /\ \A c \in Orderly : Joins(c)
    /\ \E b : \A c \in Orderly : c # b => status'[c] = status[c]

LEMMA JoiningKeeps ==
    ASSUME AllConsistent, Joining
    PROVE  AllConsistent'
<1> SUFFICES ASSUME NEW c \in Orderly PROVE Consistent(c)'
  BY DEF AllConsistent, Orderly
<1> QED BY JoinKeeps DEF AllConsistent, Joining

\* A running bot that may be restarted is not being torn down.
LEMMA RunningMayRestart ==
    ASSUME Sharing, NEW b \in Orderly, Consistent(b), NEW k \in Restarters,
           MayBegin(k, b), status[b] = "running"
    PROVE  dep[b]
<1> USE DEF Restarters, Stoppers, Deleters, UpOps, DownOps
<1>1. /\ ~Reconciling(b)
      /\ \A u \in Holders(b) : {thr[u].op, k} \subseteq Overlap[b]
      /\ Cleaning(b) => {k, "cleanup"} \subseteq Overlap[b]
  BY MayBeginOrderly
<1>2. \A j \in DownOps : ~({j, k} \subseteq Overlap[b])
  BY OrderlyOverlap
<1>3. ~Cleaning(b) /\ \A u \in Holders(b) : thr[u].op \notin Stoppers \cup Deleters
  BY <1>1, <1>2
<1>4. \A u \in Threads : thr[u].bot = b => thr[u].op \notin Stoppers \cup Deleters
  BY <1>3, HolderOps
<1>5. ~TearingDown(b)
  BY <1>1, <1>3, <1>4 DEF TearingDown, Reconciling, Cleaning, Listed, On
<1> QED BY <1>5 DEF Consistent, StatusOK

LEMMA AcceptJoins ==
    ASSUME TypeOK, Sharing, AllConsistent, NEW t \in Threads, NEW k, NEW b \in Bots, NEW l,
           Accept(t, k, b, l),
           \/ k \in {"start", "adminStart"} /\ l = "create"
           \/ k = "restart" /\ l = "roll" /\ status[b] = "running"
           \/ k \in Stoppers /\ l = "remove"
           \/ k \in Deleters /\ (l = "remove" \/ (l = "erase" /\ status[b] # "running"))
           \/ k = "status" /\ l = "probe" /\ status[b] = "running"
           \/ k = "update" /\ l = "save"
    PROVE  Joining
<1>0. /\ UNCHANGED <<status, term, lapsed, dep, svc, rpc, cpc>>
      /\ Present(b) /\ MayBegin(k, b) /\ thr[t].pc = "idle"
  BY DEF Accept, Enter, row, k8s, jobs
<1>1. /\ \A u \in Threads : u # t => thr'[u] = thr[u]
      /\ thr'[t] = [op |-> k, pc |-> l, bot |-> b, todo |-> {b}, row |-> Copy(k, b)]
  BY DEF Accept, Enter, TypeOK
<1>2. /\ thr'[t].op = k /\ thr'[t].pc = l /\ thr'[t].bot = b /\ thr'[t].todo = {b}
      /\ thr'[t].row = Copy(k, b)
  BY <1>1
<1>3. thr[t].bot = NoBot
  BY <1>0, IdleThread DEF Sharing, Idle
<1> SUFFICES ASSUME NEW c \in Orderly PROVE Joins(c) /\ (c # b => status'[c] = status[c])
  BY DEF Joining
<1>4. c \in Bots /\ Consistent(c) /\ c # NoBot
  BY OrderlyOverlap, ConstantsOK DEF AllConsistent
<1>5. Newcomer(t, c)
  <2>1. CASE c # b
    BY <1>2, <1>3, <1>4, <2>1 DEF Newcomer
  <2>2. CASE c = b
    <3>1. k \in Restarters => dep[c]
      BY <1>0, <1>4, <2>2, RunningMayRestart
            DEF Restarters, Stoppers, Deleters
    <3>2. k \in Savers => thr'[t].row = [status |-> status[b], term |-> term[b]]
      BY <1>2 DEF Copy, Savers
    <3> QED
      BY <1>0, <1>2, <1>3, <1>4, <2>2, <3>1, <3>2
         DEF Newcomer, Launchers, Restarters, Stoppers, Deleters, Savers, Present
  <2> QED BY <2>1, <2>2
<1>6. Joins(c)
  BY <1>0, <1>1, <1>5 DEF Joins
<1> QED BY <1>0, <1>6

LEMMA ProvisionJoins ==
    ASSUME TypeOK, Sharing, AllConsistent, NEW t \in Threads, NEW b \in Bots,
           NEW i \in Outcomes(b), InsertRow(b, i),
           IF Answered(i) THEN Enter(t, "provision", b, "create")
                          ELSE MayBegin("provision", b) /\ UNCHANGED thr,
           UNCHANGED <<lapsed, k8s, jobs>>
    PROVE  Joining
<1> SUFFICES ASSUME NEW c \in Orderly PROVE Joins(c) /\ (c # b => status'[c] = status[c])
  BY DEF Joining
<1>0. /\ UNCHANGED <<term, lapsed, dep, svc, rpc, cpc>> /\ status[b] = "none"
      /\ status' = IF Applied(i) THEN [status EXCEPT ![b] = "created"] ELSE status
  BY DEF InsertRow, k8s, jobs
<1>1. c \in Bots /\ c \in Reliable /\ Consistent(c) /\ c # NoBot
  BY OrderlyOverlap, ConstantsOK DEF AllConsistent, Orderly
<1>2. c = b => Answered(i) /\ Applied(i)
  BY <1>1 DEF Outcomes, Answered, Applied
<1>3. /\ \/ status'[c] = status[c]
         \/ status[c] = "none" /\ status'[c] = "created"
      /\ c # b => status'[c] = status[c]
  BY <1>0, <1>1 DEF TypeOK
<1>4. CASE ~Answered(i)
  BY <1>0, <1>1, <1>3, <1>4 DEF Joins
<1>5. CASE Answered(i)
  <2>1. /\ \A u \in Threads : u # t => thr'[u] = thr[u]
        /\ thr'[t].op = "provision" /\ thr'[t].pc = "create" /\ thr'[t].bot = b
        /\ thr'[t].todo = {b} /\ thr[t].pc = "idle"
    BY <1>5 DEF Enter, TypeOK
  <2>2. thr[t].bot = NoBot
    BY <2>1, IdleThread DEF Sharing, Idle
  <2>3. c = b => Present(c)'
    BY <1>0, <1>1, <1>2 DEF Present, BotStatus, TypeOK
  <2>4. Newcomer(t, c)
    BY <1>1, <2>1, <2>2, <2>3 DEF Newcomer, Launchers, Restarters, Stoppers, Deleters, Savers
  <2> QED BY <1>0, <1>1, <1>3, <2>1, <2>4 DEF Joins
<1> QED BY <1>4, <1>5

LEMMA CreateJoins ==
    ASSUME TypeOK, AllConsistent, NEW b \in Bots, NEW r, CreateBot(b, r)
    PROVE  Joining
<1> SUFFICES ASSUME NEW c \in Orderly PROVE Joins(c) /\ (c # b => status'[c] = status[c])
  BY DEF Joining
<1>1. /\ UNCHANGED <<term, lapsed, dep, svc, thr, rpc, cpc>> /\ status[b] = "none"
      /\ status' = IF Applied(r) THEN [status EXCEPT ![b] = "created"] ELSE status
  BY DEF CreateBot, InsertRow, k8s, jobs
<1>2. Consistent(c) /\ c \in Bots
  BY OrderlyOverlap DEF AllConsistent
<1>3. /\ \/ status'[c] = status[c]
         \/ status[c] = "none" /\ status'[c] = "created"
      /\ c # b => status'[c] = status[c]
  BY <1>1, <1>2 DEF TypeOK
<1> QED BY <1>1, <1>2, <1>3 DEF Joins

LEMMA RestartAllJoins ==
    ASSUME TypeOK, Sharing, AllConsistent, NEW t \in Threads, NEW bots \in SUBSET Bots,
           BeginsAll(t, bots), \A b \in bots : status[b] = "running",
           UNCHANGED <<row, lapsed, k8s, jobs>>
    PROVE  Joining
<1>0. status' = status
  BY DEF RestartNext, row
<1> SUFFICES ASSUME NEW c \in Orderly PROVE Joins(c)
  BY <1>0 DEF Joining
<1>1. UNCHANGED <<status, term, lapsed, dep, svc, rpc, cpc>>
  BY DEF row, k8s, jobs
<1>2. Consistent(c) /\ c \in Bots /\ c # NoBot
  BY OrderlyOverlap, ConstantsOK DEF AllConsistent
<1>3. /\ \A u \in Threads : u # t => thr'[u] = thr[u]
      /\ thr'[t].op = "restartAll" /\ thr'[t].pc = "next" /\ thr'[t].bot = NoBot
      /\ thr'[t].todo = bots /\ thr[t].pc = "idle"
  BY DEF BeginsAll, TypeOK
<1>4. thr[t].bot = NoBot
  BY <1>3, IdleThread DEF Sharing, Idle
<1>5. c \in bots => dep[c] /\ status[c] = "running"
  BY <1>2, RunningMayRestart DEF BeginsAll, Restarters
<1>6. Newcomer(t, c)
  BY <1>2, <1>3, <1>4, <1>5 DEF Newcomer
<1> QED BY <1>1, <1>2, <1>3, <1>6 DEF Joins

LEMMA NextBotJoins ==
    ASSUME TypeOK, AllConsistent, Sharing, NEW t \in Threads, RestartNext(t)
    PROVE  Joining
<1>0. status' = status
  BY DEF RestartNext, row
<1> SUFFICES ASSUME NEW c \in Orderly PROVE Joins(c)
  BY <1>0 DEF Joining
<1>1. UNCHANGED <<status, term, lapsed, dep, svc, rpc, cpc>>
  BY DEF RestartNext, row, k8s, jobs
<1>2. Consistent(c) /\ c \in Bots /\ c # NoBot
  BY OrderlyOverlap, ConstantsOK DEF AllConsistent
<1>3. PICK b \in thr[t].todo :
        thr' = [thr EXCEPT ![t] = [@ EXCEPT !.pc = "exists", !.bot = b]]
  BY DEF RestartNext
<1>4. /\ \A u \in Threads : u # t => thr'[u] = thr[u]
      /\ thr[t].op = "restartAll" /\ thr[t].pc = "next"
      /\ thr'[t].op = "restartAll" /\ thr'[t].pc = "exists" /\ thr'[t].todo = thr[t].todo
  <2>1. thr'[t] = [thr[t] EXCEPT !.pc = "exists", !.bot = b] /\ thr[t] \in Thread
    BY <1>3 DEF TypeOK
  <2> QED BY <1>3, <2>1 DEF Thread, RestartNext, At, TypeOK
<1>5. thr[t].bot = NoBot
  BY <1>4 DEF Sharing, ThreadShape, Idle
<1>6. c \in thr[t].todo => dep[c] /\ status[c] \in {"running", "starting", "error"}
  BY <1>2, <1>4 DEF Consistent, RestartOK, Holders, Restarters
<1>7. Newcomer(t, c)
  BY <1>2, <1>4, <1>5, <1>6
     DEF Newcomer, Launchers, Restarters, Stoppers, Deleters, Savers
<1> QED BY <1>1, <1>2, <1>4, <1>7 DEF Joins

\* A call of an operation under way, on an orderly bot or elsewhere.
LEMMA HandledKeeps ==
    ASSUME TypeOK, Sharing, Sharing', AllConsistent, NEW t \in Threads, Handled(t)
    PROVE  AllConsistent'
<1> SUFFICES ASSUME NEW b \in Orderly PROVE Consistent(b)'
  BY DEF AllConsistent, Orderly
<1>1. Consistent(b) /\ b \in Bots
  BY OrderlyOverlap DEF AllConsistent
<1>2. CASE b # BotOf(t)
  BY <1>1, <1>2, UntouchedKeeps DEF Handled, Elsewhere
<1>3. CASE b = BotOf(t)
  <2>1. t \in Holders(b) /\ thr[t].bot = b
    BY <1>3, HolderOps DEF BotOf
  <2>2. CASE UpCall(t, b)
    <3>1. thr[t].op \in Launchers \cup Restarters
      BY <2>2 DEF UpCall, LaunchCall, ReviveCall
    <3>2. BuildingUp(b)
      BY <2>1, <3>1, Company, HolderOps DEF BuildingUp, Holders
    <3> QED BY <1>1, <2>2, <3>2, UpKeeps
  <2>3. CASE DownCall(t, b)
    <3>1. thr[t].op \in Stoppers \cup Deleters
      BY <2>3 DEF DownCall
    <3>2. BringingDown(b)
      BY <2>1, <3>1, Company, HolderOps DEF BringingDown, Holders
    <3>3. \A u \in Threads : thr'[u].bot = b =>
            b \in thr'[u].todo /\ thr'[u].pc \in Route(thr'[u].op)
      BY <1>1, ConstantsOK DEF Sharing, ThreadShape, Idle
    <3>4. \A u \in Threads : b \in thr'[u].todo =>
            b \in thr[u].todo /\ thr'[u].op = thr[u].op
      BY <2>3 DEF DownCall, Call, MovesTo
    <3>5. ~Reconciling(b)'
      BY <2>3, <3>2 DEF BringingDown, Reconciling, DownCall, Call
    <3>6. BringingDown(b)'
      BY <3>2, <3>3, <3>4, <3>5 DEF BringingDown
    <3> QED BY <1>1, <2>3, <3>2, <3>6, DownKeeps
  <2>4. CASE SaveCall(t, b)
    <3>1. Saving(t, b)
      BY <1>1, <2>1, <2>4, SaverFacts DEF SaveCall
    <3> QED BY <1>1, <2>4, <3>1, SaveKeeps
  <2> QED BY <1>3, <2>2, <2>3, <2>4 DEF Handled
<1> QED BY <1>2, <1>3

\* A thread goes on with its operation, or takes one up.
LEMMA ThreadStepShape ==
    ASSUME TypeOK, Sharing, AllConsistent, NEW t \in Threads, NEW r \in Possible(t),
           ThreadStep(t, r)
    PROVE  Handled(t) \/ Joining
<1> USE DEF At
<1>1. CASE StartBot(t, r)
  <2>1. CASE \E b \in Bots : status[b] # "running" /\ Accept(t, "start", b, "create")
    BY <2>1, AcceptJoins
  <2>2. CASE Launch(t, "start", r, UpdateBotStatus(t, r, "running", "done", "done"))
    BY <2>2, LaunchHandled DEF Launchers
  <2> QED BY <1>1, <2>1, <2>2 DEF StartBot
<1>2. CASE AdminStartBot(t, r)
  <2>1. CASE \E b \in Bots : status[b] # "running" /\ Accept(t, "adminStart", b, "create")
    BY <2>1, AcceptJoins
  <2>2. CASE Launch(t, "adminStart", r, UpdateBotStatus(t, r, "starting", "await", "done"))
    BY <2>2, LaunchHandled DEF Launchers
  <2>3. CASE Waiter(t, "adminStart", r)
    BY <2>3, WaiterHandled
  <2> QED BY <1>2, <2>1, <2>2, <2>3 DEF AdminStartBot
<1>3. CASE ProvisionTelegramBot(t, r)
  <2>1. ASSUME NEW b \in Bots, NEW i \in Outcomes(b), InsertRow(b, i),
               IF Answered(i) THEN Enter(t, "provision", b, "create")
                              ELSE MayBegin("provision", b) /\ UNCHANGED thr,
               UNCHANGED <<lapsed, k8s, jobs>>
        PROVE  Handled(t) \/ Joining
    BY <2>1, ProvisionJoins
  <2>2. CASE Launch(t, "provision", r, UpdateBotStatus(t, r, "starting", "await", "done"))
    BY <2>2, LaunchHandled DEF Launchers
  <2>3. CASE Waiter(t, "provision", r)
    BY <2>3, WaiterHandled
  <2> QED BY <1>3, <2>1, <2>2, <2>3 DEF ProvisionTelegramBot
<1>4. ASSUME NEW k \in Stoppers, Stop(t, k, r)
      PROVE  Handled(t) \/ Joining
  <2>1. CASE \E b \in Bots : status[b] = "running" /\ Accept(t, k, b, "remove")
    BY <2>1, AcceptJoins
  <2>2. CASE ~(\E b \in Bots : status[b] = "running" /\ Accept(t, k, b, "remove"))
    BY <1>4, <2>2, RemoveHandled DEF Stop
  <2> QED BY <2>1, <2>2
<1>5. CASE DeleteBot(t, r)
  <2>1. CASE \E b \in Bots :
               Accept(t, "delete", b, IF status[b] = "running" THEN "remove" ELSE "erase")
    BY <2>1, AcceptJoins DEF Deleters
  <2>2. CASE At(t, "delete", "remove") /\ DeleteDeployment(t, r, "unexpose", "done")
    BY <2>2, RemoveHandled DEF Deleters
  <2>3. CASE At(t, "delete", "unexpose") /\ DeleteService(t, r, "erase", "done")
    BY <2>3, RemoveHandled DEF Deleters
  <2>4. CASE At(t, "delete", "erase") /\ RemoveRow(t, r, "done", "done")
    BY <2>4, RemoveHandled DEF Deleters
  <2> QED BY <1>5, <2>1, <2>2, <2>3, <2>4 DEF DeleteBot
<1>6. CASE AdminDeleteBot(t, r)
  <2>1. CASE \E b \in Bots :
               Accept(t, "adminDelete", b, IF status[b] = "running" THEN "remove" ELSE "erase")
    BY <2>1, AcceptJoins DEF Deleters
  <2>2. CASE At(t, "adminDelete", "remove") /\ DeleteDeployment(t, r, "unexpose", "unexpose")
    BY <2>2, RemoveHandled DEF Deleters
  <2>3. CASE At(t, "adminDelete", "unexpose") /\ DeleteService(t, r, "erase", "erase")
    BY <2>3, RemoveHandled DEF Deleters
  <2>4. CASE At(t, "adminDelete", "erase") /\ RemoveRow(t, r, "done", "done")
    BY <2>4, RemoveHandled DEF Deleters
  <2> QED BY <1>6, <2>1, <2>2, <2>3, <2>4 DEF AdminDeleteBot
<1>7. CASE RestartBot(t, r)
  <2>1. CASE \E b \in Bots : status[b] = "running" /\ Accept(t, "restart", b, "roll")
    BY <2>1, AcceptJoins
  <2>2. CASE Recreate(t, "restart", r)
    BY <2>2, RecreateHandled DEF Restarters
  <2> QED BY <1>7, <2>1, <2>2 DEF RestartBot
<1>8. CASE RestartAllBots(t, r)
  <2> DEFINE bots == {b \in Bots : status[b] = "running"}
  <2>1. CASE /\ thr[t].pc = "idle"
             /\ \A b \in bots : MayBegin("restartAll", b)
             /\ thr' = [thr EXCEPT ![t] = [op |-> "restartAll", pc |-> "next",
                                           bot |-> NoBot, todo |-> bots, row |-> NoRow]]
             /\ UNCHANGED <<row, lapsed, k8s, jobs>>
    <3>1. BeginsAll(t, bots) /\ bots \in SUBSET Bots /\ \A b \in bots : status[b] = "running"
      BY <2>1 DEF BeginsAll
    <3> HIDE DEF bots
    <3> QED BY <2>1, <3>1, RestartAllJoins
  <2>2. CASE At(t, "restartAll", "exists") /\ DeploymentExists(t, r, "roll", "done")
    <3> DEFINE m == IF Answered(r) /\ dep[BotOf(t)] THEN "roll" ELSE "done"
    <3>1. Goto(t, m) /\ UNCHANGED <<row, lapsed, k8s, jobs>> /\ m \in Label
          /\ ThreadShape /\ thr[t].pc \notin {"idle", "next"}
      BY <2>2 DEF DeploymentExists, Label, PC, Sharing
    <3>2. /\ Elsewhere(t) /\ Done(t, m) /\ term'[BotOf(t)] = term[BotOf(t)]
          /\ SameDep(BotOf(t)) /\ SameSvc(BotOf(t)) /\ SameStatus(BotOf(t))
      BY <3>1, LookEffect
    <3>3. BotOf(t) \in Orderly => UpCall(t, BotOf(t))
      BY <2>2, <3>2, RestartFacts DEF Restarters, UpCall, ReviveCall, Done
    <3> QED BY <3>1, <3>2, <3>3 DEF Handled
  <2>3. CASE Recreate(t, "restartAll", r)
    BY <2>3, RecreateHandled DEF Restarters
  <2> QED BY <1>8, <2>1, <2>2, <2>3 DEF RestartAllBots
<1>9. CASE GetBotStatus(t, r)
  <2>1. CASE \E b \in Bots : status[b] = "running" /\ Accept(t, "status", b, "probe")
    BY <2>1, AcceptJoins
  <2>2. CASE ~(\E b \in Bots : status[b] = "running" /\ Accept(t, "status", b, "probe"))
    BY <1>9, <2>2, StatusHandled DEF GetBotStatus
  <2> QED BY <2>1, <2>2
<1>10. CASE PutBot(t, r)
  <2>1. CASE \E b \in Bots : Accept(t, "update", b, "save")
    BY <2>1, AcceptJoins
  <2>2. ASSUME At(t, "update", "save"), NEW n \in thr[t].row.term .. MaxTerm,
               UpdateBot(t, r, [thr[t].row EXCEPT !.term = n], "done", "done")
        PROVE  Handled(t) \/ Joining
    BY <2>2, UpdateHandled
  <2> QED BY <1>10, <2>1, <2>2 DEF PutBot
<1> QED
  BY <1>1, <1>2, <1>3, <1>4, <1>5, <1>6, <1>7, <1>8, <1>9, <1>10
     DEF ThreadStep, StopBot, AdminStopBot, Stoppers

LEMMA ThreadStepConsistent ==
    ASSUME TypeOK, Sharing, Sharing', AllConsistent, NEW t \in Threads, NEW r \in Possible(t),
           ThreadStep(t, r)
    PROVE  AllConsistent'
BY ThreadStepShape, HandledKeeps, JoiningKeeps

LEMMA RecStepConsistent ==
    ASSUME TypeOK, Sharing, AllConsistent, NEW b \in Bots, NEW s \in Listed,
           NEW r \in Outcomes(b), RecStep(b, s, r)
    PROVE  AllConsistent'
<1> SUFFICES ASSUME NEW c \in Orderly PROVE Consistent(c)'
  BY DEF AllConsistent, Orderly
<1>1. Consistent(c) /\ c \in Bots /\ c \in Reliable
  BY OrderlyOverlap DEF AllConsistent, Orderly
<1>2. CASE c = b
  <2>1. r = "ok"
    BY <1>1, <1>2 DEF Outcomes
  <2> QED BY <1>1, <1>2, <2>1, RecKeeps
<1>3. CASE c # b
  <2>1. UNCHANGED <<term, lapsed, thr, cpc>>
    BY DEF RecStep
  <2>2. \E l : rpc' = [rpc EXCEPT ![b][s] = l]
    BY DEF RecStep, InspectActive, InspectInactive, RecWriteRow,
           RecDeleteDeployment, RecDeleteService, RecGoto
  <2>3. rpc'[c] = rpc[c]
    BY <1>1, <1>3, <2>2 DEF TypeOK
  <2>4. status' = status \/ \E x : status' = [status EXCEPT ![b] = x]
    BY DEF RecStep, InspectActive, InspectInactive, RecWriteRow, WriteStatus,
           RecDeleteDeployment, RecDeleteService
  <2>5. dep' = dep \/ dep' = [dep EXCEPT ![b] = FALSE]
    BY DEF RecStep, InspectActive, InspectInactive, RecWriteRow, RemoveDeployment,
           RecDeleteDeployment, RecDeleteService
  <2>6. svc' = svc \/ svc' = [svc EXCEPT ![b] = FALSE]
    BY DEF RecStep, InspectActive, InspectInactive, RecWriteRow,
           RecDeleteDeployment, RecDeleteService
  <2>7. SameData(c)
    BY <1>1, <1>3, <2>1, <2>3, <2>4, <2>5, <2>6 DEF SameData, TypeOK
  <2>8. SameThreads(c)
    BY <2>1 DEF SameThreads
  <2> QED BY <1>1, <2>7, <2>8, UntouchedKeeps
<1> QED BY <1>2, <1>3

\* The cleanup job works on an orderly bot alone or next to other removals.
LEMMA CleanStepDown ==
    ASSUME TypeOK, Sharing, NEW c \in Orderly, NEW r \in Outcomes(c), CleanStep(c, r)
    PROVE  BringingDown(c) /\ CleanDown(c) /\ UNCHANGED <<thr, rpc>>
<1>1. c \in Bots /\ c \in Reliable
  BY OrderlyOverlap DEF Orderly
<1>2. UNCHANGED <<term, lapsed, thr, rpc>> /\ cpc[c] # "none"
  BY DEF CleanStep, CleanDeleteDeployment, CleanDeleteService, CleanMark
<1>3. r = "ok"
  BY <1>1 DEF Outcomes
<1>4. CleanDown(c)
  <2>1. CASE CleanDeleteDeployment(c, "ok")
    BY <1>1, <1>2, <2>1 DEF CleanDeleteDeployment, RemoveDeployment, Applied, TypeOK,
         CleanDown, CleanCall, SameSvc, SameStatus
  <2>2. CASE CleanDeleteService(c, "ok")
    BY <1>1, <1>2, <2>2 DEF CleanDeleteService, Applied, TypeOK,
         CleanDown, CleanCall, SameDep, SameStatus
  <2>3. CASE CleanMark(c, "ok")
    BY <1>1, <1>2, <2>3 DEF CleanMark, WriteStatus, Applied, TypeOK,
         CleanDown, CleanCall, SameDep, SameSvc
  <2> QED BY <1>3, <2>1, <2>2, <2>3 DEF CleanStep
<1>5. /\ ~Reconciling(c)
      /\ \A u \in Holders(c) : {thr[u].op, "cleanup"} \subseteq Overlap[c]
  BY <1>2 DEF Sharing, Disciplined, Cleaning
<1>6. \A u \in Holders(c) : thr[u].op \in Stoppers \cup Deleters
  BY <1>5, OrderlyOverlap, HolderOps
     DEF Launchers, Restarters, Stoppers, Deleters, Savers, UpOps, DownOps
<1>7. BringingDown(c)
  BY <1>5, <1>6, HolderOps DEF BringingDown, Holders
<1> QED BY <1>2, <1>4, <1>7

LEMMA CleanStepConsistent ==
    ASSUME TypeOK, Sharing, Sharing', AllConsistent, NEW b \in Bots,
           NEW r \in Outcomes(b), CleanStep(b, r)
    PROVE  AllConsistent'
<1> SUFFICES ASSUME NEW c \in Orderly PROVE Consistent(c)'
  BY DEF AllConsistent, Orderly
<1>1. Consistent(c) /\ c \in Bots
  BY OrderlyOverlap DEF AllConsistent
<1>2. UNCHANGED <<term, lapsed, thr, rpc>>
  BY DEF CleanStep, CleanDeleteDeployment, CleanDeleteService, CleanMark
<1>3. CASE c = b
  <2>1. BringingDown(c) /\ CleanDown(c)
    BY <1>3, CleanStepDown
  <2>2. BringingDown(c)'
    BY <1>2, <2>1 DEF BringingDown, Reconciling
  <2> QED BY <1>1, <2>1, <2>2, DownKeeps
<1>4. CASE c # b
  <2>1. cpc'[c] = cpc[c]
    BY <1>1, <1>4 DEF CleanStep, CleanDeleteDeployment, CleanDeleteService, CleanMark, TypeOK
  <2>2. status'[c] = status[c] /\ dep'[c] = dep[c] /\ svc'[c] = svc[c]
    BY <1>1, <1>4 DEF CleanStep, CleanDeleteDeployment, CleanDeleteService, CleanMark,
                      WriteStatus, RemoveDeployment, TypeOK
  <2>3. SameData(c) /\ SameThreads(c)
    BY <1>2, <2>1, <2>2 DEF SameData, SameThreads
  <2> QED BY <1>1, <2>3, UntouchedKeeps
<1> QED BY <1>3, <1>4

LEMMA ReadListConsistent ==
    ASSUME TypeOK, Sharing, AllConsistent, ReadList
    PROVE  AllConsistent'
<1> SUFFICES ASSUME NEW c \in Orderly PROVE Consistent(c)'
  BY DEF AllConsistent, Orderly
<1>1. Consistent(c) /\ c \in Bots
  BY OrderlyOverlap DEF AllConsistent
<1>2. UNCHANGED <<status, term, lapsed, dep, svc, thr, cpc>>
  BY DEF ReadList, row, k8s
<1> DEFINE l == List[rq + 1]
<1> DEFINE hits == {b \in Bots : status[b] = l}
<1>3. /\ rpc' = [b \in Bots |-> IF b \in hits THEN [rpc[b] EXCEPT ![l] = "listed"] ELSE rpc[b]]
      /\ \A b \in hits : MayBegin("reconcile", b)
  BY DEF ReadList
<1>4. l \in Listed
  BY DEF ReadList, List, Listed, TypeOK
<1>5. c \in hits => status[c] = l
  OBVIOUS
<1> HIDE DEF l, hits
<1>6. CASE c \in hits
  <2>1. ~Reconciling(c) /\ ~Cleaning(c)
    BY <1>3, <1>6, MayBeginOrderly
  <2>2. rpc'[c] = [rpc[c] EXCEPT ![l] = "listed"] /\ rpc[c] \in [Listed -> RecPC]
    BY <1>1, <1>3, <1>6 DEF TypeOK
  <2>3. rpc'[c][l] = "listed" /\ \A s \in Listed : s # l => rpc'[c][s] = "none"
    BY <1>4, <2>1, <2>2 DEF Reconciling
  <2>4. ReconcileOK(c)'
    BY <1>2, <1>5, <1>6, <2>3 DEF ReconcileOK
  <2>5. CleanupOK(c)'
    BY <1>2, <2>1 DEF CleanupOK, Cleaning
  <2>6. TearingDown(c) => TearingDown(c)'
    BY <1>2, <2>1 DEF TearingDown, Reconciling, Listed, On
  <2> QED BY <1>1, <1>2, <2>4, <2>5, <2>6, JobBeginKeeps
<1>7. CASE c \notin hits
  <2>1. rpc'[c] = rpc[c]
    BY <1>1, <1>3, <1>7
  <2> QED BY <1>1, <1>2, <2>1, UntouchedKeeps DEF SameData, SameThreads
<1> QED BY <1>6, <1>7

LEMMA CleanupStartConsistent ==
    ASSUME TypeOK, Sharing, AllConsistent, CleanupStart
    PROVE  AllConsistent'
<1> SUFFICES ASSUME NEW c \in Orderly PROVE Consistent(c)'
  BY DEF AllConsistent, Orderly
<1>1. Consistent(c) /\ c \in Bots
  BY OrderlyOverlap DEF AllConsistent
<1>2. UNCHANGED <<status, term, lapsed, dep, svc, thr, rpc>> /\ cpc[c] = "none"
  BY <1>1 DEF CleanupStart, row, k8s
<1>3. PICK bots \in SUBSET Bots :
        /\ ListExpiredBots(bots)
        /\ \A b \in bots : MayBegin("cleanup", b)
        /\ cpc' = [b \in Bots |-> IF b \in bots THEN "reapDep" ELSE "none"]
  BY DEF CleanupStart
<1>4. cpc'[c] = IF c \in bots THEN "reapDep" ELSE "none"
  BY <1>1, <1>3
<1>5. c \in bots => Expired(c) /\ ~Reconciling(c)
  BY <1>1, <1>3, MayBeginOrderly DEF ListExpiredBots
<1>6. CleanupOK(c)'
  BY <1>2, <1>4, <1>5 DEF CleanupOK, Expired
<1>7. ReconcileOK(c)'
  BY <1>1, <1>2 DEF Consistent, ReconcileOK
<1>8. TearingDown(c) => TearingDown(c)'
  BY <1>2 DEF TearingDown, On
<1> QED BY <1>1, <1>2, <1>6, <1>7, <1>8, JobBeginKeeps

\* Steps that do not concern any orderly bot.
LEMMA QuietConsistent ==
    ASSUME TypeOK, Sharing, AllConsistent,
           UNCHANGED <<status, term, lapsed, dep, svc>>,
           \/ UNCHANGED <<thr, rpc, cpc>>
           \/ RecKilled \/ CleanKilled \/ ServerCrash
    PROVE  AllConsistent'
<1> SUFFICES ASSUME NEW c \in Orderly PROVE Consistent(c)'
  BY DEF AllConsistent, Orderly
<1>1. Consistent(c) /\ c \in Bots /\ c \in Reliable /\ c # NoBot
  BY OrderlyOverlap, ConstantsOK DEF AllConsistent, Orderly
<1>2. CASE UNCHANGED <<thr, rpc, cpc>>
  BY <1>1, <1>2, UntouchedKeeps DEF SameData, SameThreads
<1>3. CASE RecKilled
  <2>1. UNCHANGED <<thr, cpc>> /\ rpc' = NoRecWork /\ ~Reconciling(c)
    BY <1>1, <1>3 DEF RecKilled
  <2>2. rpc[c] \in [Listed -> RecPC] /\ \A s \in Listed : rpc[c][s] = "none"
    BY <1>1, <2>1 DEF TypeOK, Reconciling
  <2>3. rpc'[c] = rpc[c]
    BY <1>1, <2>1, <2>2 DEF NoRecWork
  <2> QED BY <1>1, <2>1, <2>3, UntouchedKeeps DEF SameData, SameThreads
<1>4. CASE CleanKilled
  <2>1. UNCHANGED <<thr, rpc>> /\ cpc'[c] = cpc[c]
    BY <1>1, <1>4 DEF CleanKilled, Cleaning
  <2> QED BY <1>1, <2>1, UntouchedKeeps DEF SameData, SameThreads
<1>5. CASE ServerCrash
  <2>1. UNCHANGED <<rpc, cpc>> /\ Holders(c) = {} /\ \A u \in Threads : thr'[u] = Idle
    BY <1>1, <1>5 DEF ServerCrash, jobs
  <2>2. Idle.todo = {} /\ Idle.bot = NoBot
    BY DEF Idle
  <2>3. \A u \in Threads : thr[u].bot # c /\ c \notin thr[u].todo
    BY <2>1, HolderOps DEF Holders
  <2>4. SameThreads(c)
    BY <1>1, <2>1, <2>2, <2>3 DEF SameThreads
  <2> QED BY <1>1, <2>1, <2>4, UntouchedKeeps DEF SameData
<1> QED BY <1>2, <1>3, <1>4, <1>5

LEMMA TermEndsConsistent ==
    ASSUME TypeOK, AllConsistent, NEW b \in Bots, TermEnds(b)
    PROVE  AllConsistent'
<1> SUFFICES ASSUME NEW c \in Orderly PROVE Consistent(c)'
  BY DEF AllConsistent, Orderly
<1>1. Consistent(c) /\ c \in Bots
  BY OrderlyOverlap DEF AllConsistent
<1>2. UNCHANGED <<status, term, dep, svc, thr, rpc, cpc>>
  BY DEF TermEnds, row, k8s, jobs
<1>3. Expired(c) => Expired(c)'
  BY <1>1, <1>2, ConstantsOK DEF TermEnds, Expired, TypeOK, Term
<1>4. CleanupOK(c)' /\ ReconcileOK(c)'
  BY <1>1, <1>2, <1>3 DEF Consistent, CleanupOK, ReconcileOK
<1>5. TearingDown(c) => TearingDown(c)'
  BY <1>2 DEF TearingDown, On
<1> QED BY <1>1, <1>2, <1>4, <1>5, JobBeginKeeps

\* What is known of an orderly bot is kept by every step.
LEMMA ConsistentStep ==
    ASSUME TypeOK, Sharing, Sharing', AllConsistent, [Next]_vars
    PROVE  AllConsistent'
<1>1. CASE \E t \in Threads : \E r \in Possible(t) : ThreadStep(t, r)
  BY <1>1, ThreadStepConsistent
<1>2. CASE \E t \in Threads : RestartNext(t)
  BY <1>2, NextBotJoins, JoiningKeeps
<1>3. ASSUME NEW b \in Bots, NEW r \in Outcomes(b), CreateBot(b, r) \/ CleanStep(b, r)
      PROVE  AllConsistent'
  BY <1>3, CreateJoins, JoiningKeeps, CleanStepConsistent
<1>4. CASE \E b \in Bots, s \in Listed : \E r \in Outcomes(b) : RecStep(b, s, r)
  BY <1>4, RecStepConsistent
<1>5. CASE ReadList
  BY <1>5, ReadListConsistent
<1>6. CASE CleanupStart
  BY <1>6, CleanupStartConsistent
<1>7. CASE \E b \in Bots : TermEnds(b)
  BY <1>7, TermEndsConsistent
<1>8. CASE ReadListFails \/ RecDone \/ RecKilled \/ CleanKilled \/ ServerCrash
  BY <1>8, QuietConsistent
     DEF ReadListFails, RecDone, RecKilled, CleanKilled, ServerCrash, row, k8s, jobs
<1>9. CASE \E b \in Bots : PodChange(b) \/ StartingTimeout(b)
  BY <1>9, QuietConsistent DEF PodChange, StartingTimeout, row, k8s, jobs
<1>10. CASE UNCHANGED vars
  BY <1>10, QuietConsistent DEF vars
<1> QED
  BY <1>1, <1>2, <1>3, <1>4, <1>5, <1>6, <1>7, <1>8, <1>9, <1>10 DEF Next

LEMMA InitInv ==
    ASSUME Init
    PROVE  Sharing /\ AllConsistent
<1>1. \A t \in Threads : thr[t] = Idle
  BY DEF Init
<1>2. Idle.todo = {} /\ Idle.bot = NoBot /\ Idle.pc = "idle"
  BY DEF Idle
<1>3. \A b \in Bots : /\ status[b] = "none" /\ ~dep[b] /\ ~svc[b] /\ cpc[b] = "none"
                      /\ \A s \in Listed : rpc[b][s] = "none"
  BY DEF Init, NoRecWork
<1>4. ThreadShape
  BY <1>1 DEF ThreadShape
<1>5. ASSUME NEW b \in Orderly PROVE Disciplined(b) /\ Consistent(b)
  <2>1. b \in Bots /\ b # NoBot
    BY OrderlyOverlap, ConstantsOK
  <2>2. Holders(b) = {} /\ \A t \in Threads : ~On(t, b)
    BY <1>1, <1>2, <2>1 DEF Holders, On
  <2>3. Disciplined(b)
    BY <1>3, <2>1, <2>2 DEF Disciplined, Reconciling, Cleaning
  <2>4. LaunchOK(b) /\ RestartOK(b) /\ StopOK(b) /\ SaveOK(b)
    BY <2>2 DEF LaunchOK, RestartOK, StopOK, SaveOK
  <2>5. ReconcileOK(b) /\ CleanupOK(b)
    BY <1>3, <2>1 DEF ReconcileOK, CleanupOK
  <2>6. StatusOK(b)
    BY <1>3, <2>1 DEF StatusOK, Bare
  <2> QED BY <2>3, <2>4, <2>5, <2>6 DEF Consistent
<1> QED BY <1>4, <1>5 DEF Sharing, AllConsistent

\* Inv is an inductive invariant: whatever the number of bots and threads, the
\* handlers and jobs keep row and cluster of an orderly bot together.
THEOREM InvHolds == Spec => []Inv
<1>1. Init => Sharing /\ AllConsistent
  BY InitInv
<1>2. TypeOK /\ Sharing /\ AllConsistent /\ [Next]_vars => Sharing' /\ AllConsistent'
  BY SharingStep, ConsistentStep
<1>3. TypeOK /\ Sharing /\ AllConsistent => Inv
  BY DEF Inv, AllConsistent
<1> QED
  BY <1>1, <1>2, <1>3, TypeCorrect, PTL DEF Spec

\* A bot on which nothing works, and whose row says so, is as its row says.
LEMMA InvSettled == Inv => Settled
<1> SUFFICES ASSUME Inv, NEW b \in Orderly, Resting(b)
             PROVE  /\ status[b] = "running" => Equipped(b)
                    /\ status[b] \in {"none", "created", "stopped", "deleted"} => Bare(b)
                    /\ status[b] # "starting"
  BY DEF Settled
<1>1. Sharing /\ StatusOK(b)
  BY DEF Inv, Consistent
<1>2. Holders(b) = {} /\ ~Reconciling(b) /\ ~Cleaning(b)
  BY DEF Resting, Working
<1>3. \A t \in Threads : thr[t].bot # b
  BY <1>1, <1>2, HolderOps
<1>4. ~Reviving(b) /\ ~Launching(b) /\ ~Awaited(b)
  BY <1>3 DEF Reviving, Launching, Awaited, On
<1>5. ~TearingDown(b)
  BY <1>2, <1>3 DEF TearingDown, On, Reconciling, Cleaning, Listed
<1> QED BY <1>1, <1>4, <1>5 DEF StatusOK, Equipped

\* Whenever nothing works on an orderly bot, its row tells the truth about
\* Kubernetes (all handlers and both jobs together).
THEOREM SettledHolds == Spec => []Settled
BY InvHolds, InvSettled, PTL

(***************************************************************************)
(* The contract                                                            *)
(***************************************************************************)
Held(b) == dep[b] \/ svc[b]

SameHeld(b) == Held(b)' = Held(b)

\* The steps of BotContract, for one bot, in the variables of BotLifecycle.
Kept(b)       == SameStatus(b) /\ SameHeld(b)
Registered(b) == status[b] = "none" /\ status'[b] = "created" /\ SameHeld(b)
Acquired(b)   == /\ status[b] \in {"created", "stopped", "deleted", "error"}
                 /\ Held(b)' /\ SameStatus(b)
Announced(b)  == /\ Present(b) /\ Held(b) /\ SameHeld(b)
                 /\ status'[b] \in {"starting", "running"}
GivenUp(b)    == /\ status[b] \in {"starting", "running"} /\ Held(b) /\ SameHeld(b)
                 /\ status'[b] = "error"
Released(b)   == /\ status[b] \in {"running", "error", "gone"} /\ Held(b)
                 /\ ~Held(b)' /\ SameStatus(b)
Retired(b)    == /\ Present(b) /\ ~Held(b) /\ SameHeld(b)
                 /\ status'[b] \in {"stopped", "deleted"}
Removed(b)    == /\ Present(b) /\ SameHeld(b)
                 /\ Held(b) => status[b] = "error"
                 /\ status'[b] = "gone"

LocalStep(b) ==
    \/ Kept(b) \/ Registered(b) \/ Acquired(b) \/ Announced(b)
    \/ GivenUp(b) \/ Released(b) \/ Retired(b) \/ Removed(b)

\* One bot moves, the other orderly ones keep still.
ContractStep ==
    \E b : /\ b \in Orderly => LocalStep(b)
           /\ \A c \in Orderly : c # b => Kept(c)

\* An orderly bot that is being built up and is not down holds its Deployment.
LEMMA UpHeld ==
    ASSUME TypeOK, NEW b \in Bots, BuildingUp(b), Consistent(b)
    PROVE  status[b] \in {"running", "starting"} => dep[b]
<1>1. ASSUME NEW u \in Threads, thr[u].bot = b, thr[u].pc # "create"
      PROVE  dep[b]
  <2>1. thr[u].op \in Launchers \cup Restarters /\ u \in Holders(b)
    BY <1>1 DEF BuildingUp, Holders
  <2> QED BY <1>1, <2>1 DEF Consistent, LaunchOK, RestartOK, On
<1>2. ~TearingDown(b)
  <2>1. cpc[b] = "none" /\ rpc[b]["running"] = "none"
    BY DEF BuildingUp, Cleaning, Reconciling, Listed
  <2>2. \A u \in Threads : thr[u].bot = b => thr[u].op \notin Stoppers \cup Deleters
    BY DEF BuildingUp, Launchers, Restarters, Stoppers, Deleters
  <2> QED BY <2>1, <2>2 DEF TearingDown, On
<1>3. Awaited(b) => dep[b]
  BY <1>1 DEF Awaited, On
<1> QED BY <1>2, <1>3 DEF Consistent, StatusOK

\* On the way up: resources first, the row second.
LEMMA UpLocal ==
    ASSUME TypeOK, NEW b \in Bots, BuildingUp(b), Consistent(b),
           NEW t \in Threads, UpCall(t, b)
    PROVE  LocalStep(b)
<1> USE DEF SameDep, SameSvc, SameStatus, SameHeld, Held, Call
<1>1. thr[t].bot = b /\ t \in Holders(b)
  BY DEF UpCall, LaunchCall, ReviveCall, BuildingUp, Holders
<1>2. CASE LaunchCall(t, b)
  <2>1. /\ Present(b)
        /\ thr[t].pc # "create" => dep[b]
        /\ thr[t].pc = "giveup" => status[b] \in {"running", "starting", "error"}
    BY <1>1, <1>2 DEF Consistent, LaunchOK, On, LaunchCall
  <2>2. CASE thr[t].pc \in {"create", "replace", "expose", "await"}
    <3>1. SameStatus(b) /\ (SameHeld(b) \/ Held(b)')
      BY <1>2, <2>1, <2>2 DEF LaunchCall
    <3>2. Held(b) => SameHeld(b)
      BY <1>2, <2>1, <2>2 DEF LaunchCall
    <3>3. ~Held(b) => status[b] \in {"created", "stopped", "deleted", "error"}
      BY <2>1, UpHeld DEF Present, BotStatus
    <3> QED BY <3>1, <3>2, <3>3 DEF LocalStep, Kept, Acquired
  <2>3. CASE thr[t].pc \in {"mark", "arrived"}
    BY <1>2, <2>1, <2>3 DEF LaunchCall, LocalStep, Announced
  <2>4. CASE thr[t].pc = "giveup"
    BY <1>2, <2>1, <2>4 DEF LaunchCall, LocalStep, GivenUp, Kept
  <2> QED BY <1>2, <2>2, <2>3, <2>4 DEF LaunchCall
<1>3. CASE ReviveCall(t, b)
  <2>1. dep[b] /\ status[b] \in {"running", "starting", "error"}
    BY <1>1, <1>3 DEF Consistent, RestartOK, ReviveCall
  <2>2. Present(b)
    BY <2>1 DEF Present, BotStatus
  <2> QED BY <1>3, <2>1, <2>2 DEF ReviveCall, LocalStep, Kept, Announced
<1> QED BY <1>2, <1>3 DEF UpCall

\* What an orderly bot that is being brought down may still hold.
LEMMA DownHeld ==
    ASSUME TypeOK, NEW b \in Bots, BringingDown(b), Consistent(b), Held(b)
    PROVE  status[b] \in {"running", "error", "gone"}
<1>1. status[b] \in RowStatus
  BY DEF TypeOK
<1>2. ~Launching(b) /\ ~Awaited(b)
  BY DownShape
<1> QED BY <1>1, <1>2 DEF Consistent, StatusOK, Bare, Held, RowStatus, BotStatus

\* On the way down: resources first, the row second.
LEMMA DownLocal ==
    ASSUME TypeOK, NEW b \in Bots, BringingDown(b), Consistent(b),
           \/ \E t \in Threads : DownCall(t, b)
           \/ CleanDown(b)
    PROVE  LocalStep(b)
<1> USE DEF SameDep, SameSvc, SameStatus, SameHeld, Held
<1>0. dep[b] \in BOOLEAN /\ svc[b] \in BOOLEAN /\ status[b] \in RowStatus
  BY DEF TypeOK
<1>1. ASSUME SameStatus(b), Held(b)' => Held(b)
      PROVE  LocalStep(b)
  BY <1>1, DownHeld DEF LocalStep, Kept, Released
<1>2. ASSUME NEW t \in Threads, DownCall(t, b)
      PROVE  LocalStep(b)
  <2>1. /\ status[b] # "none"
        /\ thr[t].pc = "mark" => Bare(b)
        /\ thr[t].pc = "erase" /\ status[b] = "running" => Bare(b)
    BY <1>2 DEF Consistent, StopOK, On, DownCall, Call
  <2>2. CASE thr[t].pc \in {"remove", "unexpose"}
    BY <1>1, <1>2, <2>2 DEF DownCall, Call
  <2>3. CASE thr[t].pc = "mark"
    BY <1>2, <2>1, <2>3 DEF DownCall, Call, Bare, LocalStep, Kept, Retired
  <2>4. CASE thr[t].pc = "erase"
    <3>1. status'[b] = "gone" /\ SameHeld(b)
      BY <1>2, <2>4 DEF DownCall, Call
    <3>2. CASE status[b] = "gone"
      BY <3>1, <3>2 DEF LocalStep, Kept
    <3>3. CASE status[b] # "gone"
      <4>1. Present(b)
        BY <1>0, <2>1, <3>3 DEF RowStatus, Present
      <4>2. Held(b) => status[b] = "error"
        BY <2>1, <2>4, <3>3, DownHeld DEF Bare
      <4> QED BY <3>1, <4>1, <4>2 DEF LocalStep, Removed
    <3> QED BY <3>2, <3>3
  <2> QED BY <1>2, <2>2, <2>3, <2>4 DEF DownCall, Call
<1>3. CASE CleanDown(b)
  <2>1. cpc[b] = "mark" => Bare(b)
    BY DEF Consistent, CleanupOK, Bare
  <2>2. CASE cpc[b] # "mark"
    BY <1>1, <1>3, <2>2 DEF CleanDown, CleanCall
  <2>3. CASE cpc[b] = "mark"
    BY <1>3, <2>1, <2>3 DEF CleanDown, CleanCall, Bare, LocalStep, Kept, Retired
  <2> QED BY <2>2, <2>3
<1> QED BY <1>2, <1>3

LEMMA HandledContract ==
    ASSUME TypeOK, Sharing, AllConsistent, NEW t \in Threads, Handled(t)
    PROVE  ContractStep
<1>1. ASSUME NEW b \in Orderly, b # BotOf(t) PROVE Kept(b)
  BY <1>1, OrderlyOverlap
     DEF Handled, Elsewhere, SameData, Kept, SameStatus, SameHeld, Held
<1>2. ASSUME NEW b \in Orderly, b = BotOf(t) PROVE LocalStep(b)
  <2>0. b \in Bots /\ Consistent(b) /\ t \in Holders(b) /\ thr[t].bot = b
    BY <1>2, OrderlyOverlap, HolderOps DEF AllConsistent, BotOf
  <2>1. CASE UpCall(t, b)
    <3>1. thr[t].op \in Launchers \cup Restarters
      BY <2>1 DEF UpCall, LaunchCall, ReviveCall
    <3>2. BuildingUp(b)
      BY <1>2, <2>0, <3>1, Company, HolderOps DEF BuildingUp, Holders
    <3> QED BY <2>0, <2>1, <3>2, UpLocal
  <2>2. CASE DownCall(t, b)
    <3>1. thr[t].op \in Stoppers \cup Deleters
      BY <2>2 DEF DownCall
    <3>2. BringingDown(b)
      BY <1>2, <2>0, <3>1, Company, HolderOps DEF BringingDown, Holders
    <3> QED BY <2>0, <2>2, <3>2, DownLocal
  <2>3. CASE SaveCall(t, b)
    BY <2>3 DEF SaveCall, LocalStep, Kept, SameHeld, Held, SameDep, SameSvc
  <2> QED BY <1>2, <2>1, <2>2, <2>3 DEF Handled
<1>3. \E b : b = BotOf(t)
  OBVIOUS
<1> QED BY <1>1, <1>2, <1>3 DEF ContractStep

LEMMA JoiningContract ==
    ASSUME Joining
    PROVE  ContractStep
<1>1. PICK b : \A c \in Orderly : c # b => status'[c] = status[c]
  BY DEF Joining
<1>2. \A c \in Orderly : SameHeld(c) /\ (SameStatus(c) \/ Registered(c))
  BY DEF Joining, Joins, SameHeld, Held, SameStatus, Registered
<1>3. \A c \in Orderly : LocalStep(c)
  BY <1>2 DEF LocalStep, Kept
<1> QED BY <1>1, <1>2, <1>3 DEF ContractStep, Kept, SameStatus

\* A goroutine of the reconcile job releases before it reports.
LEMMA RecContract ==
    ASSUME TypeOK, Sharing, AllConsistent, NEW b \in Bots, NEW s \in Listed,
           NEW r \in Outcomes(b), RecStep(b, s, r)
    PROVE  ContractStep
<1> USE DEF SameHeld, Held, SameStatus
<1>1. ASSUME NEW c \in Orderly, c # b PROVE Kept(c)
  <2>1. c \in Bots
    BY OrderlyOverlap
  <2>2. /\ status' = status \/ \E x : status' = [status EXCEPT ![b] = x]
        /\ dep' = dep \/ dep' = [dep EXCEPT ![b] = FALSE]
        /\ svc' = svc \/ svc' = [svc EXCEPT ![b] = FALSE]
    BY DEF RecStep, InspectActive, InspectInactive, RecWriteRow, WriteStatus,
           RemoveDeployment, RecDeleteDeployment, RecDeleteService
  <2> QED BY <1>1, <2>1, <2>2 DEF Kept, TypeOK
<1>2. ASSUME b \in Orderly PROVE LocalStep(b)
  <2>0. r = "ok" /\ Consistent(b)
    BY <1>2 DEF Outcomes, Orderly, AllConsistent
  <2>1. rpc[b][s] # "none"
    BY DEF RecStep, InspectActive, InspectInactive, RecWriteRow,
           RecDeleteDeployment, RecDeleteService
  <2>2. /\ status[b] = s
        /\ rpc[b][s] \in {"listed", "reapDep", "reapSvc", "reapRow"}
        /\ rpc[b][s] = "reapRow" => ~dep[b] /\ ~svc[b] /\ s \in Active
    BY <2>0, <2>1 DEF Consistent, ReconcileOK
  <2>3. ~Launching(b) /\ ~Awaited(b)
    <3>1. Holders(b) = {}
      BY <1>2, <2>1 DEF Sharing, Disciplined, Reconciling
    <3>2. \A u \in Threads : thr[u].bot # b
      BY <1>2, <3>1, HolderOps
    <3> QED BY <3>2 DEF Launching, Awaited, On
  <2>4. s # "starting" /\ (Held(b) => s \in {"running", "error"})
    BY <2>0, <2>2, <2>3 DEF Consistent, StatusOK, Bare, Listed
  <2>5. dep[b] \in BOOLEAN /\ svc[b] \in BOOLEAN
    BY DEF TypeOK
  <2>6. ASSUME SameStatus(b), Held(b)' => Held(b)
        PROVE  LocalStep(b)
    BY <2>2, <2>4, <2>6 DEF LocalStep, Kept, Released
  <2>7. CASE InspectActive(b, s, r) \/ InspectInactive(b, s, r)
    BY <2>6, <2>7 DEF InspectActive, InspectInactive
  <2>8. CASE RecDeleteDeployment(b, s, r)
    BY <2>0, <2>6, <2>8 DEF RecDeleteDeployment, RemoveDeployment, Applied, TypeOK
  <2>9. CASE RecDeleteService(b, s, r)
    BY <2>0, <2>6, <2>9 DEF RecDeleteService, Applied, TypeOK
  <2>10. CASE RecWriteRow(b, s, r)
    <3>1. rpc[b][s] = "reapRow" /\ s = "running"
      BY <2>2, <2>4, <2>10 DEF RecWriteRow, Active
    <3>2. Present(b)
      BY <2>2, <3>1 DEF Present, BotStatus
    <3>3. status'[b] = "stopped" /\ dep' = dep /\ svc' = svc
      BY <2>0, <2>10, <3>1, <3>2 DEF RecWriteRow, WriteStatus, RecVerdict, Applied, TypeOK
    <3> QED BY <2>2, <3>1, <3>2, <3>3 DEF LocalStep, Retired
  <2> QED BY <2>7, <2>8, <2>9, <2>10 DEF RecStep
<1> QED BY <1>1, <1>2 DEF ContractStep

LEMMA CleanContract ==
    ASSUME TypeOK, Sharing, AllConsistent, NEW b \in Bots,
           NEW r \in Outcomes(b), CleanStep(b, r)
    PROVE  ContractStep
<1>1. ASSUME NEW c \in Orderly, c # b PROVE Kept(c)
  <2>1. c \in Bots
    BY OrderlyOverlap
  <2> QED BY <1>1, <2>1
          DEF CleanStep, CleanDeleteDeployment, CleanDeleteService, CleanMark,
              WriteStatus, RemoveDeployment, TypeOK, Kept, SameStatus, SameHeld, Held
<1>2. ASSUME b \in Orderly PROVE LocalStep(b)
  <2>1. Consistent(b)
    BY <1>2 DEF AllConsistent
  <2> QED BY <1>2, <2>1, CleanStepDown, DownLocal
<1> QED BY <1>1, <1>2 DEF ContractStep

\* Every step is a step of the contract, for one orderly bot or for none.
LEMMA EveryContractStep ==
    ASSUME TypeOK, Sharing, AllConsistent, [Next]_vars
    PROVE  ContractStep
<1>0. ASSUME UNCHANGED <<status, dep, svc>> PROVE ContractStep
  BY <1>0 DEF ContractStep, LocalStep, Kept, SameStatus, SameHeld, Held
<1>1. CASE \E t \in Threads : \E r \in Possible(t) : ThreadStep(t, r)
  BY <1>1, ThreadStepShape, HandledContract, JoiningContract
<1>2. CASE \E t \in Threads : RestartNext(t)
  BY <1>2, NextBotJoins, JoiningContract
<1>3. ASSUME NEW b \in Bots, NEW r \in Outcomes(b), CreateBot(b, r) \/ CleanStep(b, r)
      PROVE  ContractStep
  BY <1>3, CreateJoins, JoiningContract, CleanContract
<1>4. CASE \E b \in Bots, s \in Listed : \E r \in Outcomes(b) : RecStep(b, s, r)
  BY <1>4, RecContract
<1>5. CASE ReadList \/ ReadListFails \/ RecDone \/ RecKilled \/ CleanupStart \/ CleanKilled
  BY <1>0, <1>5
     DEF ReadList, ReadListFails, RecDone, RecKilled, CleanupStart, CleanKilled, row, k8s
<1>6. CASE \E b \in Bots : PodChange(b) \/ TermEnds(b) \/ StartingTimeout(b)
  BY <1>0, <1>6 DEF PodChange, TermEnds, StartingTimeout, row, k8s
<1>7. CASE ServerCrash \/ UNCHANGED vars
  BY <1>0, <1>7 DEF ServerCrash, row, k8s, vars
<1> QED
  BY <1>1, <1>2, <1>3, <1>4, <1>5, <1>6, <1>7 DEF Next


\* A step of one orderly bot is a step of the contract.
LEMMA ContractMaps ==
    ASSUME TypeOK, TypeOK', ContractStep
    PROVE  [Contract!Next]_<<[b \in Orderly |-> status[b]],
                             [b \in Orderly |-> dep[b] \/ svc[b]]>>
<1> DEFINE phase == [b \in Orderly |-> status[b]]
           held  == [b \in Orderly |-> dep[b] \/ svc[b]]
<1> USE DEF SameStatus, SameHeld, Held
<1>1. PICK b : /\ b \in Orderly => LocalStep(b)
               /\ \A c \in Orderly : c # b => Kept(c)
  BY DEF ContractStep
<1>2. CASE \A c \in Orderly : Kept(c)
  <2>1. phase' = phase /\ held' = held
    BY <1>2 DEF Kept
  <2> QED BY <2>1
<1>3. CASE b \in Orderly /\ ~Kept(b)
  <2>1. phase' = [phase EXCEPT ![b] = status'[b]]
    BY <1>1, <1>3 DEF Kept
  <2>2. held' = [held EXCEPT ![b] = (dep[b] \/ svc[b])']
    BY <1>1, <1>3 DEF Kept
  <2>3. phase[b] = status[b] /\ held[b] = (dep[b] \/ svc[b])
    BY <1>3
  <2>4. SameStatus(b) => phase' = phase
    BY <1>1, <1>3, <2>1, <2>3
  <2>5. SameHeld(b) => held' = held
    BY <1>1, <1>3, <2>2, <2>3
  <2> HIDE DEF phase, held
  <2>6. CASE Registered(b)
    BY <1>3, <2>1, <2>3, <2>5, <2>6 DEF Registered, Contract!Next, Contract!Register, phase, held
  <2>7. CASE Acquired(b)
    BY <1>3, <2>2, <2>3, <2>4, <2>7
       DEF Acquired, Contract!Next, Contract!Acquire, Contract!Down, phase, held
  <2>8. CASE Announced(b)
    BY <1>3, <2>1, <2>3, <2>5, <2>8
       DEF Announced, Present, BotStatus, Contract!Next, Contract!Announce, Contract!Known, phase, held
  <2>9. CASE GivenUp(b)
    BY <1>3, <2>1, <2>3, <2>5, <2>9
       DEF GivenUp, Contract!Next, Contract!GiveUp, phase, held
  <2>10. CASE Released(b)
    BY <1>3, <2>2, <2>3, <2>4, <2>10
       DEF Released, Contract!Next, Contract!Release, phase, held
  <2>11. CASE Retired(b)
    BY <1>3, <2>1, <2>3, <2>5, <2>11
       DEF Retired, Present, BotStatus, Contract!Next, Contract!Retire, Contract!Known, phase, held
  <2>12. CASE Removed(b)
    BY <1>3, <2>1, <2>3, <2>5, <2>12
       DEF Removed, Present, BotStatus, Contract!Next, Contract!Remove, Contract!Known, phase, held
  <2> QED
    BY <1>1, <1>3, <2>6, <2>7, <2>8, <2>9, <2>10, <2>11, <2>12 DEF LocalStep
<1> QED BY <1>1, <1>2, <1>3

\* For every orderly bot the handlers and jobs keep the contract: a bot is
\* announced only while it holds resources, and reported down only after they
\* were released (all handlers and both jobs together).
THEOREM KeepsContractHolds == Spec => KeepsContract
<1>1. Init => Contract!Init
  BY OrderlyOverlap DEF Init, Contract!Init
<1>2. Inv /\ TypeOK' /\ [Next]_vars =>
        [Contract!Next]_<<[b \in Orderly |-> status[b]],
                          [b \in Orderly |-> dep[b] \/ svc[b]]>>
  BY EveryContractStep, ContractMaps DEF Inv, AllConsistent
<1> QED
  BY <1>1, <1>2, TypeCorrect, InvHolds, PTL DEF Spec, KeepsContract, Contract!Spec

(***************************************************************************)
(* Removed rows, whatever overlaps and fails                               *)
(***************************************************************************)
NoReturn == \A b \in Bots : status[b] = "gone" => status'[b] = "gone"

\* A removed row that comes back, and the thread that saves it.
SavedBack ==
    \A b \in Bots :
        status[b] = "gone" /\ status'[b] # "gone"
            => \E t \in Holders(b) : thr[t].op \in {"status", "update"}

LEMMA WriteStatusNoReturn ==
    ASSUME TypeOK, NEW b, NEW s, WriteStatus(b, s)
    PROVE  NoReturn
BY DEF TypeOK, WriteStatus, NoReturn, Present, BotStatus

LEMMA UpdateBotStatusNoReturn ==
    ASSUME TypeOK, NEW t, NEW r, NEW s, NEW ok, NEW err, UpdateBotStatus(t, r, s, ok, err)
    PROVE  NoReturn
BY WriteStatusNoReturn DEF UpdateBotStatus, NoReturn

LEMMA CallNoReturn ==
    ASSUME TypeOK, NEW t, NEW r, NEW ok, NEW err,
           \/ RemoveRow(t, r, ok, err)
           \/ CreateDeployment(t, r, ok, err) \/ ReplaceDeployment(t, r, ok, err)
           \/ DeleteDeployment(t, r, ok, err) \/ DeploymentExists(t, r, ok, err)
           \/ CreateService(t, r, ok, err) \/ DeleteService(t, r, ok, err)
           \/ WaitForPodReady(t, r, ok, err)
    PROVE  NoReturn
BY DEF RemoveRow, CreateDeployment, ReplaceDeployment, DeleteDeployment, DeploymentExists,
       CreateService, DeleteService, WaitForPodReady, row, TypeOK, NoReturn

LEMMA AcceptNoReturn ==
    ASSUME NEW t, NEW k, NEW b, NEW l, Accept(t, k, b, l)
    PROVE  NoReturn
BY DEF Accept, row, NoReturn

LEMMA InsertNoReturn ==
    ASSUME TypeOK, NEW b, NEW r, InsertRow(b, r)
    PROVE  NoReturn
BY DEF InsertRow, TypeOK, NoReturn

\* A whole-row save is made by a thread that holds the bot.
LEMMA UpdateBotSavedBack ==
    ASSUME TypeOK, ThreadShape, NEW t \in Threads, NEW r, NEW n, NEW ok, NEW err,
           thr[t].op \in {"status", "update"}, thr[t].pc \notin {"idle", "next"},
           UpdateBot(t, r, n, ok, err)
    PROVE  SavedBack
<1>1. t \in Holders(BotOf(t))
  BY DEF ThreadShape, Idle, BotOf, Holders
<1>2. status' = status \/ status' = [status EXCEPT ![BotOf(t)] = n.status]
  BY DEF UpdateBot, row
<1> QED BY <1>1, <1>2 DEF SavedBack, TypeOK

LEMMA ThreadStepSavedBack ==
    ASSUME TypeOK, ThreadShape, NEW t \in Threads, NEW r, ThreadStep(t, r)
    PROVE  SavedBack
<1> USE DEF At
<1>n. NoReturn => SavedBack
  BY DEF NoReturn, SavedBack
<1>l. ASSUME NEW k, NEW s, NEW l, Launch(t, k, r, UpdateBotStatus(t, r, s, l, "done"))
      PROVE  NoReturn
  BY <1>l, CallNoReturn, UpdateBotStatusNoReturn DEF Launch
<1>w. ASSUME NEW k, Waiter(t, k, r) PROVE NoReturn
  BY <1>w, CallNoReturn, UpdateBotStatusNoReturn DEF Waiter
<1>r. ASSUME NEW k, Recreate(t, k, r) PROVE NoReturn
  BY <1>r, CallNoReturn, UpdateBotStatusNoReturn DEF Recreate
<1>1. CASE StartBot(t, r) \/ AdminStartBot(t, r)
  BY <1>1, <1>n, <1>l, <1>w, AcceptNoReturn DEF StartBot, AdminStartBot
<1>2. CASE ProvisionTelegramBot(t, r)
  BY <1>2, <1>n, <1>l, <1>w, InsertNoReturn DEF ProvisionTelegramBot
<1>3. ASSUME NEW k, Stop(t, k, r) PROVE SavedBack
  BY <1>3, <1>n, AcceptNoReturn, CallNoReturn, UpdateBotStatusNoReturn DEF Stop
<1>4. CASE DeleteBot(t, r) \/ AdminDeleteBot(t, r)
  BY <1>4, <1>n, AcceptNoReturn, CallNoReturn DEF DeleteBot, AdminDeleteBot
<1>5. CASE RestartBot(t, r) \/ RestartAllBots(t, r)
  <2>1. CASE UNCHANGED row
    BY <1>n, <2>1 DEF row, NoReturn
  <2> QED BY <1>5, <1>n, <1>r, <2>1, AcceptNoReturn, CallNoReturn DEF RestartBot, RestartAllBots
<1>6. CASE GetBotStatus(t, r)
  <2>1. CASE UNCHANGED row
    BY <1>n, <2>1 DEF row, NoReturn
  <2> QED BY <1>6, <1>n, <2>1, AcceptNoReturn, CallNoReturn, UpdateBotSavedBack DEF GetBotStatus
<1>7. CASE PutBot(t, r)
  <2>1. CASE \E b \in Bots : Accept(t, "update", b, "save")
    BY <1>n, <2>1, AcceptNoReturn
  <2>2. CASE /\ thr[t].op = "update" /\ thr[t].pc = "save"
             /\ \E n \in thr[t].row.term .. MaxTerm :
                  UpdateBot(t, r, [thr[t].row EXCEPT !.term = n], "done", "done")
    BY <2>2, UpdateBotSavedBack
  <2> QED BY <1>7, <2>1, <2>2 DEF PutBot
<1> QED
  BY <1>1, <1>2, <1>3, <1>4, <1>5, <1>6, <1>7 DEF ThreadStep, StopBot, AdminStopBot

LEMMA NextSavedBack ==
    ASSUME TypeOK, ThreadShape, [Next]_vars
    PROVE  SavedBack
<1>n. NoReturn => SavedBack
  BY DEF NoReturn, SavedBack
<1>u. CASE UNCHANGED status
  BY <1>n, <1>u DEF NoReturn
<1>1. CASE \E t \in Threads : \E r \in Possible(t) : ThreadStep(t, r)
  BY <1>1, ThreadStepSavedBack
<1>2. CASE \E t \in Threads : RestartNext(t)
  BY <1>2, <1>u DEF RestartNext, row
<1>3. ASSUME NEW b \in Bots, NEW r \in Outcomes(b), CreateBot(b, r) \/ CleanStep(b, r)
      PROVE  SavedBack
  BY <1>3, <1>u, <1>n, InsertNoReturn, WriteStatusNoReturn
     DEF CreateBot, CleanStep, CleanDeleteDeployment, CleanDeleteService, CleanMark
<1>4. ASSUME NEW b \in Bots, NEW s \in Listed, NEW r \in Outcomes(b), RecStep(b, s, r)
      PROVE  SavedBack
  BY <1>4, <1>u, <1>n, WriteStatusNoReturn
     DEF RecStep, InspectActive, InspectInactive, RecWriteRow,
         RecDeleteDeployment, RecDeleteService
<1>5. CASE ReadList \/ ReadListFails \/ RecDone \/ RecKilled \/ CleanupStart \/ CleanKilled
  BY <1>u, <1>5 DEF ReadList, ReadListFails, RecDone, RecKilled, CleanupStart, CleanKilled, row
<1>6. CASE \E b \in Bots : PodChange(b) \/ TermEnds(b) \/ StartingTimeout(b)
  BY <1>u, <1>6 DEF PodChange, TermEnds, StartingTimeout, row
<1>7. CASE ServerCrash \/ UNCHANGED vars
  BY <1>u, <1>7 DEF ServerCrash, row, vars
<1> QED
  BY <1>1, <1>2, <1>3, <1>4, <1>5, <1>6, <1>7 DEF Next

\* Whatever overlaps and fails, a removed row is brought back only by a
\* whole-row save of a request that had read it (UpdateBot of PutBot and
\* GetBotStatus), never by a status written late.
THEOREM GoneIsFinalHolds == Spec => GoneIsFinal
<1>1. Inv /\ [Next]_vars => SavedBack
  BY NextSavedBack DEF Inv, Sharing
<1> QED
  BY <1>1, InvHolds, PTL DEF Spec, GoneIsFinal, SavedBack
=============================================================================
