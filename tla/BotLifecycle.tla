---------------------------- MODULE BotLifecycle ----------------------------
(***************************************************************************)
(* The life of a bot: its row in PostgreSQL, its Deployment and Service in *)
(* Kubernetes, and the actors that change them without any lock: the HTTP  *)
(* handlers of handler/api/v1 (with the goroutines they leave behind) and  *)
(* the two CronJobs of cmd/.  A handler reads the row once, in the         *)
(* middleware or in its first line, decides on that copy, and then makes   *)
(* several Kubernetes and database calls; every call is one step here.     *)
(***************************************************************************)
EXTENDS Naturals, FiniteSets

CONSTANTS
    Bots,       \* bot IDs; an ID is a fresh UUID and is never given out twice
    Threads,    \* flows of control of the API server (request plus its tail)
    Offered,    \* the endpoints and jobs that the environment calls
    Overlap,    \* Overlap[b]: operations on b that may run at the same time
    Reliable,   \* bots whose Kubernetes and database calls never fail
    Batch,      \* cleanup_batch_size
    MaxTerm,    \* bound on the number of renewals of expires_at
    NoBot       \* "no bot": not a member of Bots

Ops == {"create", "provision", "start", "adminStart", "restart", "restartAll",
        "stop", "adminStop", "delete", "adminDelete", "status", "update",
        "reconcile", "cleanup"}

ASSUME ConstantsOK ==
    /\ NoBot \notin Bots
    /\ Offered \subseteq Ops
    /\ Overlap \in [Bots -> SUBSET Ops]
    /\ Reliable \subseteq Bots
    /\ Batch \in Nat \ {0}
    /\ MaxTerm \in Nat \ {0}

VARIABLES
    status,     \* the status column; "none": not inserted yet, "gone": deleted
    term,       \* the expires_at column, as the number of the rental term
    lapsed,     \* terms up to this one ended longer ago than the grace period
    old,        \* updated_at of the row is more than startingTimeout ago
    dep,        \* the Deployment oc-<id> exists
    svc,        \* the Service of the bot exists
    pods,       \* whose ready pods carry the bot's labels
    thr,        \* what each thread of the server is doing
    rq,         \* how many of its four lists the reconcile job has read
    rpc,        \* the reconcile job: one goroutine per listed row
    rold,       \* the updated_at the reconcile job read is over the timeout
    cpc         \* the cleanup job: one goroutine per listed row

row  == <<status, term, old>>
k8s  == <<dep, svc, pods>>
jobs == <<rq, rpc, rold, cpc>>
vars == <<status, term, lapsed, old, dep, svc, pods, thr, rq, rpc, rold, cpc>>

(***************************************************************************)
(* Data                                                                    *)
(***************************************************************************)
BotStatus == {"created", "starting", "running", "stopped", "error", "deleted"}
RowStatus == BotStatus \cup {"none", "gone"}
Term      == 1 .. MaxTerm

\* The four lists of the reconcile job, in the order it reads them.
List   == <<"running", "starting", "stopped", "error">>
Active == {"running", "starting"}
Listed == {"running", "starting", "stopped", "error"}

\* The ready pods of the current Deployment, and those of a deleted one that
\* are still terminating.
PodOwner == {"own", "past"}

PC    == {"idle", "create", "replace", "expose", "rollback", "mark", "await",
          "giveup", "arrived", "next", "exists", "roll", "hide", "unexpose",
          "remove", "erase", "probe", "lookup", "save"}
RecPC == {"none", "listed", "stopRow", "stopSvc", "promote",
          "reapDep", "reapSvc", "reapRow"}
CleanPC == {"none", "reapDep", "reapSvc", "mark"}

Row   == [status : RowStatus, term : Term]
NoRow == [status |-> "none", term |-> 1]

Thread == [op : Ops \cup {"none"}, pc : PC, bot : Bots \cup {NoBot},
           todo : SUBSET Bots, row : Row]
Idle   == [op |-> "none", pc |-> "idle", bot |-> NoBot, todo |-> {},
           row |-> NoRow]

Present(b) == status[b] \in BotStatus
Expired(b) == term[b] <= lapsed[b]

TypeOK ==
    /\ status \in [Bots -> RowStatus]
    /\ term \in [Bots -> Term]
    /\ lapsed \in [Bots -> 0 .. MaxTerm]
    /\ old \in [Bots -> BOOLEAN]
    /\ dep \in [Bots -> BOOLEAN]
    /\ svc \in [Bots -> BOOLEAN]
    /\ pods \in [Bots -> SUBSET PodOwner]
    /\ thr \in [Threads -> Thread]
    /\ rq \in 0 .. 4
    /\ rpc \in [Bots -> [Listed -> RecPC]]
    /\ rold \in [Bots -> BOOLEAN]
    /\ cpc \in [Bots -> CleanPC]

(***************************************************************************)
(* Who works on a bot.  Nothing in the code keeps two operations on one    *)
(* bot apart; Overlap says which ones its callers let run together, and    *)
(* Overlap[b] = Ops is what the code alone guarantees.                     *)
(***************************************************************************)
Reconciling(b) == \E s \in Listed : rpc[b][s] # "none"
Cleaning(b)    == cpc[b] # "none"
Holders(b)     == {t \in Threads : b \in thr[t].todo}

Working(b) ==
    {thr[t].op : t \in Holders(b)}
        \cup {k \in {"reconcile"} : Reconciling(b)}
        \cup {k \in {"cleanup"} : Cleaning(b)}

MayBegin(k, b) ==
    /\ k \in Offered
    /\ \A j \in Working(b) : {j, k} \subseteq Overlap[b]

\* A call succeeds, fails without effect, or has its effect and loses the
\* answer.  Applied(r): the effect took place; Answered(r): no error came back.
Outcomes(b) == IF b \in Reliable THEN {"ok"} ELSE {"ok", "failed", "lost"}
Applied(r)  == r \in {"ok", "lost"}
Answered(r) == r = "ok"

(***************************************************************************)
(* Calls.  Each takes the outcome r and the labels the handler continues   *)
(* at.                                                                     *)
(***************************************************************************)
BotOf(t) == thr[t].bot

\* "done" leaves the bot: RestartAllBots goes on to the next one of its list,
\* every other handler has only one.
Leave(th) ==
    IF th.todo \ {th.bot} = {}
      THEN Idle
      ELSE [th EXCEPT !.pc = "next", !.bot = NoBot, !.todo = @ \ {th.bot}]

Goto(t, l) ==
    thr' = [thr EXCEPT ![t] = IF l = "done" THEN Leave(@) ELSE [@ EXCEPT !.pc = l]]

Continue(t, r, ok, err) == Goto(t, IF Answered(r) THEN ok ELSE err)

At(t, k, l) == thr[t].op = k /\ thr[t].pc = l

\* Terminating pods keep their labels until they are gone.
RemoveDeployment(b) ==
    /\ dep' = [dep EXCEPT ![b] = FALSE]
    /\ pods' = [pods EXCEPT ![b] = IF @ = {} THEN {} ELSE {"past"}]

\* Mutant: an upsert instead of an UPDATE.
WriteStatusUpsert(b, s) ==
    /\ status' = [status EXCEPT ![b] = s]
    /\ old' = [old EXCEPT ![b] = FALSE]

WriteStatus(b, s) ==
    /\ status' = [status EXCEPT ![b] = IF Present(b) THEN s ELSE @]
    /\ old' = [old EXCEPT ![b] = FALSE]

\* gorm's Save: every column of the copy, and an insert when no row matched.
UpdateBot(t, r, newRow, ok, err) ==
    LET b == BotOf(t) IN
    /\ IF Applied(r)
         THEN /\ status' = [status EXCEPT ![b] = newRow.status]
              /\ term' = [term EXCEPT ![b] = newRow.term]
              /\ old' = [old EXCEPT ![b] = FALSE]
         ELSE UNCHANGED row
    /\ Continue(t, r, ok, err)
    /\ UNCHANGED <<lapsed, k8s, jobs>>

\* Mutant: the status is written by a Save of a bot that has nothing else filled in.
UpdateBotStatusSaved(t, r, s, ok, err) ==
    UpdateBot(t, r, [NoRow EXCEPT !.status = s], ok, err)

UpdateBotStatus(t, r, s, ok, err) ==
    LET b == BotOf(t) IN
    /\ IF Applied(r) THEN WriteStatus(b, s) ELSE UNCHANGED <<status, old>>
    /\ Continue(t, r, ok, err)
    /\ UNCHANGED <<term, lapsed, k8s, jobs>>

RemoveRow(t, r, ok, err) ==
    LET b == BotOf(t) IN
    /\ status' = IF Applied(r) THEN [status EXCEPT ![b] = "gone"] ELSE status
    /\ Continue(t, r, ok, err)
    /\ UNCHANGED <<term, lapsed, old, k8s, jobs>>

\* Create; an existing Deployment is replaced by a second call.
CreateDeployment(t, r, ok, err) ==
    LET b == BotOf(t) IN
    /\ IF dep[b] /\ Answered(r)
         THEN Goto(t, "replace") /\ UNCHANGED dep
         ELSE /\ dep' = IF Applied(r) THEN [dep EXCEPT ![b] = TRUE] ELSE dep
              /\ Continue(t, r, ok, err)
    /\ UNCHANGED <<row, lapsed, svc, pods, jobs>>

\* A rolling update: the ready pod stays until its successor is ready.  There
\* is nothing to update when the Deployment is gone.
ReplaceDeployment(t, r, ok, err) ==
    /\ Goto(t, IF Answered(r) /\ dep[BotOf(t)] THEN ok ELSE err)
    /\ UNCHANGED <<row, lapsed, k8s, jobs>>

DeleteDeployment(t, r, ok, err) ==
    /\ IF Applied(r) THEN RemoveDeployment(BotOf(t)) ELSE UNCHANGED <<dep, pods>>
    /\ Continue(t, r, ok, err)
    /\ UNCHANGED <<row, lapsed, svc, jobs>>

CreateService(t, r, ok, err) ==
    /\ svc' = IF Applied(r) THEN [svc EXCEPT ![BotOf(t)] = TRUE] ELSE svc
    /\ Continue(t, r, ok, err)
    /\ UNCHANGED <<row, lapsed, dep, pods, jobs>>

DeleteService(t, r, ok, err) ==
    /\ svc' = IF Applied(r) THEN [svc EXCEPT ![BotOf(t)] = FALSE] ELSE svc
    /\ Continue(t, r, ok, err)
    /\ UNCHANGED <<row, lapsed, dep, pods, jobs>>

\* Polls for a ready pod with the bot's labels, whoever owns it, 120 times.
WaitForPodReady(t, r, ok, err) ==
    /\ Goto(t, IF Answered(r) /\ pods[BotOf(t)] # {} THEN ok ELSE err)
    /\ UNCHANGED <<row, lapsed, k8s, jobs>>

(***************************************************************************)
(* Handlers.  The first disjunct of each is its entry: the row is read,    *)
(* the handler's guard is decided on that copy.                            *)
(***************************************************************************)
\* Only the handlers that write the whole row back still need the copy.
Copy(k, b) ==
    IF k \in {"status", "update"}
      THEN [status |-> status[b], term |-> term[b]]
      ELSE NoRow

Enter(t, k, b, l) ==
    /\ thr[t].pc = "idle"
    /\ MayBegin(k, b)
    /\ thr' = [thr EXCEPT ![t] = [op |-> k, pc |-> l, bot |-> b, todo |-> {b},
                                  row |-> Copy(k, b)]]

Accept(t, k, b, l) ==
    /\ Present(b)
    /\ Enter(t, k, b, l)
    /\ UNCHANGED <<row, lapsed, k8s, jobs>>

InsertRow(b, r) ==
    /\ status[b] = "none"
    /\ status' = IF Applied(r) THEN [status EXCEPT ![b] = "created"] ELSE status
    /\ UNCHANGED <<term, old>>

CreateBot(b, r) ==
    /\ MayBegin("create", b)
    /\ r \in Outcomes(b)
    /\ InsertRow(b, r)
    /\ UNCHANGED <<lapsed, k8s, jobs, thr>>

\* Deployment, Service (undoing the Deployment when that fails), then the row.
Launch(t, k, r, marked) ==
    \/ At(t, k, "create")   /\ CreateDeployment(t, r, "expose", "done")
    \/ At(t, k, "replace")  /\ ReplaceDeployment(t, r, "expose", "done")
    \/ At(t, k, "expose")   /\ CreateService(t, r, "mark", "rollback")
    \/ At(t, k, "rollback") /\ DeleteDeployment(t, r, "done", "done")
    \/ At(t, k, "mark")     /\ marked

\* Mutant: the row first, Kubernetes second.
StartBotRowFirst(t, r) ==
    \/ \E b \in Bots : status[b] # "running" /\ Accept(t, "start", b, "mark")
    \/ At(t, "start", "mark")    /\ UpdateBotStatus(t, r, "running", "create", "done")
    \/ At(t, "start", "create")  /\ CreateDeployment(t, r, "expose", "done")
    \/ At(t, "start", "replace") /\ ReplaceDeployment(t, r, "expose", "done")
    \/ At(t, "start", "expose")  /\ CreateService(t, r, "done", "done")

StartBot(t, r) ==
    \/ \E b \in Bots : status[b] # "running" /\ Accept(t, "start", b, "create")
    \/ Launch(t, "start", r, UpdateBotStatus(t, r, "running", "done", "done"))

\* The goroutine that AdminStartBot and ProvisionTelegramBot leave behind: it
\* writes its verdict whatever the row says by then.
Waiter(t, k, r) ==
    \/ At(t, k, "await")   /\ WaitForPodReady(t, r, "arrived", "giveup")
    \/ At(t, k, "arrived") /\ UpdateBotStatus(t, r, "running", "done", "done")
    \/ At(t, k, "giveup")  /\ UpdateBotStatus(t, r, "error", "done", "done")

AdminStartBot(t, r) ==
    \/ \E b \in Bots : status[b] # "running" /\ Accept(t, "adminStart", b, "create")
    \/ Launch(t, "adminStart", r, UpdateBotStatus(t, r, "starting", "await", "done"))
    \/ Waiter(t, "adminStart", r)

ProvisionTelegramBot(t, r) ==
    \/ \E b \in Bots, i \in {"ok", "failed", "lost"} :
         /\ i \in Outcomes(b)
         /\ InsertRow(b, i)
         /\ IF Answered(i)
              THEN Enter(t, "provision", b, "create")
              ELSE MayBegin("provision", b) /\ UNCHANGED thr
         /\ UNCHANGED <<lapsed, k8s, jobs>>
    \/ Launch(t, "provision", r, UpdateBotStatus(t, r, "starting", "await", "done"))
    \/ Waiter(t, "provision", r)

\* Mutant: the Service is forgotten.
StopKeepsService(t, k, r) ==
    \/ \E b \in Bots : status[b] = "running" /\ Accept(t, k, b, "remove")
    \/ At(t, k, "remove") /\ DeleteDeployment(t, r, "mark", "done")
    \/ At(t, k, "mark")   /\ UpdateBotStatus(t, r, "stopped", "done", "done")

Stop(t, k, r) ==
    \/ \E b \in Bots : status[b] = "running" /\ Accept(t, k, b, "remove")
    \/ At(t, k, "remove")   /\ DeleteDeployment(t, r, "unexpose", "done")
    \/ At(t, k, "unexpose") /\ DeleteService(t, r, "mark", "done")
    \/ At(t, k, "mark")     /\ UpdateBotStatus(t, r, "stopped", "done", "done")

StopBot(t, r)      == Stop(t, "stop", r)
AdminStopBot(t, r) == Stop(t, "adminStop", r)

\* Kubernetes is touched only when the row said "running".
DeleteBot(t, r) ==
    \/ \E b \in Bots :
         Accept(t, "delete", b, IF status[b] = "running" THEN "remove" ELSE "erase")
    \/ At(t, "delete", "remove")   /\ DeleteDeployment(t, r, "unexpose", "done")
    \/ At(t, "delete", "unexpose") /\ DeleteService(t, r, "erase", "done")
    \/ At(t, "delete", "erase")    /\ RemoveRow(t, r, "done", "done")

\* Mutant: the row goes, Kubernetes is left as it is.
AdminDeleteRowOnly(t, r) ==
    \/ \E b \in Bots : Accept(t, "adminDelete", b, "erase")
    \/ At(t, "adminDelete", "erase") /\ RemoveRow(t, r, "done", "done")

\* As DeleteBot, but errors of Kubernetes are ignored.
AdminDeleteBot(t, r) ==
    \/ \E b \in Bots :
         Accept(t, "adminDelete", b, IF status[b] = "running" THEN "remove" ELSE "erase")
    \/ At(t, "adminDelete", "remove")   /\ DeleteDeployment(t, r, "unexpose", "unexpose")
    \/ At(t, "adminDelete", "unexpose") /\ DeleteService(t, r, "erase", "erase")
    \/ At(t, "adminDelete", "erase")    /\ RemoveRow(t, r, "done", "done")

\* Mutant: created before it is deleted.
RecreateSwapped(t, k, r) ==
    \/ At(t, k, "roll")   /\ ReplaceDeployment(t, r, "expose", "done")
    \/ At(t, k, "expose") /\ CreateService(t, r, "hide", "done")
    \/ At(t, k, "hide")   /\ DeleteService(t, r, "mark", "mark")
    \/ At(t, k, "mark")   /\ UpdateBotStatus(t, r, "running", "done", "done")

\* The Service is deleted and created anew; only the creation may fail.
Recreate(t, k, r) ==
    \/ At(t, k, "roll")   /\ ReplaceDeployment(t, r, "hide", "done")
    \/ At(t, k, "hide")   /\ DeleteService(t, r, "expose", "expose")
    \/ At(t, k, "expose") /\ CreateService(t, r, "mark", "done")
    \/ At(t, k, "mark")   /\ UpdateBotStatus(t, r, "running", "done", "done")

RestartBot(t, r) ==
    \/ \E b \in Bots : status[b] = "running" /\ Accept(t, "restart", b, "roll")
    \/ Recreate(t, "restart", r)

DeploymentExists(t, r, yes, no) ==
    /\ Goto(t, IF Answered(r) /\ dep[BotOf(t)] THEN yes ELSE no)
    /\ UNCHANGED <<row, lapsed, k8s, jobs>>

\* Every bot that was running when the request came, one after the other.
RestartAllBots(t, r) ==
    \/ LET bots == {b \in Bots : status[b] = "running"} IN
       /\ thr[t].pc = "idle"
       /\ bots # {}
       /\ \A b \in bots : MayBegin("restartAll", b)
       /\ thr' = [thr EXCEPT ![t] = [op |-> "restartAll", pc |-> "next",
                                     bot |-> NoBot, todo |-> bots, row |-> NoRow]]
       /\ UNCHANGED <<row, lapsed, k8s, jobs>>
    \/ At(t, "restartAll", "exists") /\ DeploymentExists(t, r, "roll", "done")
    \/ Recreate(t, "restartAll", r)

RestartNext(t) ==
    /\ At(t, "restartAll", "next")
    /\ \E b \in thr[t].todo :
         thr' = [thr EXCEPT ![t] = [@ EXCEPT !.pc = "exists", !.bot = b]]
    /\ UNCHANGED <<row, lapsed, k8s, jobs>>

\* Mutant: no ready pod is taken for no Deployment.
GetBotStatusHasty(t, r) ==
    \/ \E b \in Bots : status[b] = "running" /\ Accept(t, "status", b, "probe")
    \/ /\ At(t, "status", "probe")
       /\ Goto(t, IF Answered(r) /\ "own" \notin pods[BotOf(t)] THEN "save" ELSE "done")
       /\ UNCHANGED <<row, lapsed, k8s, jobs>>
    \/ /\ At(t, "status", "save")
       /\ UpdateBot(t, r, [thr[t].row EXCEPT !.status = "stopped"], "done", "done")

\* A read that repairs: no ready pod and, by a second call whose error counts
\* as "no", no Deployment either.
GetBotStatus(t, r) ==
    \/ \E b \in Bots : status[b] = "running" /\ Accept(t, "status", b, "probe")
    \/ /\ At(t, "status", "probe")
       /\ Goto(t, IF Answered(r) /\ "own" \notin pods[BotOf(t)] THEN "lookup" ELSE "done")
       /\ UNCHANGED <<row, lapsed, k8s, jobs>>
    \/ At(t, "status", "lookup") /\ DeploymentExists(t, r, "done", "save")
    \/ /\ At(t, "status", "save")
       /\ UpdateBot(t, r, [thr[t].row EXCEPT !.status = "stopped"], "done", "done")

\* A new name, slug or config, or (a later term) a renewal: one Save of the row.
PutBot(t, r) ==
    \/ \E b \in Bots : Accept(t, "update", b, "save")
    \/ /\ At(t, "update", "save")
       /\ \E n \in thr[t].row.term .. MaxTerm :
            UpdateBot(t, r, [thr[t].row EXCEPT !.term = n], "done", "done")

ThreadStep(t, r) ==
    \/ StartBot(t, r)       \/ AdminStartBot(t, r) \/ ProvisionTelegramBot(t, r)
    \/ StopBot(t, r)        \/ AdminStopBot(t, r)
    \/ DeleteBot(t, r)      \/ AdminDeleteBot(t, r)
    \/ RestartBot(t, r)     \/ RestartAllBots(t, r)
    \/ GetBotStatus(t, r)   \/ PutBot(t, r)

\* The outcomes of the call thread t makes next.
Possible(t) == IF BotOf(t) = NoBot THEN {"ok"} ELSE Outcomes(BotOf(t))

(***************************************************************************)
(* The reconcile job: four queries, one after the other, then a goroutine  *)
(* per listed row, the active rows before the inactive ones.  It decides   *)
(* on the status it listed, not on what the row says when it acts.         *)
(***************************************************************************)
ReadList ==
    LET l    == List[rq + 1]
        hits == {b \in Bots : status[b] = l} IN
    /\ rq < 4
    /\ "reconcile" \in Offered
    /\ \A b \in hits : MayBegin("reconcile", b)
    /\ rq' = rq + 1
    /\ rpc' = [b \in Bots |-> IF b \in hits THEN [rpc[b] EXCEPT ![l] = "listed"]
                                            ELSE rpc[b]]
    /\ rold' = IF l = "starting" THEN [b \in Bots |-> b \in hits /\ old[b]] ELSE rold
    /\ UNCHANGED <<row, lapsed, k8s, thr, cpc>>

\* Mutant: one query too many.
ReadFifthListFails ==
    /\ rq <= 4
    /\ "reconcile" \in Offered
    /\ Reliable # Bots
    /\ rq' = rq + 1
    /\ UNCHANGED <<row, lapsed, k8s, thr, rpc, rold, cpc>>

\* An error of a query is ignored and leaves its list empty.
ReadListFails ==
    /\ rq < 4
    /\ "reconcile" \in Offered
    /\ Reliable # Bots
    /\ rq' = rq + 1
    /\ UNCHANGED <<row, lapsed, k8s, thr, rpc, rold, cpc>>

ActiveDone == \A b \in Bots, s \in Active : rpc[b][s] = "none"

RecGoto(b, s, l) == rpc' = [rpc EXCEPT ![b][s] = l]

\* Mutant: a Deployment without ready pods is good enough for a running bot.
DiagnosisPatient(b, s) ==
    CASE ~dep[b]                                                    -> "stopRow"
      [] dep[b] /\ "own" \in pods[b] /\ s = "starting"              -> "promote"
      [] dep[b] /\ "own" \notin pods[b] /\ s = "starting" /\ rold[b] -> "reapDep"
      [] OTHER                                                      -> "none"

\* Mutant: no startingTimeout.
DiagnosisEndless(b, s) ==
    CASE ~dep[b]                                             -> "stopRow"
      [] dep[b] /\ "own" \in pods[b] /\ s = "starting"       -> "promote"
      [] dep[b] /\ "own" \notin pods[b] /\ s = "running"     -> "reapDep"
      [] OTHER                                               -> "none"

\* What the goroutine of an active row finds out with its one Get.
Diagnosis(b, s) ==
    CASE ~dep[b]                                               -> "stopRow"
      [] dep[b] /\ "own" \in pods[b] /\ s = "starting"         -> "promote"
      [] dep[b] /\ "own" \notin pods[b] /\ s = "starting"
                /\ rold[b]                                     -> "reapDep"
      [] dep[b] /\ "own" \notin pods[b] /\ s = "running"       -> "reapDep"
      [] OTHER                                                 -> "none"

InspectActive(b, s, r) ==
    /\ s \in Active
    /\ rpc[b][s] = "listed"
    /\ RecGoto(b, s, IF Answered(r) THEN Diagnosis(b, s) ELSE "none")
    /\ UNCHANGED <<status, old, dep, pods, svc>>

\* Mutant: only ready pods count, a crash-looping Deployment is not found.
InspectInactiveReady(b, s, r) ==
    /\ s \notin Active
    /\ ActiveDone
    /\ rpc[b][s] = "listed"
    /\ RecGoto(b, s, IF Answered(r) /\ dep[b] /\ "own" \in pods[b]
                       THEN "reapDep" ELSE "none")
    /\ UNCHANGED <<status, old, dep, pods, svc>>

InspectInactive(b, s, r) ==
    /\ s \notin Active
    /\ ActiveDone
    /\ rpc[b][s] = "listed"
    /\ RecGoto(b, s, IF Answered(r) /\ dep[b] THEN "reapDep" ELSE "none")
    /\ UNCHANGED <<status, old, dep, pods, svc>>

\* A row in one of these states names the status to write.
RecVerdict(l, s) ==
    CASE l = "promote"                     -> "running"
      [] l = "reapRow" /\ s = "starting"   -> "error"
      [] OTHER                             -> "stopped"

RecWriteRow(b, s, r) ==
    /\ rpc[b][s] \in {"stopRow", "promote", "reapRow"}
    /\ IF Applied(r) THEN WriteStatus(b, RecVerdict(rpc[b][s], s))
                     ELSE UNCHANGED <<status, old>>
    /\ RecGoto(b, s, IF rpc[b][s] = "stopRow" THEN "stopSvc" ELSE "none")
    /\ UNCHANGED <<dep, pods, svc>>

\* Mutant: the goroutine captures the variable of the loop.
RecDeleteCaptured(b, s, r) ==
    /\ rpc[b][s] = "reapDep"
    /\ \E c \in Bots : IF Applied(r) THEN RemoveDeployment(c)
                                     ELSE UNCHANGED <<dep, pods>>
    /\ RecGoto(b, s, "reapSvc")
    /\ UNCHANGED <<status, old, svc>>

RecDeleteDeployment(b, s, r) ==
    /\ rpc[b][s] = "reapDep"
    /\ IF Applied(r) THEN RemoveDeployment(b) ELSE UNCHANGED <<dep, pods>>
    /\ RecGoto(b, s, "reapSvc")
    /\ UNCHANGED <<status, old, svc>>

\* Only an active row is rewritten after its resources were deleted.
RecDeleteService(b, s, r) ==
    /\ rpc[b][s] \in {"stopSvc", "reapSvc"}
    /\ svc' = IF Applied(r) THEN [svc EXCEPT ![b] = FALSE] ELSE svc
    /\ RecGoto(b, s, IF rpc[b][s] = "reapSvc" /\ s \in Active THEN "reapRow" ELSE "none")
    /\ UNCHANGED <<status, old, dep, pods>>

RecStep(b, s, r) ==
    /\ rq = 4
    /\ \/ InspectActive(b, s, r) \/ InspectInactive(b, s, r)
       \/ RecWriteRow(b, s, r)
       \/ RecDeleteDeployment(b, s, r) \/ RecDeleteService(b, s, r)
    /\ UNCHANGED <<term, lapsed, thr, rq, rold, cpc>>

NoRecWork == [b \in Bots |-> [s \in Listed |-> "none"]]

RecDone ==
    /\ rq = 4
    /\ rpc = NoRecWork
    /\ rq' = 0
    /\ rold' = [b \in Bots |-> FALSE]
    /\ UNCHANGED <<row, lapsed, k8s, thr, rpc, cpc>>

\* activeDeadlineSeconds, an eviction: the job dies with all its goroutines.
RecKilled ==
    /\ rq > 0
    /\ \A b \in Reliable : ~Reconciling(b)
    /\ rpc # NoRecWork
    /\ rq' = 0
    /\ rpc' = NoRecWork
    /\ rold' = [b \in Bots |-> FALSE]
    /\ UNCHANGED <<row, lapsed, k8s, thr, cpc>>

(***************************************************************************)
(* The cleanup job: one query, then a goroutine per bot that ignores every *)
(* error and does not look at the row again.                               *)
(***************************************************************************)
\* Mutant: the query has lost its comparison of expires_at.
ListAllBots(bots) ==
    LET hits == {b \in Bots : Present(b) /\ status[b] # "deleted"} IN
    /\ bots \subseteq hits
    /\ Cardinality(bots) = Batch \/ (bots = hits /\ Cardinality(bots) <= Batch)

ListExpiredBots(bots) ==
    LET hits == {b \in Bots : Present(b) /\ status[b] # "deleted" /\ Expired(b)} IN
    /\ bots \subseteq hits
    /\ Cardinality(bots) = Batch \/ (bots = hits /\ Cardinality(bots) <= Batch)

CleanupStart ==
    /\ \A b \in Bots : cpc[b] = "none"
    /\ \E bots \in SUBSET Bots :
         /\ bots # {}
         /\ ListExpiredBots(bots)
         /\ \A b \in bots : MayBegin("cleanup", b)
         /\ cpc' = [b \in Bots |-> IF b \in bots THEN "reapDep" ELSE "none"]
    /\ UNCHANGED <<row, lapsed, k8s, thr, rq, rpc, rold>>

\* Mutant: the Service is forgotten.
CleanForgetsService(b, r) ==
    /\ cpc[b] = "reapDep"
    /\ IF Applied(r) THEN RemoveDeployment(b) ELSE UNCHANGED <<dep, pods>>
    /\ cpc' = [cpc EXCEPT ![b] = "mark"]
    /\ UNCHANGED <<status, old, svc>>

CleanDeleteDeployment(b, r) ==
    /\ cpc[b] = "reapDep"
    /\ IF Applied(r) THEN RemoveDeployment(b) ELSE UNCHANGED <<dep, pods>>
    /\ cpc' = [cpc EXCEPT ![b] = "reapSvc"]
    /\ UNCHANGED <<status, old, svc>>

CleanDeleteService(b, r) ==
    /\ cpc[b] = "reapSvc"
    /\ svc' = IF Applied(r) THEN [svc EXCEPT ![b] = FALSE] ELSE svc
    /\ cpc' = [cpc EXCEPT ![b] = "mark"]
    /\ UNCHANGED <<status, old, dep, pods>>

CleanMark(b, r) ==
    /\ cpc[b] = "mark"
    /\ IF Applied(r) THEN WriteStatus(b, "deleted") ELSE UNCHANGED <<status, old>>
    /\ cpc' = [cpc EXCEPT ![b] = "none"]
    /\ UNCHANGED <<dep, pods, svc>>

CleanStep(b, r) ==
    /\ CleanDeleteDeployment(b, r) \/ CleanDeleteService(b, r) \/ CleanMark(b, r)
    /\ UNCHANGED <<term, lapsed, thr, rq, rpc, rold>>

CleanKilled ==
    /\ \E b \in Bots : Cleaning(b)
    /\ \A b \in Reliable : ~Cleaning(b)
    /\ cpc' = [b \in Bots |-> "none"]
    /\ UNCHANGED <<row, lapsed, k8s, thr, rq, rpc, rold>>

(***************************************************************************)
(* Surroundings: the kubelet, the clock, the death of the server process.  *)
(***************************************************************************)
PodChange(b) ==
    /\ \/ dep[b] /\ pods' = [pods EXCEPT ![b] = @ \cup {"own"}]
       \/ "own" \in pods[b] /\ pods' = [pods EXCEPT ![b] = @ \ {"own"}]
       \/ "past" \in pods[b] /\ pods' = [pods EXCEPT ![b] = @ \ {"past"}]
    /\ UNCHANGED <<row, lapsed, dep, svc, thr, jobs>>

\* Only the cleanup job looks at it, so it does not pass without that job.
TermEnds(b) ==
    /\ "cleanup" \in Offered
    /\ Present(b)
    /\ lapsed[b] < term[b]
    /\ lapsed' = [lapsed EXCEPT ![b] = term[b]]
    /\ UNCHANGED <<row, k8s, thr, jobs>>

\* Ten minutes are five times as long as a waiter waits.  The copy of
\* updated_at in a reconcile job ages with the row.
StartingTimeout(b) ==
    /\ status[b] = "starting"
    /\ \A t \in Holders(b) : thr[t].pc \notin {"await", "arrived", "giveup"}
    /\ old' = [old EXCEPT ![b] = TRUE]
    /\ rold' = [rold EXCEPT ![b] = @ \/ rpc[b]["starting"] # "none"]
    /\ UNCHANGED <<status, term, lapsed, k8s, thr, rq, rpc, cpc>>

ServerCrash ==
    /\ \E t \in Threads : thr[t] # Idle
    /\ \A b \in Reliable : Holders(b) = {}
    /\ thr' = [t \in Threads |-> Idle]
    /\ UNCHANGED <<row, lapsed, k8s, jobs>>

Init ==
    /\ status = [b \in Bots |-> "none"]
    /\ term = [b \in Bots |-> 1]
    /\ lapsed = [b \in Bots |-> 0]
    /\ old = [b \in Bots |-> FALSE]
    /\ dep = [b \in Bots |-> FALSE]
    /\ svc = [b \in Bots |-> FALSE]
    /\ pods = [b \in Bots |-> {}]
    /\ thr = [t \in Threads |-> Idle]
    /\ rq = 0
    /\ rpc = NoRecWork
    /\ rold = [b \in Bots |-> FALSE]
    /\ cpc = [b \in Bots |-> "none"]

Next ==
    \/ \E t \in Threads : \E r \in Possible(t) : ThreadStep(t, r)
    \/ \E t \in Threads : RestartNext(t)
    \/ \E b \in Bots : \E r \in Outcomes(b) : CreateBot(b, r) \/ CleanStep(b, r)
    \/ \E b \in Bots, s \in Listed : \E r \in Outcomes(b) : RecStep(b, s, r)
    \/ ReadList \/ ReadListFails \/ RecDone \/ RecKilled
    \/ CleanupStart \/ CleanKilled
    \/ \E b \in Bots : PodChange(b) \/ TermEnds(b) \/ StartingTimeout(b)
    \/ ServerCrash

Spec == Init /\ [][Next]_vars

\* A fault is a step of Next that no step with outcome "ok" explains.
CalmStep ==
    \/ \E t \in Threads : ThreadStep(t, "ok") \/ RestartNext(t)
    \/ \E b \in Bots : CreateBot(b, "ok") \/ CleanStep(b, "ok")
    \/ \E b \in Bots, s \in Listed : RecStep(b, s, "ok")
    \/ ReadList \/ RecDone \/ CleanupStart
    \/ \E b \in Bots : PodChange(b) \/ TermEnds(b) \/ StartingTimeout(b)

RecJob == ReadList \/ RecDone \/ \E b \in Bots, s \in Listed : RecStep(b, s, "ok")

\* The scheduler starts the reconcile job again and again, and a job that runs
\* goes on; so does a handler that has begun; time passes; faults come to an
\* end.  Requests, pods and the cleanup job need not do anything.
Fairness ==
    /\ WF_vars(RecJob)
    /\ \A b \in Bots : WF_vars(StartingTimeout(b))
    /\ \A t \in Threads : WF_vars(thr[t].pc # "idle" /\ ThreadStep(t, "ok"))
    /\ <>[][CalmStep]_vars

FairSpec == Spec /\ Fairness

(***************************************************************************)
(* Orderly bots.  Operations that all build up, or all tear down, may      *)
(* overlap; any other two wait for each other; no call fails.  This is an  *)
(* assumption about the callers: the code itself gives Overlap[b] = Ops    *)
(* and Reliable = {}.                                                      *)
(***************************************************************************)
UpOps   == {"create", "provision", "start", "adminStart", "restart", "restartAll"}
DownOps == {"stop", "adminStop", "delete", "adminDelete", "cleanup"}

Orderly ==
    {b \in Reliable : Overlap[b] \subseteq UpOps \/ Overlap[b] \subseteq DownOps}

Resting(b)   == Working(b) = {}
Equipped(b)  == dep[b] /\ svc[b]
Bare(b)      == ~dep[b] /\ ~svc[b]

(***************************************************************************)
(* Properties                                                              *)
(***************************************************************************)
\* Whenever nothing works on an orderly bot, its row tells the truth about
\* Kubernetes: a running bot has its Deployment and its Service, a bot that is
\* not started, stopped or cleaned up has neither, and no bot is left in
\* "starting" (StartBot, StopBot, RestartBot, the waiter of AdminStartBot,
\* reconcileBotStatus and cleanupExpiredBots together).
Settled ==
    \A b \in Orderly : Resting(b) =>
        /\ status[b] = "running" => Equipped(b)
        /\ status[b] \in {"none", "created", "stopped", "deleted"} => Bare(b)
        /\ status[b] # "starting"

\* Whatever overlaps and fails: a row that was removed is not written back by
\* a late status (the waiter of AdminStartBot, the jobs), only by a Save of a
\* whole row that was read before (UpdateBot of PutBot and GetBotStatus).
GoneIsFinal ==
    [][\A b \in Bots :
         status[b] = "gone" /\ status'[b] # "gone"
             => \E t \in Holders(b) : thr[t].op \in {"status", "update"}]_vars

\* Whatever overlaps and fails: a Deployment that outlives its bot's "stopped"
\* or "error" is found by a later reconcile run, unless the status changes
\* first (phase 2 of reconcileBotStatus).
StoppedReclaimed ==
    \A b \in Bots :
        status[b] \in {"stopped", "error"} /\ dep[b]
            ~> ~dep[b] \/ status[b] \notin {"stopped", "error"}

\* No bot stays "starting" for ever: the waiter writes its verdict, and when it
\* died with the server the reconcile job does (startingTimeout).  The timeout
\* counts from updated_at, which every Save of the row renews, so a stream of
\* updates can put it off.
StartingResolved ==
    \A b \in Bots :
        status[b] = "starting"
            ~> \/ status[b] # "starting"
               \/ \E t \in Holders(b) : At(t, "update", "save")

\* A row that says "running" without a ready pod does not last: a pod becomes
\* ready or the reconcile job takes the claim back (phase 1).
DeadBotNoticed ==
    \A b \in Bots :
        status[b] = "running" /\ "own" \notin pods[b]
            ~> status[b] # "running" \/ "own" \in pods[b]
=============================================================================
