-------------------------- MODULE BotLifecycleInv --------------------------
(***************************************************************************)
(* The inductive invariant behind Settled: what is known of an orderly bot *)
(* at every point of every operation on it.                                *)
(***************************************************************************)
EXTENDS BotLifecycle

Launchers  == {"provision", "start", "adminStart"}
Restarters == {"restart", "restartAll"}
Stoppers   == {"stop", "adminStop"}
Deleters   == {"delete", "adminDelete"}
Savers     == {"status", "update"}

\* The labels an operation on an orderly bot passes through.
Route(k) ==
    CASE k = "start" -> {"create", "replace", "expose", "mark"}
      [] k \in {"provision", "adminStart"} ->
           {"create", "replace", "expose", "mark", "await", "arrived", "giveup"}
      [] k = "restart" -> {"roll", "hide", "expose", "mark"}
      [] k = "restartAll" -> {"exists", "roll", "hide", "expose", "mark"}
      [] k \in Stoppers -> {"remove", "unexpose", "mark"}
      [] k \in Deleters -> {"remove", "unexpose", "erase"}
      [] k = "status" -> {"probe", "lookup", "save"}
      [] k = "update" -> {"save"}
      [] OTHER -> {}

\* Thread t is at a call on b.
On(t, b) == thr[t].bot = b

\* Some restart has taken the Service away and is about to create it again.
Reviving(b) ==
    \E t \in Threads : On(t, b) /\ thr[t].op \in Restarters /\ thr[t].pc = "expose"

\* Some start is on its way to the row.
Launching(b) ==
    \E t \in Threads : /\ On(t, b) /\ thr[t].op \in Launchers
                       /\ thr[t].pc \in {"create", "replace", "expose", "mark"}

Awaited(b) ==
    \E t \in Threads : On(t, b) /\ thr[t].pc \in {"await", "arrived", "giveup"}

\* Some teardown has deleted the Deployment and is on its way to the row.
TearingDown(b) ==
    \/ \E t \in Threads : /\ On(t, b) /\ thr[t].op \in Stoppers \cup Deleters
                          /\ thr[t].pc \in {"unexpose", "mark", "erase"}
    \/ cpc[b] \in {"reapSvc", "mark"}
    \/ rpc[b]["running"] \in {"reapSvc", "reapRow"}

\* A thread is idle, or between two bots of RestartAllBots, or on one bot.
ThreadShape ==
    \A t \in Threads :
        \/ thr[t] = Idle
        \/ /\ thr[t].op = "restartAll" /\ thr[t].pc = "next" /\ thr[t].bot = NoBot
        \/ /\ thr[t].bot \in thr[t].todo
           /\ thr[t].bot \in Orderly => thr[t].pc \in Route(thr[t].op)
           /\ thr[t].op # "restartAll" => thr[t].todo = {thr[t].bot}
           /\ thr[t].pc \notin {"idle", "next"}

\* Whatever works on b at the same time may overlap there.
Disciplined(b) ==
    /\ \A t \in Holders(b) : thr[t].op \in Ops
    /\ \A t, u \in Holders(b) : t # u => {thr[t].op, thr[u].op} \subseteq Overlap[b]
    /\ Reconciling(b) => Holders(b) = {} /\ ~Cleaning(b)
    /\ Cleaning(b) => \A t \in Holders(b) : {thr[t].op, "cleanup"} \subseteq Overlap[b]

Sharing == ThreadShape /\ \A b \in Orderly : Disciplined(b)

LaunchOK(b) ==
    \A t \in Threads : On(t, b) /\ thr[t].op \in Launchers =>
        /\ Present(b)
        /\ thr[t].pc # "create" => dep[b]
        /\ thr[t].pc \in {"mark", "await", "arrived", "giveup"} => svc[b] \/ Reviving(b)
        /\ thr[t].pc \in {"await", "arrived", "giveup"} =>
             status[b] \in {"running", "starting", "error"}

RestartOK(b) ==
    \A t \in Holders(b) : thr[t].op \in Restarters =>
        /\ dep[b]
        /\ status[b] \in {"running", "starting", "error"}
        /\ On(t, b) /\ thr[t].pc = "mark" => svc[b] \/ Reviving(b)

StopOK(b) ==
    \A t \in Threads : On(t, b) /\ thr[t].op \in Stoppers \cup Deleters =>
        /\ status[b] # "none"
        /\ thr[t].pc = "unexpose" => ~dep[b]
        /\ thr[t].pc = "mark" => Bare(b)
        /\ thr[t].pc = "erase" /\ status[b] = "running" => Bare(b)

SaveOK(b) ==
    \A t \in Threads : On(t, b) /\ thr[t].op \in Savers =>
        /\ thr[t].row = [status |-> status[b], term |-> term[b]]
        /\ Present(b)
        /\ thr[t].op = "status" => status[b] = "running" /\ thr[t].pc # "save"

ReconcileOK(b) ==
    \A s \in Listed : rpc[b][s] # "none" =>
        /\ status[b] = s
        /\ rpc[b][s] \in {"listed", "reapDep", "reapSvc", "reapRow"}
        /\ rpc[b][s] \in {"reapSvc", "reapRow"} => ~dep[b]
        /\ rpc[b][s] = "reapRow" => ~svc[b] /\ s \in Active

CleanupOK(b) ==
    /\ cpc[b] # "none" => Expired(b)
    /\ cpc[b] \in {"reapSvc", "mark"} => ~dep[b]
    /\ cpc[b] = "mark" => ~svc[b]

StatusOK(b) ==
    /\ status[b] = "running" =>
         (dep[b] /\ (svc[b] \/ Reviving(b))) \/ TearingDown(b)
    /\ status[b] = "starting" => Awaited(b)
    /\ status[b] \in {"none", "created", "stopped", "deleted"} =>
         Bare(b) \/ Launching(b)

Consistent(b) ==
    /\ LaunchOK(b) /\ RestartOK(b) /\ StopOK(b) /\ SaveOK(b)
    /\ ReconcileOK(b) /\ CleanupOK(b)
    /\ StatusOK(b)

\* Inv is inductive; Settled and the contract below follow from it.
Inv == TypeOK /\ Sharing /\ \A b \in Orderly : Consistent(b)

Contract ==
    INSTANCE BotContract WITH
        Bots  <- Orderly,
        phase <- [b \in Orderly |-> status[b]],
        held  <- [b \in Orderly |-> dep[b] \/ svc[b]]

\* The handlers and jobs, step by step, keep the contract for every orderly
\* bot: Kubernetes first and the row second on the way up, and on the way down.
KeepsContract == Contract!Spec
=============================================================================
