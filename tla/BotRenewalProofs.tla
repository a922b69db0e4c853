-------------------------- MODULE BotRenewalProofs --------------------------
(***************************************************************************)
(* A proof that renewals stand, for any number of bots, threads and terms, *)
(* whatever overlaps and fails.                                            *)
(***************************************************************************)
EXTENDS BotRenewal, BotLifecycleProofs

(***************************************************************************)
(* What a step may do to the terms                                         *)
(***************************************************************************)
\* Thread t saves the row of its bot, with its copy of the term or a later one.
TermSaved(t) ==
    /\ HoldsCopy(t) /\ thr[t].pc = "save" /\ thr'[t] = Idle
    /\ \E n \in Term : /\ n >= thr[t].row.term
                       /\ term' = [term EXCEPT ![BotOf(t)] = n]

TermStep == term' = term \/ \E t \in Threads : TermSaved(t)

\* A call of UpdateBot, by a request that has one bot only.
LEMMA UpdateBotTerm ==
    ASSUME TypeOK, ThreadShape, NEW t \in Threads, NEW r, NEW n, HoldsCopy(t),
           thr[t].pc = "save", UpdateBot(t, r, n, "done", "done"),
           n.term \in Term, n.term >= thr[t].row.term
    PROVE  TermStep
<1>1. thr[t].todo = {thr[t].bot}
  BY DEF ThreadShape, HoldsCopy, Idle
<1>2. Leave(thr[t]) = Idle
  BY <1>1 DEF Leave
<1>3. thr'[t] = Idle
  BY <1>2 DEF UpdateBot, Continue, Goto, TypeOK
<1> QED BY <1>3 DEF UpdateBot, row, TermStep, TermSaved

\* All calls but UpdateBot leave the terms alone.
LEMMA CallTerm ==
    ASSUME NEW t, NEW r, NEW s, NEW ok, NEW err,
           \/ UpdateBotStatus(t, r, s, ok, err) \/ RemoveRow(t, r, ok, err)
           \/ CreateDeployment(t, r, ok, err) \/ ReplaceDeployment(t, r, ok, err)
           \/ DeleteDeployment(t, r, ok, err) \/ DeploymentExists(t, r, ok, err)
           \/ CreateService(t, r, ok, err) \/ DeleteService(t, r, ok, err)
           \/ WaitForPodReady(t, r, ok, err)
    PROVE  term' = term
BY DEF UpdateBotStatus, RemoveRow, CreateDeployment, ReplaceDeployment, DeleteDeployment,
       DeploymentExists, CreateService, DeleteService, WaitForPodReady, row

LEMMA AcceptTerm ==
    ASSUME NEW t, NEW k, NEW b, NEW l, Accept(t, k, b, l)
    PROVE  term' = term
BY DEF Accept, row

LEMMA ThreadStepTerm ==
    ASSUME TypeOK, ThreadShape, NEW t \in Threads, NEW r, ThreadStep(t, r)
    PROVE  TermStep
<1> USE DEF At
<1>n. term' = term => TermStep
  BY DEF TermStep
<1>c. /\ thr[t].row.term \in Term
      /\ thr[t].row.term \in Nat
  BY ConstantsOK DEF TypeOK, Thread, Row, Term
<1>l. ASSUME NEW k, NEW s, NEW l, Launch(t, k, r, UpdateBotStatus(t, r, s, l, "done"))
      PROVE  term' = term
  BY <1>l, CallTerm DEF Launch
<1>w. ASSUME NEW k, Waiter(t, k, r) PROVE term' = term
  BY <1>w, CallTerm DEF Waiter
<1>r. ASSUME NEW k, Recreate(t, k, r) PROVE term' = term
  BY <1>r, CallTerm DEF Recreate
<1>1. CASE StartBot(t, r) \/ AdminStartBot(t, r)
  BY <1>1, <1>n, <1>l, <1>w, AcceptTerm DEF StartBot, AdminStartBot
<1>2. CASE ProvisionTelegramBot(t, r)
  BY <1>2, <1>n, <1>l, <1>w DEF ProvisionTelegramBot, InsertRow
<1>3. ASSUME NEW k, Stop(t, k, r) PROVE TermStep
  BY <1>3, <1>n, AcceptTerm, CallTerm DEF Stop
<1>4. CASE DeleteBot(t, r) \/ AdminDeleteBot(t, r)
  BY <1>4, <1>n, AcceptTerm, CallTerm DEF DeleteBot, AdminDeleteBot
<1>u. UNCHANGED row => TermStep
  BY <1>n DEF row
<1>5. CASE RestartBot(t, r) \/ RestartAllBots(t, r)
  <2>1. ASSUME NEW k, Recreate(t, k, r) PROVE TermStep
    BY <1>n, <1>r, <2>1
  <2>2. CASE thr[t].pc = "exists" /\ DeploymentExists(t, r, "roll", "done")
    BY <1>n, <2>2, CallTerm
  <2>3. ASSUME NEW b, Accept(t, "restart", b, "roll") PROVE TermStep
    BY <1>n, <2>3, AcceptTerm
  <2> QED BY <1>5, <1>u, <2>1, <2>2, <2>3 DEF RestartBot, RestartAllBots
<1>6. CASE GetBotStatus(t, r)
  <2> DEFINE m == [thr[t].row EXCEPT !.status = "stopped"]
  <2>m. m.term = thr[t].row.term
    BY DEF TypeOK, Thread, Row
  <2> HIDE DEF m
  <2>1. ASSUME thr[t].op = "status", thr[t].pc = "save", UpdateBot(t, r, m, "done", "done")
        PROVE  TermStep
    <3>1. m.term \in Term /\ m.term >= thr[t].row.term
      BY <1>c, <2>m
    <3>2. HoldsCopy(t)
      BY <2>1 DEF HoldsCopy
    <3> QED BY <2>1, <3>1, <3>2, UpdateBotTerm
  <2>2. CASE thr[t].pc = "lookup" /\ DeploymentExists(t, r, "done", "save")
    BY <1>n, <2>2, CallTerm
  <2>3. ASSUME NEW b, Accept(t, "status", b, "probe") PROVE TermStep
    BY <1>n, <2>3, AcceptTerm
  <2> QED BY <1>6, <1>u, <2>1, <2>2, <2>3 DEF GetBotStatus, m
<1>7. CASE PutBot(t, r)
  <2>1. CASE \E b \in Bots : Accept(t, "update", b, "save")
    BY <1>n, <2>1, AcceptTerm
  <2> DEFINE m(n) == [thr[t].row EXCEPT !.term = n]
  <2>m. \A n : m(n).term = n
    BY DEF TypeOK, Thread, Row
  <2> HIDE DEF m
  <2>2. ASSUME thr[t].op = "update", thr[t].pc = "save",
               NEW n \in thr[t].row.term .. MaxTerm, UpdateBot(t, r, m(n), "done", "done")
        PROVE  TermStep
    <3>1. m(n).term \in Term /\ m(n).term >= thr[t].row.term
      BY <1>c, <2>m, ConstantsOK DEF Term
    <3>2. HoldsCopy(t)
      BY <2>2 DEF HoldsCopy
    <3> QED BY <2>2, <3>1, <3>2, UpdateBotTerm
  <2> QED BY <1>7, <2>1, <2>2 DEF PutBot, m
<1> QED
  BY <1>1, <1>2, <1>3, <1>4, <1>5, <1>6, <1>7 DEF ThreadStep, StopBot, AdminStopBot

LEMMA NextTerm ==
    ASSUME TypeOK, ThreadShape, [Next]_vars
    PROVE  TermStep
<1>n. term' = term => TermStep
  BY DEF TermStep
<1>1. CASE \E t \in Threads : \E r \in Possible(t) : ThreadStep(t, r)
  BY <1>1, ThreadStepTerm
<1>2. CASE \E t \in Threads : RestartNext(t)
  BY <1>2, <1>n DEF RestartNext, row
<1>3. CASE \E b \in Bots : \E r \in Outcomes(b) : CreateBot(b, r) \/ CleanStep(b, r)
  BY <1>3, <1>n DEF CreateBot, InsertRow, CleanStep
<1>4. CASE \E b \in Bots, s \in Listed : \E r \in Outcomes(b) : RecStep(b, s, r)
  BY <1>4, <1>n DEF RecStep
<1>5. CASE ReadList \/ ReadListFails \/ RecDone \/ RecKilled \/ CleanupStart \/ CleanKilled
  BY <1>n, <1>5 DEF ReadList, ReadListFails, RecDone, RecKilled, CleanupStart, CleanKilled, row
<1>6. CASE \E b \in Bots : PodChange(b) \/ TermEnds(b) \/ StartingTimeout(b)
  BY <1>n, <1>6 DEF PodChange, TermEnds, StartingTimeout, row
<1>7. CASE ServerCrash \/ UNCHANGED vars
  BY <1>n, <1>7 DEF ServerCrash, row, vars
<1> QED
  BY <1>1, <1>2, <1>3, <1>4, <1>5, <1>6, <1>7 DEF Next

(***************************************************************************)
(* What a step may do to the copies of rows                                *)
(***************************************************************************)
\* A copy stays as it was read, or was read in this step.
CopyStep ==
    \A t \in Threads : HoldsCopy(t)' =>
        \/ /\ HoldsCopy(t) /\ BotOf(t)' = BotOf(t) /\ thr'[t].row = thr[t].row
        \/ /\ ~HoldsCopy(t) /\ BotOf(t)' \in Bots
           /\ thr'[t].row.term = term[BotOf(t)']

LEMMA ThreadMoveCopy ==
    ASSUME TypeOK, ThreadShape, NEW t \in Threads, ThreadMove(t)
    PROVE  CopyStep
<1> SUFFICES ASSUME NEW u \in Threads, HoldsCopy(u)'
             PROVE  \/ /\ HoldsCopy(u) /\ BotOf(u)' = BotOf(u) /\ thr'[u].row = thr[u].row
                    \/ /\ ~HoldsCopy(u) /\ BotOf(u)' \in Bots
                       /\ thr'[u].row.term = term[BotOf(u)']
  BY DEF CopyStep
<1>1. thr[u] \in Thread /\ thr \in [Threads -> Thread]
  BY DEF TypeOK
<1>2. CASE thr'[u] = thr[u]
  BY <1>2 DEF HoldsCopy, BotOf
<1>3. CASE Proceeds(t)
  <2>1. PICK l \in Label : Goto(t, l)
    BY <1>3 DEF Proceeds
  <2>2. CASE u # t
    BY <1>1, <1>2, <2>1, <2>2 DEF Goto
  <2>3. CASE u = t /\ l = "done"
    <3>1. thr'[u] = Leave(thr[u])
      BY <1>1, <2>1, <2>3 DEF Goto
    <3>2. thr'[u] = Idle \/ thr'[u].op = "restartAll"
      <4>1. CASE thr[u].todo = {thr[u].bot}
        BY <3>1, <4>1 DEF Leave
      <4>2. CASE thr[u].todo # {thr[u].bot}
        <5>1. thr[u].op = "restartAll"
          BY <1>3, <2>3, <4>2 DEF ThreadShape, Proceeds, Idle
        <5> QED BY <1>1, <3>1, <5>1 DEF Leave, Thread
      <4> QED BY <4>1, <4>2
    <3> QED BY <3>2 DEF HoldsCopy, Idle
  <2>4. CASE u = t /\ l # "done"
    <3>1. thr'[u] = [thr[u] EXCEPT !.pc = l]
      BY <1>1, <2>1, <2>4 DEF Goto
    <3> QED BY <1>1, <3>1 DEF HoldsCopy, BotOf, Thread
  <2> QED BY <2>2, <2>3, <2>4
<1>4. ASSUME NEW k \in Ops \ {"restartAll"}, NEW b \in Bots, Begins(t, k, b)
      PROVE  thr'[u] = thr[u] \/ /\ ~HoldsCopy(u) /\ BotOf(u)' \in Bots
                                 /\ thr'[u].row.term = term[BotOf(u)']
  <2>1. PICK l : Enter(t, k, b, l)
    BY <1>4 DEF Begins
  <2>2. CASE u # t
    BY <1>1, <2>1, <2>2 DEF Enter
  <2>3. CASE u = t
    <3>1. thr'[u] = [op |-> k, pc |-> l, bot |-> b, todo |-> {b}, row |-> Copy(k, b)]
      BY <1>1, <2>1, <2>3 DEF Enter
    <3>2. ~HoldsCopy(u)
      BY <2>1, <2>3, IdleThread DEF Enter, HoldsCopy, Idle
    <3>3. Copy(k, b) = [status |-> status[b], term |-> term[b]]
      BY <3>1 DEF HoldsCopy, Copy
    <3> QED BY <3>1, <3>2, <3>3 DEF BotOf
  <2> QED BY <2>2, <2>3
<1>5. ASSUME NEW bots \in SUBSET Bots, BeginsAll(t, bots)
      PROVE  thr'[u] = thr[u]
  BY <1>1, <1>5 DEF BeginsAll, HoldsCopy
<1> QED BY <1>2, <1>3, <1>4, <1>5 DEF ThreadMove

LEMMA NextCopy ==
    ASSUME TypeOK, ThreadShape, [Next]_vars
    PROVE  CopyStep
<1>n. UNCHANGED thr => CopyStep
  BY DEF CopyStep, HoldsCopy, BotOf
<1>1. CASE \E t \in Threads : \E r \in Possible(t) : ThreadStep(t, r)
  BY <1>1, ThreadStepMove, ThreadMoveCopy
<1>2. ASSUME NEW t \in Threads, RestartNext(t) PROVE CopyStep
  BY <1>2 DEF RestartNext, At, TypeOK, Thread, CopyStep, HoldsCopy, BotOf
<1>3. CASE \E b \in Bots : \E r \in Outcomes(b) : CreateBot(b, r) \/ CleanStep(b, r)
  BY <1>3, <1>n DEF CreateBot, CleanStep
<1>4. CASE \E b \in Bots, s \in Listed : \E r \in Outcomes(b) : RecStep(b, s, r)
  BY <1>4, <1>n DEF RecStep
<1>5. CASE ReadList \/ ReadListFails \/ RecDone \/ RecKilled \/ CleanupStart \/ CleanKilled
  BY <1>n, <1>5 DEF ReadList, ReadListFails, RecDone, RecKilled, CleanupStart, CleanKilled
<1>6. CASE \E b \in Bots : PodChange(b) \/ TermEnds(b) \/ StartingTimeout(b)
  BY <1>n, <1>6 DEF PodChange, TermEnds, StartingTimeout
<1>7. CASE ServerCrash
  BY <1>7 DEF ServerCrash, CopyStep, HoldsCopy, Idle
<1>8. CASE UNCHANGED vars
  BY <1>n, <1>8 DEF vars
<1> QED
  BY <1>1, <1>2, <1>3, <1>4, <1>5, <1>6, <1>7, <1>8 DEF Next

(***************************************************************************)
(* What a step may do to the cleanup job and to the clock                  *)
(***************************************************************************)
\* Only a bot whose term is over is taken up, and a term that is over stays so.
CleanupTakes ==
    \A b \in Bots :
        /\ Cleaning(b)' => Cleaning(b) \/ Expired(b)
        /\ lapsed'[b] >= lapsed[b]

LEMMA NextCleanup ==
    ASSUME TypeOK, [Next]_vars
    PROVE  CleanupTakes
<1>0. \A b \in Bots : lapsed[b] \in Nat /\ term[b] \in Nat
  BY ConstantsOK DEF TypeOK, Term
<1>n. UNCHANGED <<lapsed, cpc>> => CleanupTakes
  BY <1>0 DEF CleanupTakes, Cleaning
<1>1. ASSUME NEW t \in Threads, NEW r \in Possible(t), ThreadStep(t, r)
      PROVE  CleanupTakes
  <2>1. UNCHANGED jobs
    BY <1>1, ThreadStepMove
  <2>2. UNCHANGED lapsed
    BY <1>1 DEF ThreadStep, StartBot, AdminStartBot, ProvisionTelegramBot, StopBot,
         AdminStopBot, Stop, DeleteBot, AdminDeleteBot, RestartBot, RestartAllBots, Recreate,
         GetBotStatus, PutBot, Launch, Waiter, Accept, UpdateBotStatus, UpdateBot, RemoveRow,
         CreateDeployment, ReplaceDeployment, DeleteDeployment, DeploymentExists,
         CreateService, DeleteService, WaitForPodReady
  <2> QED BY <1>n, <2>1, <2>2 DEF jobs
<1>2. CASE \E t \in Threads : RestartNext(t)
  BY <1>2, <1>n DEF RestartNext, jobs
<1>3. CASE \E b \in Bots : \E r \in Outcomes(b) : CreateBot(b, r)
  BY <1>3, <1>n DEF CreateBot, jobs
<1>4. ASSUME NEW b \in Bots, NEW r \in Outcomes(b), CleanStep(b, r)
      PROVE  CleanupTakes
  <2>1. cpc[b] # "none" /\ UNCHANGED lapsed /\ \E x : cpc' = [cpc EXCEPT ![b] = x]
    BY <1>4 DEF CleanStep, CleanDeleteDeployment, CleanDeleteService, CleanMark
  <2> QED BY <1>0, <2>1 DEF CleanupTakes, Cleaning, TypeOK
<1>5. CASE \E b \in Bots, s \in Listed : \E r \in Outcomes(b) : RecStep(b, s, r)
  BY <1>5, <1>n DEF RecStep
<1>6. CASE ReadList \/ ReadListFails \/ RecDone \/ RecKilled
  BY <1>n, <1>6 DEF ReadList, ReadListFails, RecDone, RecKilled
<1>7. CASE CleanupStart
  BY <1>0, <1>7 DEF CleanupStart, ListExpiredBots, CleanupTakes, Cleaning
<1>8. CASE CleanKilled
  BY <1>0, <1>8 DEF CleanKilled, CleanupTakes, Cleaning
<1>9. CASE \E b \in Bots : PodChange(b) \/ StartingTimeout(b)
  BY <1>n, <1>9 DEF PodChange, StartingTimeout, jobs
<1>10. ASSUME NEW b \in Bots, TermEnds(b) PROVE CleanupTakes
  BY <1>0, <1>10 DEF TermEnds, jobs, CleanupTakes, Cleaning, TypeOK
<1>11. CASE ServerCrash \/ UNCHANGED vars
  BY <1>n, <1>11 DEF ServerCrash, jobs, vars
<1> QED
  BY <1>1, <1>2, <1>3, <1>4, <1>5, <1>6, <1>7, <1>8, <1>9, <1>10, <1>11 DEF Next

(***************************************************************************)
(* Renewals                                                                *)
(***************************************************************************)
\* A copy that was read after the last renewal has the term of that renewal.
CopiesFresh ==
    \A t \in Threads \ stale :
        HoldsCopy(t) /\ BotOf(t) \in Bots \ overwritten
            => thr[t].row.term = paid[BotOf(t)]

Renewals == paid \in [Bots -> Term] /\ PaidTermKept /\ CopiesFresh

LEMMA RenewalsInit == Init /\ HistoryInit => Renewals
<1> SUFFICES ASSUME Init, HistoryInit PROVE Renewals
  OBVIOUS
<1>1. paid \in [Bots -> Term]
  BY ConstantsOK DEF Init, HistoryInit, Term
<1>2. PaidTermKept
  BY DEF Init, HistoryInit, PaidTermKept, Cleaning
<1>3. CopiesFresh
  BY DEF Init, CopiesFresh, HoldsCopy, Idle
<1> QED BY <1>1, <1>2, <1>3 DEF Renewals

LEMMA RenewalsStep ==
    ASSUME TypeOK, TypeOK', ThreadShape, Renewals, [Next]_vars, Remember
    PROVE  Renewals'
<1>0. /\ \A b \in Bots : /\ {term[b], term'[b], paid[b]} \subseteq Term
                         /\ {term[b], term'[b], paid[b], lapsed[b], lapsed'[b]} \subseteq Nat
  BY ConstantsOK DEF TypeOK, Renewals, Term
<1>1. paid' \in [Bots -> Term]
  BY <1>0 DEF Remember
\* Without a renewal the terms stay: a fresh copy has the same, a stale one marks the
\* bot as overwritten.
<1>2. ASSUME NEW b \in Bots \ overwritten', ~Renewed(b)
      PROVE  b \notin overwritten /\ paid'[b] = paid[b] /\ term'[b] = paid[b]
  <2>1. /\ b \notin overwritten /\ paid'[b] = paid[b] /\ term[b] = paid[b]
        /\ \A t \in stale : ~(BotOf(t) = b /\ Saves(t))
    BY <1>2 DEF Remember, Renewals, PaidTermKept
  <2>2. ASSUME NEW t \in Threads, TermSaved(t), term'[b] # term[b]
        PROVE  FALSE
    <3>1. PICK n \in Term : /\ n >= thr[t].row.term
                            /\ term' = [term EXCEPT ![BotOf(t)] = n]
      BY <2>2 DEF TermSaved
    <3>2. BotOf(t) = b /\ term'[b] = n
      BY <2>2, <3>1 DEF TypeOK
    <3>3. Saves(t)
      BY <2>2 DEF TermSaved, Saves, row, Idle
    <3>4. t \notin stale
      BY <2>1, <3>2, <3>3
    <3>5. thr[t].row.term = paid[b]
      BY <1>2, <2>1, <2>2, <3>2, <3>4 DEF TermSaved, Renewals, CopiesFresh
    <3> QED BY <1>0, <1>2, <2>1, <2>2, <3>1, <3>2, <3>5 DEF Renewed
  <2> QED BY <2>1, <2>2, NextTerm DEF TermStep
<1>3. PaidTermKept'
  <2> SUFFICES ASSUME NEW b \in Bots \ overwritten'
               PROVE  /\ term'[b] = paid'[b]
                      /\ Cleaning(b)' /\ b \notin caught' => paid'[b] <= lapsed'[b]
    BY DEF PaidTermKept
  <2>1. CASE Renewed(b)
    BY <2>1 DEF Remember
  <2>2. CASE ~Renewed(b)
    <3>1. b \notin overwritten /\ paid'[b] = paid[b] /\ term'[b] = paid[b]
      BY <1>2, <2>2
    <3>2. ASSUME Cleaning(b)', b \notin caught' PROVE paid[b] <= lapsed'[b]
      <4>1. b \notin caught
        BY <3>2 DEF Remember
      <4>2. paid[b] <= lapsed[b]
        BY <3>1, <3>2, <4>1, NextCleanup
           DEF CleanupTakes, Renewals, PaidTermKept, Expired
      <4> QED BY <1>0, <4>2, NextCleanup DEF CleanupTakes
    <3> QED BY <3>1, <3>2
  <2> QED BY <2>1, <2>2
<1>4. CopiesFresh'
  <2> SUFFICES ASSUME NEW t \in Threads, t \notin stale', HoldsCopy(t)',
                      BotOf(t)' \in Bots \ overwritten'
               PROVE  thr'[t].row.term = paid'[BotOf(t)']
    BY DEF CopiesFresh
  <2> DEFINE b == thr'[t].bot
  <2>1. b = BotOf(t)' /\ b \in Bots \ overwritten'
    BY DEF BotOf
  <2>2. t \notin stale /\ ~Renewed(b)
    BY DEF Remember
  <2>3. b \notin overwritten /\ paid'[b] = paid[b] /\ term[b] = paid[b]
    BY <1>2, <2>1, <2>2 DEF Renewals, PaidTermKept
  <2>4. CASE HoldsCopy(t) /\ BotOf(t)' = BotOf(t) /\ thr'[t].row = thr[t].row
    BY <2>1, <2>2, <2>3, <2>4 DEF Renewals, CopiesFresh
  <2>5. CASE thr'[t].row.term = term[BotOf(t)']
    BY <2>1, <2>3, <2>5
  <2> QED BY <2>4, <2>5, NextCopy DEF CopyStep
<1> QED BY <1>1, <1>3, <1>4 DEF Renewals

\* The history variables do not restrict the program.
LEMMA RenewalProgram == RenewalSpec => Spec
<1>1. [Next /\ Remember]_<<vars, history>> => [Next]_vars
  BY DEF history
<1> QED BY <1>1, PTL DEF RenewalSpec, Spec

\* For every bot, orderly or not: the term last paid for is in the row until a
\* request that had read the row before saves it, and the cleanup job works on the
\* bot in that term only if it had listed it before (UpdateBot, UpdateBotStatus,
\* ListExpiredBots, cleanupExpiredBots).
THEOREM PaidTermKeptHolds == RenewalSpec => []PaidTermKept
<1>1. RenewalSpec => [](TypeOK /\ ThreadShape)
  <2>1. Inv => TypeOK /\ ThreadShape
    BY DEF Inv, Sharing
  <2> QED BY <2>1, RenewalProgram, InvHolds, PTL
<1>2. Renewals /\ TypeOK /\ TypeOK' /\ ThreadShape /\ [Next /\ Remember]_<<vars, history>>
        => Renewals'
  <2>1. CASE Next /\ Remember
    BY <2>1, RenewalsStep
  <2>2. CASE UNCHANGED <<vars, history>>
    BY <2>2 DEF vars, history, Renewals, PaidTermKept, CopiesFresh, HoldsCopy, BotOf, Cleaning
  <2> QED BY <2>1, <2>2
<1>3. Renewals => PaidTermKept
  BY DEF Renewals
<1> QED BY <1>1, <1>2, <1>3, RenewalsInit, PTL DEF RenewalSpec
=============================================================================
