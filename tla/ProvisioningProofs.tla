--------------------------- MODULE ProvisioningProofs ---------------------------
(***************************************************************************)
(* Proofs about the default model of the platform, for any number of       *)
(* requests, bots, models and keys, and any bounds.                        *)
(***************************************************************************)
EXTENDS Provisioning, TLAPS

(***************************************************************************)
(* Values                                                                  *)
(***************************************************************************)
LEMMA RequestFields ==
    ASSUME NEW x \in Request
    PROVE  /\ x.pc \in {"idle", "got", "list", "loop", "push", "restart"}
           /\ x.pc # "idle" => x.task \in Task
           /\ x.pc = "got" =>
                 x \in [pc : {"got"}, task : Task, got : Store, current : BOOLEAN]
           /\ x.pc = "list" => x \in [pc : {"list"}, task : Task]
           /\ x.pc \in {"loop", "push"} =>
                 x \in [pc : {"loop", "push"}, task : Task, copy : [Bots -> Row],
                        todo : SUBSET Bots]
           /\ x.pc = "restart" =>
                 x \in [pc : {"restart"}, task : Task, listed : SUBSET Bots]
BY DEF Request, Idle

LEMMA TaskFields ==
    ASSUME NEW task \in Task
    PROVE  /\ task.kind \in Kinds /\ task.target \in Setting
           /\ task.target.name \in Names /\ task.target.key \in Keys
BY DEF Task, Setting

LEMMA IdleType == Idle \in Request /\ Idle.pc = "idle"
BY DEF Idle, Request

\* A configuration that was given a model follows it.
LEMMA WithFollows ==
    ASSUME NEW cfg \in Config, NEW s \in Setting
    PROVE  /\ With(cfg, s) \in Config
           /\ Follows(With(cfg, s), s)
<1>1. s.name \in Names /\ s.key \in Keys
  BY DEF Setting
<1>2. cfg.keys \in [Names -> Keys \cup {None}]
  BY DEF Config
<1>3. /\ [cfg.keys EXCEPT ![s.name] = s.key] \in [Names -> Keys \cup {None}]
      /\ [cfg.keys EXCEPT ![s.name] = s.key][s.name] = s.key
  BY <1>1, <1>2
<1> QED BY <1>1, <1>3 DEF With, Follows, Config

LEMMA EmptyType == Empty \in Config
BY DEF Empty, Config

\* The settings that match are those a default gave, or none.
LEMMA FollowsMatches ==
    ASSUME NEW cfg \in Config, NEW s \in Setting, Follows(cfg, s)
    PROVE  Matches(cfg, s)
BY DEF Follows, Matches

LEMMA EditedType ==
    ASSUME NEW got \in Store, NEW task \in Task
    PROVE  /\ Edited(got, task) \in Store
           /\ got.catalog \subseteq Edited(got, task).catalog
           /\ task.kind # "settings" => task.target.name \in Edited(got, task).catalog
           /\ task.kind = "catalog" => Edited(got, task).model = got.model
           /\ task.kind # "catalog" => Edited(got, task).model = task.target
BY TaskFields DEF Edited, Store, Kinds

(***************************************************************************)
(* Type correctness                                                        *)
(***************************************************************************)
LEMMA TypeInit == ConstantsOK /\ Init => TypeOK
<1> SUFFICES ASSUME ConstantsOK, Init PROVE TypeOK
  OBVIOUS
<1>1. live \in Setting /\ stored \in Store
  BY DEF Init, ConstantsOK, Store
<1>2. row \in [Bots -> Row]
  BY EmptyType DEF Init, Row
<1>3. req \in [Requests -> Request]
  BY IdleType DEF Init
<1>4. attempt \in Attempt
  BY DEF Init, NoAttempt, Attempt
<1>5. updates \in 0 .. MaxUpdates /\ crashes \in 0 .. MaxCrashes
  BY DEF Init, ConstantsOK
<1>6. /\ rollout \in BOOLEAN /\ saved \in SUBSET Names /\ followers \in SUBSET Bots
      /\ own \in [Bots -> Choices \cup {None}]
  BY DEF Init
<1> QED BY <1>1, <1>2, <1>3, <1>4, <1>5, <1>6 DEF TypeOK

\* The step of one request changes its own state.
LEMMA StepType ==
    ASSUME TypeOK, NEW r \in Requests, NEW y \in Request, Step(r, y)
    PROVE  /\ req' \in [Requests -> Request]
           /\ req'[r] = y
           /\ \A o \in Requests \ {r} : req'[o] = req[o]
BY DEF TypeOK, Step

\* Requests keep the types.
LEMMA RequestType ==
    ASSUME ConstantsOK, TypeOK, NEW r \in Requests,
           \/ \E task \in [kind : Kinds, target : Defaults] : GetConfigMap(r, task)
           \/ WriteConfigMap(r) \/ ListBots(r) \/ \E b \in Bots : RewriteBot(r, b)
           \/ Push(r) \/ EndLoop(r) \/ RestartDeployment(r) \/ Fail(r)
    PROVE  TypeOK'
<1> DEFINE x == req[r]
<1>1. x \in Request /\ stored \in Store /\ row \in [Bots -> Row] /\ attempt \in Attempt
  BY DEF TypeOK
<1>2. ASSUME NEW y \in Request, Step(r, y),
             UNCHANGED <<stored, live, rollout, row, updates, crashes, memory>>
      PROVE  TypeOK'
  <2>1. req' \in [Requests -> Request]
    BY <1>2, StepType
  <2> QED BY <1>2, <2>1 DEF memory, TypeOK
<1>3. ASSUME NEW task \in [kind : Kinds, target : Defaults], GetConfigMap(r, task)
      PROVE  TypeOK'
  <2>1. task \in Task
    BY DEF ConstantsOK, Task
  <2>2. [pc |-> "got", task |-> task, got |-> stored, current |-> TRUE] \in Request
    BY <1>1, <2>1 DEF Request
  <2>3. req' \in [Requests -> Request]
    BY <1>3, <2>2, StepType DEF GetConfigMap
  <2>4. updates' \in 0 .. MaxUpdates
    BY <1>3 DEF GetConfigMap, TypeOK, ConstantsOK
  <2> QED BY <1>3, <2>3, <2>4 DEF GetConfigMap, memory, TypeOK
<1>4. ASSUME WriteConfigMap(r)
      PROVE  TypeOK'
  <2> DEFINE task == x.task
             next == IF task.kind = "catalog"
                     THEN [pc |-> "restart", task |-> task, listed |-> {}]
                     ELSE [pc |-> "list", task |-> task]
  <2>1. x \in [pc : {"got"}, task : Task, got : Store, current : BOOLEAN]
    BY <1>1, <1>4, RequestFields DEF WriteConfigMap, At
  <2>2. stored' \in Store
    BY <1>4, <2>1, EditedType DEF WriteConfigMap
  <2>3. next \in Request
    BY <2>1 DEF Request
  <2>4. ASSUME NEW o \in Requests, req[o].pc = "got"
        PROVE  [req[o] EXCEPT !.current = FALSE] \in Request
    <3>1. req[o] \in [pc : {"got"}, task : Task, got : Store, current : BOOLEAN]
      BY <2>4, RequestFields DEF TypeOK
    <3> QED BY <3>1 DEF Request
  <2>5. req' = [o \in Requests |-> IF o = r THEN next
                                  ELSE IF req[o].pc = "got"
                                  THEN [req[o] EXCEPT !.current = FALSE]
                                  ELSE req[o]]
    BY <1>4 DEF WriteConfigMap, At
  <2>6. req' \in [Requests -> Request]
    BY <2>3, <2>4, <2>5 DEF TypeOK
  <2>7. attempt' \in Attempt
    <3>1. CASE task.kind = "catalog"
      BY <1>1, <1>4, <3>1 DEF WriteConfigMap
    <3>2. CASE task.kind # "catalog"
      <4>1. PICK m \in BOOLEAN :
               m = (attempt.mixed \/ attempt.target \notin {None, task.target})
        OBVIOUS
      <4>2. attempt' = [attempt EXCEPT !.target = task.target, !.mixed = m]
        BY <1>4, <3>2, <4>1 DEF WriteConfigMap
      <4>3. task.target \in Setting
        BY <2>1, TaskFields
      <4> QED BY <1>1, <4>2, <4>3 DEF Attempt
    <3> QED BY <3>1, <3>2
  <2> QED BY <1>4, <2>2, <2>6, <2>7 DEF WriteConfigMap, TypeOK
<1>5. ASSUME ListBots(r)
      PROVE  TypeOK'
  <2>1. x.task \in Task
    BY <1>1, <1>5, RequestFields DEF ListBots, At
  <2>2. ToRewrite(row) \in SUBSET Bots
    BY DEF ToRewrite
  <2>3. [pc |-> "loop", task |-> x.task, copy |-> row, todo |-> ToRewrite(row)] \in Request
    BY <1>1, <2>1, <2>2 DEF Request
  <2> QED BY <1>2, <1>5, <2>3 DEF ListBots
<1>6. ASSUME NEW b \in Bots, RewriteBot(r, b)
      PROVE  TypeOK'
  <2>1. x \in [pc : {"loop", "push"}, task : Task, copy : [Bots -> Row], todo : SUBSET Bots]
    BY <1>1, <1>6, RequestFields DEF RewriteBot, At
  <2>2. PICK pc \in {"loop", "push"} : Step(r, [x EXCEPT !.todo = @ \ {b}, !.pc = pc])
    BY <1>6 DEF RewriteBot
  <2>3. [x EXCEPT !.todo = @ \ {b}, !.pc = pc] \in Request
    BY <2>1 DEF Request
  <2>4. req' \in [Requests -> Request]
    BY <2>2, <2>3, StepType
  <2>5. x.copy[b] \in Row /\ x.copy[b].cfg \in Config /\ x.task.target \in Setting
    BY <2>1, TaskFields DEF Row
  <2>6. With(x.copy[b].cfg, x.task.target) \in Config
    BY <2>5, WithFollows
  <2>7. [x.copy[b] EXCEPT !.cfg = With(x.copy[b].cfg, x.task.target)] \in Row
    BY <2>5, <2>6 DEF Row
  <2>8. row' \in [Bots -> Row]
    BY <1>1, <1>6, <2>7 DEF RewriteBot, Target
  <2> QED BY <1>6, <2>4, <2>8 DEF RewriteBot, memory, TypeOK
<1>7. ASSUME Push(r)
      PROVE  TypeOK'
  <2>1. x \in [pc : {"loop", "push"}, task : Task, copy : [Bots -> Row], todo : SUBSET Bots]
    BY <1>1, <1>7, RequestFields DEF Push, At
  <2>2. [x EXCEPT !.pc = "loop"] \in Request
    BY <2>1 DEF Request
  <2> QED BY <1>2, <1>7, <2>2 DEF Push
<1>8. ASSUME EndLoop(r)
      PROVE  TypeOK'
  <2>1. x.task \in Task
    BY <1>1, <1>8, RequestFields DEF EndLoop, At
  <2>2. [pc |-> "restart", task |-> x.task,
         listed |-> {b \in Bots : Exists(x.copy[b])}] \in Request
    BY <2>1 DEF Request
  <2> QED BY <1>2, <1>8, <2>2 DEF EndLoop
<1>9. ASSUME RestartDeployment(r)
      PROVE  TypeOK'
  <2>1. x.task \in Task
    BY <1>1, <1>9, RequestFields DEF RestartDeployment, At
  <2>2. req' \in [Requests -> Request]
    BY <1>9, IdleType, StepType DEF RestartDeployment
  <2>3. saved' \in SUBSET Names
    BY <1>9, <2>1, TaskFields DEF RestartDeployment, TypeOK
  <2>4. followers' \in SUBSET Bots
    BY <1>9 DEF RestartDeployment, TypeOK
  <2>5. attempt' \in Attempt
    BY <1>1, <1>9 DEF RestartDeployment, Attempt
  <2> QED BY <1>9, <2>2, <2>3, <2>4, <2>5 DEF RestartDeployment, TypeOK
<1>10. ASSUME Fail(r)
       PROVE  TypeOK'
  BY <1>2, <1>10, IdleType DEF Fail
<1> QED BY <1>3, <1>4, <1>5, <1>6, <1>7, <1>8, <1>9, <1>10

\* So do the server and its other handlers.
LEMMA ServerType ==
    ASSUME ConstantsOK, TypeOK,
           \/ Restart
           \/ \E b \in Bots : \/ CreateBot(b) \/ Toggle(b) \/ DeleteBot(b)
                              \/ \E c \in Choices : ChooseModel(b, c)
    PROVE  TypeOK'
<1>1. stored \in Store /\ row \in [Bots -> Row] /\ attempt \in Attempt /\ live \in Setting
  BY DEF TypeOK
<1>2. ASSUME Restart
      PROVE  TypeOK'
  <2>1. req' \in [Requests -> Request]
    BY <1>2, IdleType DEF Restart
  <2>2. live' \in Setting
    BY <1>1, <1>2 DEF Restart, Store
  <2>3. crashes' \in 0 .. MaxCrashes
    BY <1>2 DEF Restart, TypeOK, ConstantsOK
  <2>4. attempt' \in Attempt
    BY <1>1, <1>2 DEF Restart, NoAttempt, Attempt
  <2> QED BY <1>2, <2>1, <2>2, <2>3, <2>4 DEF Restart, TypeOK
<1>3. ASSUME NEW b \in Bots, CreateBot(b)
      PROVE  TypeOK'
  <2>1. {Empty, With(Empty, live)} \subseteq Config
    BY <1>1, EmptyType, WithFollows
  <2>2. row' \in [Bots -> Row]
    BY <1>1, <1>3, <2>1 DEF CreateBot, Row
  <2> QED BY <1>3, <2>2 DEF CreateBot, TypeOK
<1>4. ASSUME NEW b \in Bots, Toggle(b)
      PROVE  TypeOK'
  <2>1. row[b] \in Row
    BY <1>1
  <2>2. PICK t \in BOOLEAN : t = ~row[b].running
    OBVIOUS
  <2>3. row' = [row EXCEPT ![b] = [row[b] EXCEPT !.running = t]]
    BY <1>4, <2>2 DEF Toggle
  <2>4. [row[b] EXCEPT !.running = t] \in Row
    BY <2>1 DEF Row
  <2> QED BY <1>1, <1>4, <2>3, <2>4 DEF Toggle, memory, TypeOK
<1>5. ASSUME NEW b \in Bots, DeleteBot(b)
      PROVE  TypeOK'
  <2>1. row[b] \in Row
    BY <1>1
  <2>2. [row[b] EXCEPT !.is = "gone", !.running = FALSE] \in Row
    BY <2>1 DEF Row
  <2>3. row' = [row EXCEPT ![b] = [row[b] EXCEPT !.is = "gone", !.running = FALSE]]
    BY <1>1, <1>5 DEF DeleteBot
  <2> QED BY <1>1, <1>5, <2>2, <2>3 DEF DeleteBot, TypeOK
<1>6. ASSUME NEW b \in Bots, NEW c \in Choices, ChooseModel(b, c)
      PROVE  TypeOK'
  <2>1. row[b] \in Row /\ row[b].cfg \in Config /\ c \in Setting
    BY <1>1 DEF ConstantsOK, Row
  <2>2. With(row[b].cfg, c) \in Config
    BY <2>1, WithFollows
  <2>3. [row[b] EXCEPT !.cfg = With(row[b].cfg, c)] \in Row
    BY <2>1, <2>2 DEF Row
  <2> QED BY <1>1, <1>6, <2>3 DEF ChooseModel, TypeOK
<1> QED BY <1>2, <1>3, <1>4, <1>5, <1>6

LEMMA TypeStep == ConstantsOK /\ TypeOK /\ [Next]_vars => TypeOK'
<1> SUFFICES ASSUME ConstantsOK, TypeOK, [Next]_vars PROVE TypeOK'
  OBVIOUS
<1>1. CASE UNCHANGED vars
  BY <1>1 DEF vars, TypeOK
<1>2. CASE Next
  BY <1>2, RequestType, ServerType DEF Next
<1> QED BY <1>1, <1>2

\* Every reachable state has the declared types.
THEOREM TypeCorrect == Spec => []TypeOK
<1>1. Init => TypeOK
  BY ConstantsOK, TypeInit
<1>2. TypeOK /\ [Next]_vars => TypeOK'
  BY ConstantsOK, TypeStep
<1> QED BY <1>1, <1>2, PTL DEF Spec

(***************************************************************************)
(* What requests know of the ConfigMap, and hold of the bots               *)
(***************************************************************************)
Catalogued ==
    /\ saved \subseteq stored.catalog
    /\ \A r \in Requests :
          /\ req[r].pc = "got" /\ req[r].current => req[r].got = stored
          /\ req[r].pc \in {"list", "loop", "push"} => req[r].task.kind # "catalog"
          /\ req[r].pc \in {"list", "loop", "push", "restart"}
                /\ req[r].task.kind # "settings" =>
                   req[r].task.target.name \in stored.catalog

\* A request goes on, and the ConfigMap stays what it is.
LEMMA CataloguedKept ==
    ASSUME TypeOK, Catalogued, NEW r \in Requests, NEW y \in Request, Step(r, y),
           stored' = stored, saved' \subseteq stored.catalog,
           y.pc = "got" /\ y.current => y.got = stored,
           y.pc \in {"list", "loop", "push"} => y.task.kind # "catalog",
           y.pc \in {"list", "loop", "push", "restart"} /\ y.task.kind # "settings" =>
              y.task.target.name \in stored.catalog
    PROVE  Catalogued'
<1>1. req'[r] = y /\ \A o \in Requests \ {r} : req'[o] = req[o]
  BY StepType
<1> QED BY <1>1 DEF Catalogued

LEMMA CataloguedRequest ==
    ASSUME ConstantsOK, TypeOK, Catalogued, NEW r \in Requests,
           \/ \E task \in [kind : Kinds, target : Defaults] : GetConfigMap(r, task)
           \/ WriteConfigMap(r) \/ ListBots(r) \/ \E b \in Bots : RewriteBot(r, b)
           \/ Push(r) \/ EndLoop(r) \/ RestartDeployment(r) \/ Fail(r)
    PROVE  Catalogued'
<1> DEFINE x == req[r]
<1>1. x \in Request /\ stored \in Store /\ row \in [Bots -> Row]
  BY DEF TypeOK
<1>2. saved \subseteq stored.catalog
  BY DEF Catalogued
<1>3. ASSUME NEW task \in [kind : Kinds, target : Defaults], GetConfigMap(r, task)
      PROVE  Catalogued'
  <2>1. task \in Task
    BY DEF ConstantsOK, Task
  <2>2. [pc |-> "got", task |-> task, got |-> stored, current |-> TRUE] \in Request
    BY <1>1, <2>1 DEF Request
  <2> QED BY <1>2, <1>3, <2>2, CataloguedKept DEF GetConfigMap, memory
<1>4. ASSUME WriteConfigMap(r)
      PROVE  Catalogued'
  <2> DEFINE task == x.task
             next == IF task.kind = "catalog"
                     THEN [pc |-> "restart", task |-> task, listed |-> {}]
                     ELSE [pc |-> "list", task |-> task]
  <2>1. x.pc = "got" /\ x.got = stored /\ task \in Task
    BY <1>1, <1>4, RequestFields DEF WriteConfigMap, At, Accepted, Catalogued
  <2>2. stored' = Edited(stored, task) /\ saved' = saved
    BY <1>4, <2>1 DEF WriteConfigMap
  <2>3. /\ stored.catalog \subseteq stored'.catalog
        /\ task.kind # "settings" => task.target.name \in stored'.catalog
    BY <1>1, <2>1, <2>2, EditedType
  <2>4. req'[r] = next
    BY <1>4 DEF WriteConfigMap
  <2>5. /\ next.pc \in {"list", "restart"} /\ next.task = task
        /\ next.pc = "list" => task.kind # "catalog"
    OBVIOUS
  <2>6. ASSUME NEW o \in Requests \ {r}
        PROVE  /\ req'[o].pc = "got" => ~req'[o].current
               /\ req'[o].pc # "got" => req'[o] = req[o]
    <3>1. CASE req[o].pc = "got"
      <4>1. req[o] \in [pc : {"got"}, task : Task, got : Store, current : BOOLEAN]
        BY <3>1, RequestFields DEF TypeOK
      <4>2. req'[o] = [req[o] EXCEPT !.current = FALSE]
        BY <1>4, <3>1 DEF WriteConfigMap, At
      <4> QED BY <4>1, <4>2
    <3>2. CASE req[o].pc # "got"
      BY <1>4, <3>2 DEF WriteConfigMap, At
    <3> QED BY <3>1, <3>2
  <2> HIDE DEF next
  <2>7. ASSUME NEW o \in Requests
        PROVE  /\ req'[o].pc = "got" /\ req'[o].current => req'[o].got = stored'
               /\ req'[o].pc \in {"list", "loop", "push"} => req'[o].task.kind # "catalog"
               /\ req'[o].pc \in {"list", "loop", "push", "restart"}
                     /\ req'[o].task.kind # "settings" =>
                        req'[o].task.target.name \in stored'.catalog
    <3>1. CASE o = r
      BY <2>3, <2>4, <2>5, <3>1
    <3>2. CASE o # r
      BY <2>3, <2>6, <3>2 DEF Catalogued
    <3> QED BY <3>1, <3>2
  <2> QED BY <1>2, <2>2, <2>3, <2>7 DEF Catalogued
<1>5. ASSUME ListBots(r)
      PROVE  Catalogued'
  <2> DEFINE y == [pc |-> "loop", task |-> x.task, copy |-> row, todo |-> ToRewrite(row)]
  <2>1. x.task \in Task /\ ToRewrite(row) \in SUBSET Bots
    BY <1>1, <1>5, RequestFields DEF ListBots, At, ToRewrite
  <2>2. y \in Request /\ y.pc = "loop" /\ y.task = x.task
    BY <1>1, <2>1 DEF Request
  <2>3. Step(r, y) /\ x.pc = "list" /\ stored' = stored /\ saved' = saved
    BY <1>5 DEF ListBots, At, memory
  <2> HIDE DEF y
  <2> QED BY <1>2, <2>2, <2>3, CataloguedKept DEF Catalogued
<1>6. ASSUME \/ Push(r) \/ \E b \in Bots : RewriteBot(r, b)
      PROVE  Catalogued'
  <2>1. x \in [pc : {"loop", "push"}, task : Task, copy : [Bots -> Row], todo : SUBSET Bots]
    BY <1>1, <1>6, RequestFields DEF RewriteBot, Push, At
  <2>2. stored' = stored /\ saved' = saved
    BY <1>6 DEF Push, RewriteBot, memory
  <2>3. ASSUME NEW y \in Request, Step(r, y), y.pc \in {"loop", "push"}, y.task = x.task
        PROVE  Catalogued'
    BY <1>2, <2>1, <2>2, <2>3, CataloguedKept DEF Catalogued
  <2>4. CASE Push(r)
    <3>1. /\ [x EXCEPT !.pc = "loop"] \in Request
          /\ [x EXCEPT !.pc = "loop"].pc = "loop"
          /\ [x EXCEPT !.pc = "loop"].task = x.task
      BY <2>1 DEF Request
    <3> QED BY <2>3, <2>4, <3>1 DEF Push
  <2>5. ASSUME NEW b \in Bots, RewriteBot(r, b)
        PROVE  Catalogued'
    <3>1. PICK pc \in {"loop", "push"} : Step(r, [x EXCEPT !.todo = @ \ {b}, !.pc = pc])
      BY <2>5 DEF RewriteBot
    <3>2. /\ [x EXCEPT !.todo = @ \ {b}, !.pc = pc] \in Request
          /\ [x EXCEPT !.todo = @ \ {b}, !.pc = pc].pc = pc
          /\ [x EXCEPT !.todo = @ \ {b}, !.pc = pc].task = x.task
      BY <2>1 DEF Request
    <3> QED BY <2>3, <3>1, <3>2
  <2> QED BY <1>6, <2>4, <2>5
<1>7. ASSUME EndLoop(r)
      PROVE  Catalogued'
  <2> DEFINE y == [pc |-> "restart", task |-> x.task,
                   listed |-> {b \in Bots : Exists(x.copy[b])}]
  <2>1. x.task \in Task
    BY <1>1, <1>7, RequestFields DEF EndLoop, At
  <2>2. y \in Request /\ y.pc = "restart" /\ y.task = x.task
    BY <2>1 DEF Request
  <2>3. Step(r, y) /\ x.pc = "loop" /\ stored' = stored /\ saved' = saved
    BY <1>7 DEF EndLoop, At, memory
  <2> HIDE DEF y
  <2> QED BY <1>2, <2>2, <2>3, CataloguedKept DEF Catalogued
<1>8. ASSUME RestartDeployment(r)
      PROVE  Catalogued'
  <2>1. Step(r, Idle) /\ x.pc = "restart" /\ stored' = stored
    BY <1>8 DEF RestartDeployment, At
  <2>2. saved' \subseteq stored.catalog
    BY <1>2, <1>8, <2>1 DEF RestartDeployment, Catalogued
  <2> QED BY <2>1, <2>2, IdleType, CataloguedKept
<1>9. ASSUME Fail(r)
      PROVE  Catalogued'
  BY <1>2, <1>9, IdleType, CataloguedKept DEF Fail, memory
<1> QED BY <1>3, <1>4, <1>5, <1>6, <1>7, <1>8, <1>9

LEMMA CataloguedStep == ConstantsOK /\ TypeOK /\ Catalogued /\ [Next]_vars => Catalogued'
<1> SUFFICES ASSUME ConstantsOK, TypeOK, Catalogued, [Next]_vars PROVE Catalogued'
  OBVIOUS
<1>1. CASE UNCHANGED vars
  BY <1>1 DEF vars, memory, Catalogued
<1>2. CASE Restart
  <2>1. \A r \in Requests : req'[r] = Idle
    BY <1>2 DEF Restart
  <2> QED BY <1>2, <2>1, IdleType DEF Restart, Catalogued
<1>3. CASE \E b \in Bots : \/ CreateBot(b) \/ Toggle(b) \/ DeleteBot(b)
                           \/ \E c \in Choices : ChooseModel(b, c)
  <2>1. UNCHANGED <<stored, saved, req>>
    BY <1>3 DEF CreateBot, Toggle, DeleteBot, ChooseModel, memory
  <2> QED BY <2>1 DEF Catalogued
<1>4. CASE Next
  BY <1>2, <1>3, <1>4, CataloguedRequest DEF Next
<1> QED BY <1>1, <1>4

LEMMA AlwaysCatalogued == Spec => [](TypeOK /\ Catalogued)
<1>1. Init => TypeOK /\ Catalogued
  <2> SUFFICES ASSUME Init PROVE Catalogued
    BY ConstantsOK, TypeInit
  <2>1. \A r \in Requests : req[r] = Idle
    BY DEF Init
  <2> QED BY <2>1, IdleType DEF Init, Catalogued
<1>2. TypeOK /\ Catalogued /\ [Next]_vars => (TypeOK /\ Catalogued)'
  BY ConstantsOK, TypeStep, CataloguedStep
<1> QED BY <1>1, <1>2, PTL DEF Spec

\* Updates of the settings that overlap never take a provider out of the ConfigMap
\* whose request was answered with success (UpsertConfiguredProvider): what is
\* written was edited from what is there.
THEOREM ProvidersKeptHolds == Spec => []ProvidersKept
<1>1. TypeOK /\ Catalogued => ProvidersKept
  BY DEF Catalogued, ProvidersKept
<1> QED BY <1>1, AlwaysCatalogued, PTL

(***************************************************************************)
(* The models of owners                                                    *)
(***************************************************************************)
Owned ==
    /\ live \in Defaults /\ stored.model \in Defaults
    /\ \A r \in Requests : req[r].pc # "idle" => req[r].task.target \in Defaults
    /\ \A b \in Bots : own[b] # None =>
          /\ Follows(row[b].cfg, own[b]) /\ row[b].is # "unborn"
          /\ \A r \in Requests : req[r].pc \in {"loop", "push"} => b \notin req[r].todo

\* An update never takes an owner's model for the default: they differ.
LEMMA OwnNotRewritten ==
    ASSUME ConstantsOK, TypeOK, Owned, NEW b \in Bots, own[b] # None
    PROVE  b \notin ToRewrite(row)
<1>1. own[b] \in Choices /\ own[b] \in Setting /\ live \in Setting /\ own[b] # live
  BY DEF TypeOK, Owned, ConstantsOK
<1>2. own[b].name \in Names /\ own[b].key \in Keys
  BY <1>1 DEF Setting
<1>3. own[b].name # live.name \/ own[b].key # live.key
  BY <1>1 DEF Setting
<1>4. Follows(row[b].cfg, own[b])
  BY DEF Owned
<1>5. ~Matches(row[b].cfg, live)
  BY <1>2, <1>3, <1>4 DEF Matches, Follows, ConstantsOK
<1> QED BY <1>5 DEF ToRewrite

\* A request goes on without a row being written.
LEMMA OwnedKept ==
    ASSUME TypeOK, Owned, NEW r \in Requests, NEW y \in Request, Step(r, y),
           UNCHANGED <<stored, live, row, own>>,
           y.pc # "idle" => y.task.target \in Defaults,
           y.pc \in {"loop", "push"} => \A b \in Bots : own[b] # None => b \notin y.todo
    PROVE  Owned'
<1>1. req'[r] = y /\ \A o \in Requests \ {r} : req'[o] = req[o]
  BY StepType
<1> QED BY <1>1 DEF Owned

LEMMA OwnedRequest ==
    ASSUME ConstantsOK, TypeOK, Catalogued, Owned, NEW r \in Requests,
           \/ \E task \in [kind : Kinds, target : Defaults] : GetConfigMap(r, task)
           \/ WriteConfigMap(r) \/ ListBots(r) \/ \E b \in Bots : RewriteBot(r, b)
           \/ Push(r) \/ EndLoop(r) \/ RestartDeployment(r) \/ Fail(r)
    PROVE  Owned'
<1> DEFINE x == req[r]
<1>1. x \in Request /\ stored \in Store /\ row \in [Bots -> Row]
  BY DEF TypeOK
<1>2. x.pc # "idle" => x.task.target \in Defaults
  BY DEF Owned
<1>3. ASSUME NEW task \in [kind : Kinds, target : Defaults], GetConfigMap(r, task)
      PROVE  Owned'
  <2> DEFINE y == [pc |-> "got", task |-> task, got |-> stored, current |-> TRUE]
  <2>1. task \in Task
    BY DEF ConstantsOK, Task
  <2>2. y \in Request /\ y.pc = "got" /\ y.task.target \in Defaults
    BY <1>1, <2>1 DEF Request
  <2>3. Step(r, y)
    BY <1>3 DEF GetConfigMap
  <2> HIDE DEF y
  <2> QED BY <1>3, <2>2, <2>3, OwnedKept DEF GetConfigMap, memory
<1>4. ASSUME WriteConfigMap(r)
      PROVE  Owned'
  <2> DEFINE task == x.task
             next == IF task.kind = "catalog"
                     THEN [pc |-> "restart", task |-> task, listed |-> {}]
                     ELSE [pc |-> "list", task |-> task]
  <2>1. x.pc = "got" /\ x.got = stored /\ task \in Task
    BY <1>1, <1>4, RequestFields DEF WriteConfigMap, At, Accepted, Catalogued
  <2>2. stored' = Edited(stored, task) /\ UNCHANGED <<live, row, own>>
    BY <1>4, <2>1 DEF WriteConfigMap
  <2>3. stored'.model \in Defaults
    BY <1>1, <1>2, <2>1, <2>2, EditedType DEF Owned
  <2>4. req'[r] = next /\ next.pc \in {"list", "restart"} /\ next.task = task
    BY <1>4 DEF WriteConfigMap
  <2>5. ASSUME NEW o \in Requests \ {r}
        PROVE  /\ req'[o].pc = req[o].pc
               /\ req[o].pc # "idle" => req'[o].task = req[o].task
               /\ req[o].pc # "got" => req'[o] = req[o]
    <3>1. CASE req[o].pc = "got"
      <4>1. req[o] \in [pc : {"got"}, task : Task, got : Store, current : BOOLEAN]
        BY <3>1, RequestFields DEF TypeOK
      <4>2. req'[o] = [req[o] EXCEPT !.current = FALSE]
        BY <1>4, <3>1 DEF WriteConfigMap, At
      <4> QED BY <3>1, <4>1, <4>2
    <3>2. CASE req[o].pc # "got"
      BY <1>4, <3>2 DEF WriteConfigMap, At
    <3> QED BY <3>1, <3>2
  <2> HIDE DEF next
  <2>6. \A o \in Requests : req'[o].pc # "idle" => req'[o].task.target \in Defaults
    BY <1>2, <2>1, <2>4, <2>5 DEF Owned
  <2>7. ASSUME NEW b \in Bots, own[b] # None, NEW o \in Requests,
               req'[o].pc \in {"loop", "push"}
        PROVE  b \notin req'[o].todo
    <3>1. o # r /\ req'[o] = req[o]
      BY <2>4, <2>5, <2>7
    <3> QED BY <2>7, <3>1 DEF Owned
  <2> QED BY <2>2, <2>3, <2>6, <2>7 DEF Owned
<1>5. ASSUME ListBots(r)
      PROVE  Owned'
  <2> DEFINE y == [pc |-> "loop", task |-> x.task, copy |-> row, todo |-> ToRewrite(row)]
  <2>1. x.pc = "list" /\ x.task \in Task /\ ToRewrite(row) \in SUBSET Bots
    BY <1>1, <1>5, RequestFields DEF ListBots, At, ToRewrite
  <2>2. y \in Request /\ y.pc = "loop" /\ y.task = x.task /\ y.todo = ToRewrite(row)
    BY <1>1, <2>1 DEF Request
  <2>3. Step(r, y) /\ UNCHANGED <<stored, live, row, own>>
    BY <1>5 DEF ListBots, memory
  <2> HIDE DEF y
  <2> QED BY <1>2, <2>1, <2>2, <2>3, OwnNotRewritten, OwnedKept
<1>6. ASSUME Push(r)
      PROVE  Owned'
  <2>1. x \in [pc : {"loop", "push"}, task : Task, copy : [Bots -> Row], todo : SUBSET Bots]
    BY <1>1, <1>6, RequestFields DEF Push, At
  <2>2. PICK y : y = [x EXCEPT !.pc = "loop"]
    OBVIOUS
  <2>3. y \in Request /\ y.pc = "loop" /\ y.task = x.task /\ y.todo = x.todo
    BY <2>1, <2>2 DEF Request
  <2>4. Step(r, y) /\ UNCHANGED <<stored, live, row, own>>
    BY <1>6, <2>2 DEF Push, memory
  <2> QED BY <1>2, <2>1, <2>3, <2>4, OwnedKept DEF Owned
<1>7. ASSUME NEW b \in Bots, RewriteBot(r, b)
      PROVE  Owned'
  <2>1. x \in [pc : {"loop", "push"}, task : Task, copy : [Bots -> Row], todo : SUBSET Bots]
    BY <1>1, <1>7, RequestFields DEF RewriteBot, At
  <2>2. PICK pc \in {"loop", "push"} : Step(r, [x EXCEPT !.todo = @ \ {b}, !.pc = pc])
    BY <1>7 DEF RewriteBot
  <2>3. PICK y : y = [x EXCEPT !.todo = @ \ {b}, !.pc = pc]
    OBVIOUS
  <2>4. y \in Request /\ y.pc = pc /\ y.task = x.task /\ y.todo = x.todo \ {b}
    BY <2>1, <2>3 DEF Request
  <2>5. req'[r] = y /\ \A o \in Requests \ {r} : req'[o] = req[o]
    BY <2>2, <2>3, <2>4, StepType
  <2>6. own[b] = None
    BY <1>7, <2>1 DEF RewriteBot, Owned
  <2>7. \A c \in Bots \ {b} : row'[c] = row[c]
    BY <1>1, <1>7 DEF RewriteBot
  <2>8. UNCHANGED <<stored, live, own>>
    BY <1>7 DEF RewriteBot, memory
  <2>9. \A o \in Requests : req'[o].pc # "idle" => req'[o].task.target \in Defaults
    BY <1>2, <2>1, <2>4, <2>5 DEF Owned
  <2>10. ASSUME NEW c \in Bots, own[c] # None, NEW o \in Requests,
                req'[o].pc \in {"loop", "push"}
         PROVE  c \notin req'[o].todo
    BY <2>1, <2>4, <2>5, <2>10 DEF Owned
  <2> QED BY <2>6, <2>7, <2>8, <2>9, <2>10 DEF Owned
<1>8. ASSUME EndLoop(r)
      PROVE  Owned'
  <2> DEFINE y == [pc |-> "restart", task |-> x.task,
                   listed |-> {b \in Bots : Exists(x.copy[b])}]
  <2>1. x.pc = "loop" /\ x.task \in Task
    BY <1>1, <1>8, RequestFields DEF EndLoop, At
  <2>2. y \in Request /\ y.pc = "restart" /\ y.task = x.task
    BY <2>1 DEF Request
  <2>3. Step(r, y) /\ UNCHANGED <<stored, live, row, own>>
    BY <1>8 DEF EndLoop, memory
  <2> HIDE DEF y
  <2> QED BY <1>2, <2>1, <2>2, <2>3, OwnedKept
<1>9. ASSUME RestartDeployment(r) \/ Fail(r)
      PROVE  Owned'
  <2>1. Step(r, Idle) /\ UNCHANGED <<stored, live, row, own>>
    BY <1>9 DEF RestartDeployment, Fail, memory
  <2> QED BY <2>1, IdleType, OwnedKept
<1> QED BY <1>3, <1>4, <1>5, <1>6, <1>7, <1>8, <1>9

LEMMA OwnedServer ==
    ASSUME ConstantsOK, TypeOK, Owned,
           \/ Restart
           \/ \E b \in Bots : \/ CreateBot(b) \/ Toggle(b) \/ DeleteBot(b)
                              \/ \E c \in Choices : ChooseModel(b, c)
    PROVE  Owned'
<1>1. \A b \in Bots : row[b] \in Row /\ row[b].cfg \in Config
  BY DEF TypeOK, Row
<1>2. CASE Restart
  <2>1. \A r \in Requests : req'[r].pc = "idle"
    BY <1>2, IdleType DEF Restart
  <2>2. live' = stored.model /\ UNCHANGED <<stored, row, own>>
    BY <1>2 DEF Restart
  <2> QED BY <2>1, <2>2 DEF Owned
<1>3. ASSUME NEW b \in Bots, CreateBot(b) \/ Toggle(b) \/ DeleteBot(b)
      PROVE  Owned'
  <2>1. /\ UNCHANGED <<stored, live, req>>
        /\ \A c \in Bots \ {b} : row'[c] = row[c]
        /\ \A c \in Bots : own'[c] \in {own[c], None}
        /\ \A c \in Bots \ {b} : own'[c] = own[c]
    BY <1>3 DEF CreateBot, Toggle, DeleteBot, memory, TypeOK
  <2>2. own'[b] # None => Follows(row'[b].cfg, own'[b]) /\ row'[b].is # "unborn"
    <3>1. CASE CreateBot(b)
      BY <3>1 DEF CreateBot, Owned
    <3>2. CASE Toggle(b)
      <4>1. row'[b].cfg = row[b].cfg /\ row'[b].is = row[b].is /\ own' = own
        BY <1>1, <3>2 DEF Toggle, memory, TypeOK, Row
      <4> QED BY <4>1 DEF Owned
    <3>3. CASE DeleteBot(b)
      BY <3>3 DEF DeleteBot, TypeOK
    <3> QED BY <1>3, <3>1, <3>2, <3>3
  <2> QED BY <2>1, <2>2 DEF Owned
<1>4. ASSUME NEW b \in Bots, NEW c \in Choices, ChooseModel(b, c)
      PROVE  Owned'
  <2>1. c \in Setting
    BY DEF ConstantsOK
  <2>2. row' = [row EXCEPT ![b] = [row[b] EXCEPT !.cfg = With(row[b].cfg, c)]]
    BY <1>4 DEF ChooseModel
  <2>3. /\ row'[b].cfg = With(row[b].cfg, c) /\ row'[b].is = row[b].is
        /\ \A d \in Bots \ {b} : row'[d] = row[d]
    BY <1>1, <2>2 DEF TypeOK, Row
  <2>4. UNCHANGED <<stored, live, req>> /\ row[b].is = "there"
    BY <1>4 DEF ChooseModel, Exists
  <2>5. own' = [own EXCEPT ![b] = IF HeldBySome(b) THEN None ELSE c]
    BY <1>4 DEF ChooseModel
  <2>6. /\ \A d \in Bots \ {b} : own'[d] = own[d]
        /\ own'[b] # None => own'[b] = c /\ ~HeldBySome(b)
    BY <2>5 DEF TypeOK
  <2>7. Follows(row'[b].cfg, c)
    BY <1>1, <2>1, <2>3, WithFollows
  <2> QED BY <2>3, <2>4, <2>6, <2>7 DEF Owned, HeldBySome
<1> QED BY <1>2, <1>3, <1>4

LEMMA OwnedStep ==
    ConstantsOK /\ TypeOK /\ Catalogued /\ Owned /\ [Next]_vars => Owned'
<1> SUFFICES ASSUME ConstantsOK, TypeOK, Catalogued, Owned, [Next]_vars PROVE Owned'
  OBVIOUS
<1>1. CASE UNCHANGED vars
  BY <1>1 DEF vars, memory, Owned
<1>2. CASE Next
  BY <1>2, OwnedRequest, OwnedServer DEF Next
<1> QED BY <1>1, <1>2

\* The model an owner chose for his bot stays, whatever updates of the default do,
\* unless one held an older copy of the row (syncExistingBotsToProvisionSettings,
\* botMatchesProvisionModel): the defaults and the choices are different settings.
THEOREM OwnerKeptHolds == Spec => []OwnerKept
<1>1. Init => Owned
  <2> SUFFICES ASSUME Init PROVE Owned
    OBVIOUS
  <2>1. /\ live \in Defaults /\ stored.model = live
        /\ \A r \in Requests : req[r].pc = "idle"
        /\ \A b \in Bots : own[b] = None
    BY IdleType DEF Init
  <2> QED BY <2>1 DEF Owned
<1>2. (TypeOK /\ Catalogued) /\ Owned /\ [Next]_vars => Owned'
  BY ConstantsOK, OwnedStep
<1>3. Owned => OwnerKept
  BY DEF Owned, OwnerKept
<1> QED BY <1>1, <1>2, <1>3, AlwaysCatalogued, PTL DEF Spec

(***************************************************************************)
(* An update that is tried again                                           *)
(***************************************************************************)
\* A request that wrote a default has still to answer.
Wrote(r) == req[r].pc \in {"list", "loop", "push", "restart"} /\ req[r].task.kind # "catalog"

Born ==
    /\ \A b \in followers : Exists(row[b])
    /\ \A r \in Requests :
          /\ req[r].pc \in {"loop", "push"} =>
                \A b \in Bots : Exists(req[r].copy[b]) => row[b].is # "unborn"
          /\ req[r].pc \in {"loop", "push"} =>
                \A b \in req[r].todo : Exists(req[r].copy[b])
          /\ req[r].pc = "restart" => \A b \in req[r].listed : row[b].is # "unborn"

\* All attempts had one target, which is in the ConfigMap. Bots that follow a default
\* follow this one or what the server takes for the previous one, and this one when a
\* request that listed them is through with them.
Single ==
    /\ attempt.target = None =>
          live = stored.model /\ ~attempt.complete /\ \A r \in Requests : ~Wrote(r)
    /\ attempt.target # None =>
          /\ stored.model = attempt.target
          /\ \A r \in Requests : Wrote(r) => Target(r) = attempt.target
    /\ \A b \in followers :
          /\ Matches(row[b].cfg, live)
                \/ (attempt.target # None /\ Follows(row[b].cfg, attempt.target))
          /\ attempt.complete => Follows(row[b].cfg, attempt.target)
    /\ \A r \in Requests : req[r].pc \in {"loop", "push"} =>
          \A b \in followers : Exists(req[r].copy[b]) /\ b \notin req[r].todo =>
             Follows(row[b].cfg, attempt.target)
    /\ \A r \in Requests : req[r].pc = "restart" /\ Wrote(r) =>
          \A b \in followers \cap req[r].listed : Follows(row[b].cfg, attempt.target)

Retried == Born /\ (~attempt.mixed => Single)

\* A request goes on without a row being written.
LEMMA RetriedKept ==
    ASSUME TypeOK, Retried, NEW r \in Requests, NEW y \in Request, Step(r, y),
           UNCHANGED <<stored, live, row, followers, attempt>>,
           y.pc \in {"list", "loop", "push", "restart"} =>
              /\ req[r].pc \in {"list", "loop", "push", "restart"}
              /\ y.task = req[r].task,
           y.pc \in {"loop", "push"} =>
              /\ \A b \in Bots : Exists(y.copy[b]) => row[b].is # "unborn"
              /\ \A b \in y.todo : Exists(y.copy[b])
              /\ ~attempt.mixed => \A b \in followers :
                    Exists(y.copy[b]) /\ b \notin y.todo => Follows(row[b].cfg, attempt.target),
           y.pc = "restart" =>
              /\ \A b \in y.listed : row[b].is # "unborn"
              /\ ~attempt.mixed => \A b \in followers \cap y.listed :
                    Follows(row[b].cfg, attempt.target)
    PROVE  Retried'
<1>1. req'[r] = y /\ \A o \in Requests \ {r} : req'[o] = req[o]
  BY StepType
<1>2. \A o \in Requests : Wrote(o)' => Wrote(o) /\ Target(o)' = Target(o)
  BY <1>1 DEF Wrote, Target
<1>3. Born'
  BY <1>1 DEF Retried, Born
<1>4. ASSUME ~attempt'.mixed
      PROVE  Single'
  <2>1. Single
    BY <1>4 DEF Retried
  <2>2. \A o \in Requests : req'[o].pc \in {"loop", "push"} =>
          \A b \in followers : Exists(req'[o].copy[b]) /\ b \notin req'[o].todo =>
             Follows(row[b].cfg, attempt.target)
    BY <1>1, <1>4, <2>1 DEF Single
  <2>3. \A o \in Requests : req'[o].pc = "restart" /\ Wrote(o)' =>
          \A b \in followers \cap req'[o].listed : Follows(row[b].cfg, attempt.target)
    BY <1>1, <1>2, <1>4, <2>1 DEF Single
  <2>4. /\ attempt.target = None =>
              live = stored.model /\ ~attempt.complete /\ \A o \in Requests : ~Wrote(o)'
        /\ attempt.target # None =>
              /\ stored.model = attempt.target
              /\ \A o \in Requests : Wrote(o)' => Target(o)' = attempt.target
    BY <1>2, <2>1 DEF Single
  <2> QED BY <2>1, <2>2, <2>3, <2>4 DEF Single
<1> QED BY <1>3, <1>4 DEF Retried

\* A row is written by a handler of its bot.
LEMMA RowsKept ==
    ASSUME TypeOK, Retried, UNCHANGED <<stored, live, req, attempt>>,
           followers' \subseteq followers,
           \A b \in Bots : row'[b].is = "unborn" => row[b].is = "unborn",
           \A b \in followers' : Exists(row'[b]) /\ row'[b].cfg = row[b].cfg
    PROVE  Retried'
<1>1. \A o \in Requests : Wrote(o)' <=> Wrote(o)
  BY DEF Wrote
<1>2. Born'
  <2>1. \A r \in Requests : req[r].pc = "restart" => req[r].listed \subseteq Bots
    BY RequestFields DEF TypeOK
  <2>2. /\ \A b \in followers : Exists(row[b])
        /\ \A b \in Bots : row'[b].is = "unborn" => row[b].is = "unborn"
    BY DEF Retried, Born
  <2> QED BY <2>1, <2>2 DEF Retried, Born
<1>3. ASSUME ~attempt'.mixed
      PROVE  Single'
  <2>1. Single
    BY <1>3 DEF Retried
  <2> QED BY <1>1, <2>1 DEF Single, Target
<1> QED BY <1>2, <1>3 DEF Retried

LEMMA RetriedWrite ==
    ASSUME ConstantsOK, TypeOK, Catalogued, Retried, NEW r \in Requests, WriteConfigMap(r)
    PROVE  Retried'
<1> DEFINE x == req[r]
           task == x.task
           next == IF task.kind = "catalog"
                   THEN [pc |-> "restart", task |-> task, listed |-> {}]
                   ELSE [pc |-> "list", task |-> task]
<1>1. /\ x.pc = "got" /\ x.got = stored /\ task \in Task /\ task.target \in Setting
      /\ attempt \in Attempt
  <2>1. x.pc = "got" /\ x.got = stored
    BY DEF WriteConfigMap, At, Accepted, Catalogued
  <2> QED BY <2>1, RequestFields, TaskFields DEF TypeOK
<1>2. stored' = Edited(stored, task) /\ UNCHANGED <<live, row, followers>>
  BY <1>1 DEF WriteConfigMap
<1>3. IF task.kind = "catalog" THEN stored'.model = stored.model
      ELSE stored'.model = task.target
  BY <1>1, <1>2, EditedType DEF TypeOK
<1>4. /\ req'[r] = next /\ next.pc \in {"list", "restart"} /\ next.task = task
      /\ next.pc = "restart" => next.listed = {} /\ task.kind = "catalog"
      /\ next.pc = "list" => task.kind # "catalog"
  BY DEF WriteConfigMap
<1>5. ASSUME NEW o \in Requests \ {r}
      PROVE  /\ req[o].pc = "got" => req'[o].pc = "got"
             /\ req[o].pc # "got" => req'[o] = req[o]
  <2>1. CASE req[o].pc = "got"
    <3>1. req[o] \in [pc : {"got"}, task : Task, got : Store, current : BOOLEAN]
      BY <2>1, RequestFields DEF TypeOK
    <3>2. req'[o] = [req[o] EXCEPT !.current = FALSE]
      BY <2>1 DEF WriteConfigMap, At
    <3> QED BY <2>1, <3>1, <3>2
  <2>2. CASE req[o].pc # "got"
    BY <2>2 DEF WriteConfigMap, At
  <2> QED BY <2>1, <2>2
<1> HIDE DEF next
<1>6. \A o \in Requests \ {r} : Wrote(o)' => Wrote(o) /\ Target(o)' = Target(o)
  BY <1>5 DEF Wrote, Target
<1>7. Wrote(r)' => task.kind # "catalog" /\ Target(r)' = task.target
  BY <1>4 DEF Wrote, Target
<1>8. Born'
  BY <1>2, <1>4, <1>5 DEF Retried, Born
<1>9. ASSUME ~attempt'.mixed
      PROVE  Single'
  <2>1. IF task.kind = "catalog" THEN attempt' = attempt
        ELSE /\ attempt'.target = task.target /\ attempt'.complete = attempt.complete
             /\ ~attempt.mixed /\ attempt.target \in {None, task.target}
    <3>1. CASE task.kind = "catalog"
      BY <3>1 DEF WriteConfigMap
    <3>2. CASE task.kind # "catalog"
      <4>1. PICK m \in BOOLEAN :
               m = (attempt.mixed \/ attempt.target \notin {None, task.target})
        OBVIOUS
      <4>2. attempt' = [attempt EXCEPT !.target = task.target, !.mixed = m]
        BY <3>2, <4>1 DEF WriteConfigMap
      <4>3. /\ attempt'.target = task.target /\ attempt'.mixed = m
            /\ attempt'.complete = attempt.complete
        BY <1>1, <4>2 DEF Attempt
      <4>4. ~(attempt.mixed \/ attempt.target \notin {None, task.target})
        BY <1>9, <4>1, <4>3
      <4> QED BY <3>2, <4>3, <4>4
    <3> QED BY <3>1, <3>2
  <2>2. Single
    BY <1>9, <2>1 DEF Retried
  <2>3. task.target # None
    BY <1>1 DEF ConstantsOK
  <2>4. attempt'.target \in {attempt.target, task.target}
        /\ (attempt.target # None => attempt'.target = attempt.target)
        /\ (attempt'.complete => attempt.complete)
    BY <2>1
  <2>5. attempt'.target = None =>
           live' = stored'.model /\ ~attempt'.complete /\ \A o \in Requests : ~Wrote(o)'
    BY <1>2, <1>3, <1>6, <1>7, <2>1, <2>2, <2>3 DEF Single
  <2>6. attempt'.target # None =>
           /\ stored'.model = attempt'.target
           /\ \A o \in Requests : Wrote(o)' => Target(o)' = attempt'.target
    BY <1>2, <1>3, <1>6, <1>7, <2>1, <2>2, <2>3 DEF Single
  <2>7. \A b \in followers :
          /\ Matches(row[b].cfg, live)
                \/ (attempt'.target # None /\ Follows(row[b].cfg, attempt'.target))
          /\ attempt'.complete => Follows(row[b].cfg, attempt'.target)
    BY <2>2, <2>4 DEF Single
  <2>8. ASSUME NEW o \in Requests, req'[o].pc \in {"loop", "push"}, NEW b \in followers,
               Exists(req'[o].copy[b]), b \notin req'[o].todo
        PROVE  Follows(row[b].cfg, attempt'.target)
    <3>1. o # r /\ req'[o] = req[o]
      BY <1>4, <1>5, <2>8
    <3>2. Wrote(o)
      BY <2>8, <3>1 DEF Wrote, Catalogued
    <3>3. attempt.target # None
      BY <2>2, <3>2 DEF Single
    <3> QED BY <2>2, <2>4, <2>8, <3>1, <3>3 DEF Single
  <2>9. ASSUME NEW o \in Requests, req'[o].pc = "restart", Wrote(o)',
               NEW b \in followers \cap req'[o].listed
        PROVE  Follows(row[b].cfg, attempt'.target)
    <3>1. o # r /\ req'[o] = req[o] /\ Wrote(o)
      BY <1>4, <1>5, <1>6, <1>7, <2>9
    <3>2. attempt.target # None
      BY <2>2, <3>1 DEF Single
    <3> QED BY <2>2, <2>4, <2>9, <3>1, <3>2 DEF Single
  <2> QED BY <1>2, <2>5, <2>6, <2>7, <2>8, <2>9 DEF Single
<1> QED BY <1>8, <1>9 DEF Retried

LEMMA RetriedRewrite ==
    ASSUME ConstantsOK, TypeOK, Catalogued, Retried, NEW r \in Requests, NEW b \in Bots,
           RewriteBot(r, b)
    PROVE  Retried'
<1> DEFINE x == req[r]
<1>1. /\ x \in [pc : {"loop", "push"}, task : Task, copy : [Bots -> Row],
                 todo : SUBSET Bots]
      /\ x.pc = "loop" /\ b \in x.todo /\ x.task.target \in Setting
  <2>1. x.pc = "loop" /\ b \in x.todo
    BY DEF RewriteBot, At
  <2>2. x \in [pc : {"loop", "push"}, task : Task, copy : [Bots -> Row], todo : SUBSET Bots]
    BY <2>1, RequestFields DEF TypeOK
  <2> QED BY <2>1, <2>2, TaskFields
<1>2. PICK pc \in {"loop", "push"} : Step(r, [x EXCEPT !.todo = @ \ {b}, !.pc = pc])
  BY DEF RewriteBot
<1>3. PICK y : y = [x EXCEPT !.todo = @ \ {b}, !.pc = pc]
  OBVIOUS
<1>4. /\ y \in Request /\ y.pc = pc /\ y.task = x.task /\ y.copy = x.copy
      /\ y.todo = x.todo \ {b}
  BY <1>1, <1>3 DEF Request
<1>5. req'[r] = y /\ \A o \in Requests \ {r} : req'[o] = req[o]
  BY <1>2, <1>3, <1>4, StepType
<1>6. /\ Exists(row'[b]) /\ row'[b].is # "unborn"
      /\ Follows(row'[b].cfg, x.task.target)
      /\ \A c \in Bots \ {b} : row'[c] = row[c]
  <2>1. row' = [row EXCEPT ![b] = [x.copy[b] EXCEPT !.cfg = With(x.copy[b].cfg,
                                                                 x.task.target)]]
    BY DEF RewriteBot, Target
  <2>2. x.copy[b] \in Row /\ x.copy[b].cfg \in Config /\ Exists(x.copy[b])
    BY <1>1 DEF Row, Retried, Born
  <2>3. /\ row'[b].is = x.copy[b].is
        /\ row'[b].cfg = With(x.copy[b].cfg, x.task.target)
        /\ \A c \in Bots \ {b} : row'[c] = row[c]
    BY <2>1, <2>2 DEF Row, TypeOK
  <2> QED BY <1>1, <2>2, <2>3, WithFollows DEF Exists
<1>7. UNCHANGED <<stored, live, followers, attempt>>
  BY DEF RewriteBot, memory
<1>8. Wrote(r) /\ \A o \in Requests : Wrote(o)' => Wrote(o) /\ Target(o)' = Target(o)
  BY <1>1, <1>4, <1>5 DEF Wrote, Target, Catalogued
<1>9. followers \subseteq Bots
  BY DEF TypeOK
<1>10. Born'
  <2>1. \A c \in followers : Exists(row'[c])
    BY <1>6, <1>9 DEF Retried, Born
  <2>2. \A c \in Bots : row'[c].is = "unborn" => row[c].is = "unborn"
    BY <1>6
  <2>3. ASSUME NEW o \in Requests
        PROVE  /\ req'[o].pc \in {"loop", "push"} =>
                     \A c \in Bots : Exists(req'[o].copy[c]) => row'[c].is # "unborn"
               /\ req'[o].pc \in {"loop", "push"} =>
                     \A c \in req'[o].todo : Exists(req'[o].copy[c])
               /\ req'[o].pc = "restart" => \A c \in req'[o].listed : row'[c].is # "unborn"
    <3>1. CASE o = r
      BY <1>1, <1>4, <1>5, <2>2, <3>1 DEF Retried, Born
    <3>2. CASE o # r
      <4>1. req[o].pc = "restart" => req[o].listed \subseteq Bots
        BY RequestFields DEF TypeOK
      <4> QED BY <1>5, <2>2, <3>2, <4>1 DEF Retried, Born
    <3> QED BY <3>1, <3>2
  <2> QED BY <1>7, <2>1, <2>3 DEF Born
<1>11. ASSUME ~attempt'.mixed
       PROVE  Single'
  <2>1. Single
    BY <1>7, <1>11 DEF Retried
  <2>2. attempt.target # None /\ x.task.target = attempt.target
    BY <1>8, <2>1 DEF Single, Target
  \* The row that is written follows the target; the others stay what they are.
  <2>3. ASSUME NEW c \in followers, c = b \/ Follows(row[c].cfg, attempt.target)
        PROVE  Follows(row'[c].cfg, attempt.target)
    BY <1>6, <1>9, <2>2, <2>3
  <2>4. ASSUME NEW c \in followers
        PROVE  /\ Matches(row'[c].cfg, live) \/ Follows(row'[c].cfg, attempt.target)
               /\ attempt.complete => Follows(row'[c].cfg, attempt.target)
    BY <1>6, <1>9, <2>1, <2>3 DEF Single
  <2>5. ASSUME NEW o \in Requests, req'[o].pc \in {"loop", "push"}, NEW c \in followers,
               Exists(req'[o].copy[c]), c \notin req'[o].todo
        PROVE  Follows(row'[c].cfg, attempt.target)
    <3>1. CASE o = r
      BY <1>1, <1>4, <1>5, <2>1, <2>3, <2>5, <3>1 DEF Single
    <3>2. CASE o # r
      BY <1>5, <2>1, <2>3, <2>5, <3>2 DEF Single
    <3> QED BY <3>1, <3>2
  <2>6. ASSUME NEW o \in Requests, req'[o].pc = "restart", Wrote(o)',
               NEW c \in followers \cap req'[o].listed
        PROVE  Follows(row'[c].cfg, attempt.target)
    <3>1. o # r /\ req'[o] = req[o] /\ Wrote(o)
      BY <1>4, <1>5, <1>8, <2>6
    <3> QED BY <2>1, <2>3, <2>6, <3>1 DEF Single
  <2>7. stored.model = attempt.target /\ \A o \in Requests : Wrote(o)' => Target(o)' = attempt.target
    BY <1>8, <2>1, <2>2 DEF Single
  <2> QED BY <1>7, <2>2, <2>4, <2>5, <2>6, <2>7 DEF Single
<1> QED BY <1>10, <1>11 DEF Retried

LEMMA RetriedRequest ==
    ASSUME ConstantsOK, TypeOK, Catalogued, Retried, NEW r \in Requests,
           \/ \E task \in [kind : Kinds, target : Defaults] : GetConfigMap(r, task)
           \/ ListBots(r) \/ Push(r) \/ EndLoop(r) \/ Fail(r)
    PROVE  Retried'
<1> DEFINE x == req[r]
<1>1. x \in Request /\ stored \in Store /\ row \in [Bots -> Row] /\ followers \subseteq Bots
  BY DEF TypeOK
<1>2. UNCHANGED <<stored, live, row, followers, attempt>>
  BY DEF GetConfigMap, ListBots, Push, EndLoop, Fail, memory
<1>3. ASSUME NEW task \in [kind : Kinds, target : Defaults], GetConfigMap(r, task)
      PROVE  Retried'
  <2> DEFINE y == [pc |-> "got", task |-> task, got |-> stored, current |-> TRUE]
  <2>1. task \in Task
    BY DEF ConstantsOK, Task
  <2>2. y \in Request /\ y.pc = "got"
    BY <1>1, <2>1 DEF Request
  <2>3. Step(r, y)
    BY <1>3 DEF GetConfigMap
  <2> HIDE DEF y
  <2> QED BY <1>2, <2>2, <2>3, RetriedKept
<1>4. ASSUME ListBots(r)
      PROVE  Retried'
  <2> DEFINE y == [pc |-> "loop", task |-> x.task, copy |-> row, todo |-> ToRewrite(row)]
  <2>1. x.pc = "list" /\ x.task \in Task /\ ToRewrite(row) \in SUBSET Bots
    BY <1>1, <1>4, RequestFields DEF ListBots, At, ToRewrite
  <2>2. /\ y \in Request /\ y.pc = "loop" /\ y.task = x.task
        /\ y.copy = row /\ y.todo = ToRewrite(row)
    BY <1>1, <2>1 DEF Request
  <2>3. Step(r, y)
    BY <1>4 DEF ListBots
  <2> HIDE DEF y
  <2>4. /\ \A b \in Bots : Exists(row[b]) => row[b].is # "unborn"
        /\ \A b \in ToRewrite(row) : Exists(row[b])
    BY DEF Exists, ToRewrite
  <2>5. ASSUME ~attempt.mixed, NEW b \in followers, Exists(row[b]), b \notin ToRewrite(row)
        PROVE  Follows(row[b].cfg, attempt.target)
    <3>1. ~Matches(row[b].cfg, live)
      BY <1>1, <2>5 DEF ToRewrite
    <3> QED BY <2>5, <3>1 DEF Retried, Single
  <2> QED BY <1>2, <2>1, <2>2, <2>3, <2>4, <2>5, RetriedKept
<1>5. ASSUME Push(r)
      PROVE  Retried'
  <2>1. x.pc = "push" /\
        x \in [pc : {"loop", "push"}, task : Task, copy : [Bots -> Row], todo : SUBSET Bots]
    BY <1>1, <1>5, RequestFields DEF Push, At
  <2>2. PICK y : y = [x EXCEPT !.pc = "loop"]
    OBVIOUS
  <2>3. /\ y \in Request /\ y.pc = "loop" /\ y.task = x.task
        /\ y.copy = x.copy /\ y.todo = x.todo
    BY <2>1, <2>2 DEF Request
  <2>4. Step(r, y)
    BY <1>5, <2>2 DEF Push
  <2>5. /\ \A b \in Bots : Exists(x.copy[b]) => row[b].is # "unborn"
        /\ \A b \in x.todo : Exists(x.copy[b])
    BY <2>1 DEF Retried, Born
  <2>6. ~attempt.mixed => \A b \in followers :
           Exists(x.copy[b]) /\ b \notin x.todo => Follows(row[b].cfg, attempt.target)
    BY <2>1 DEF Retried, Single
  <2> QED BY <1>2, <2>1, <2>3, <2>4, <2>5, <2>6, RetriedKept
<1>6. ASSUME EndLoop(r)
      PROVE  Retried'
  <2> DEFINE y == [pc |-> "restart", task |-> x.task,
                   listed |-> {b \in Bots : Exists(x.copy[b])}]
  <2>1. x.pc = "loop" /\ x.todo = {} /\ x.task \in Task
    BY <1>1, <1>6, RequestFields DEF EndLoop, At
  <2>2. /\ y \in Request /\ y.pc = "restart" /\ y.task = x.task
        /\ y.listed = {b \in Bots : Exists(x.copy[b])}
    BY <2>1 DEF Request
  <2>3. Step(r, y)
    BY <1>6 DEF EndLoop
  <2> HIDE DEF y
  <2>4. \A b \in y.listed : row[b].is # "unborn"
    BY <2>1, <2>2 DEF Retried, Born
  <2>5. ~attempt.mixed => \A b \in followers \cap y.listed :
           Follows(row[b].cfg, attempt.target)
    BY <2>1, <2>2 DEF Retried, Single
  <2> QED BY <1>2, <2>1, <2>2, <2>3, <2>4, <2>5, RetriedKept
<1>7. ASSUME Fail(r)
      PROVE  Retried'
  BY <1>2, <1>7, IdleType, RetriedKept DEF Fail
<1> QED BY <1>3, <1>4, <1>5, <1>6, <1>7

LEMMA RetriedAnswer ==
    ASSUME ConstantsOK, TypeOK, Catalogued, Retried, NEW r \in Requests,
           RestartDeployment(r)
    PROVE  Retried'
<1> DEFINE x == req[r]
<1>1. /\ x \in Request /\ x.pc = "restart" /\ attempt \in Attempt
      /\ UNCHANGED <<stored, live, row>> /\ Step(r, Idle)
  BY DEF RestartDeployment, At, TypeOK
<1>2. CASE x.task.kind = "catalog"
  BY <1>1, <1>2, IdleType, RetriedKept DEF RestartDeployment
<1>3. CASE x.task.kind # "catalog"
  <2>1. /\ followers' = followers \cap x.listed
        /\ attempt'.target = attempt.target /\ attempt'.mixed = attempt.mixed
        /\ attempt'.complete
    BY <1>1, <1>3 DEF RestartDeployment, Attempt
  <2>2. req'[r] = Idle /\ \A o \in Requests \ {r} : req'[o] = req[o]
    BY <1>1, IdleType, StepType
  <2>3. \A o \in Requests : Wrote(o)' => o # r /\ Wrote(o) /\ Target(o)' = Target(o)
    BY <2>2, IdleType DEF Wrote, Target
  <2>4. Born'
    BY <1>1, <2>1, <2>2, IdleType DEF Retried, Born
  <2>5. ASSUME ~attempt'.mixed
        PROVE  Single'
    <3>1. Single /\ Wrote(r)
      BY <1>1, <1>3, <2>1, <2>5 DEF Retried, Wrote
    <3>2. attempt.target # None
      BY <3>1 DEF Single
    <3>3. \A b \in followers' : Follows(row[b].cfg, attempt.target)
      BY <1>1, <2>1, <3>1 DEF Single
    <3>4. stored.model = attempt.target /\ \A o \in Requests : Wrote(o)' => Target(o)' = attempt.target
      BY <2>3, <3>1, <3>2 DEF Single
    <3> QED BY <1>1, <2>1, <3>2, <3>3, <3>4 DEF Single
  <2> QED BY <2>4, <2>5 DEF Retried
<1> QED BY <1>2, <1>3

LEMMA RetriedServer ==
    ASSUME ConstantsOK, TypeOK, Retried,
           \/ Restart
           \/ \E b \in Bots : \/ CreateBot(b) \/ Toggle(b) \/ DeleteBot(b)
                              \/ \E c \in Choices : ChooseModel(b, c)
    PROVE  Retried'
<1>1. /\ \A b \in Bots : row[b] \in Row /\ row[b].cfg \in Config
      /\ row \in [Bots -> Row] /\ live \in Setting /\ followers \subseteq Bots
  BY DEF TypeOK, Row
<1>2. CASE Restart
  <2>1. /\ \A o \in Requests : req'[o] = Idle
        /\ live' = stored.model /\ UNCHANGED <<stored, row, followers>>
    BY <1>2 DEF Restart
  <2>2. \A o \in Requests : req'[o].pc = "idle" /\ ~Wrote(o)'
    BY <2>1, IdleType DEF Wrote
  <2>3. Born'
    BY <2>1, <2>2 DEF Retried, Born
  <2>4. ASSUME ~attempt'.mixed
        PROVE  Single'
    <3>1. /\ ~attempt.mixed /\ (attempt.target = None \/ attempt.complete)
          /\ attempt' = NoAttempt
      BY <1>2, <2>4 DEF Restart, TypeOK, Attempt
    <3>2. Single
      BY <3>1 DEF Retried
    <3>3. ASSUME NEW b \in followers
          PROVE  Matches(row[b].cfg, stored.model)
      <4>1. CASE attempt.target = None
        BY <3>2, <4>1 DEF Single
      <4>2. CASE attempt.target # None
        <5>1. Follows(row[b].cfg, stored.model)
          BY <3>1, <3>2, <4>2 DEF Single
        <5> QED BY <5>1 DEF Follows, Matches
      <4> QED BY <4>1, <4>2
    <3>4. attempt'.target = None /\ ~attempt'.complete
      BY <3>1 DEF NoAttempt
    <3> QED BY <2>1, <2>2, <3>3, <3>4 DEF Single
  <2> QED BY <2>3, <2>4 DEF Retried
<1>3. ASSUME NEW b \in Bots, CreateBot(b)
      PROVE  Retried'
  <2>1. PICK cfg \in {Empty, With(Empty, live)} :
           row' = [row EXCEPT ![b] = [is |-> "there", running |-> FALSE, cfg |-> cfg]]
    BY <1>3 DEF CreateBot
  <2>2. /\ row'[b].is = "there" /\ row'[b].cfg = cfg
        /\ \A c \in Bots \ {b} : row'[c] = row[c]
    BY <1>1, <2>1
  <2>3. Matches(cfg, live)
    <3>1. CASE cfg = Empty
      BY <3>1 DEF Empty, Matches
    <3>2. CASE cfg = With(Empty, live)
      BY <1>1, <3>2, EmptyType, WithFollows, FollowsMatches
    <3> QED BY <3>1, <3>2
  <2>4. /\ row[b].is = "unborn" /\ UNCHANGED <<stored, live, req, attempt>>
        /\ followers' = IF attempt.complete THEN followers ELSE followers \cup {b}
    BY <1>3 DEF CreateBot
  <2>5. b \notin followers /\ \A c \in followers : row'[c] = row[c]
    BY <1>1, <2>2, <2>4 DEF Retried, Born, Exists
  <2>6. \A o \in Requests : Wrote(o)' <=> Wrote(o)
    BY <2>4 DEF Wrote
  <2>7. ASSUME NEW o \in Requests
        PROVE  /\ req[o].pc \in {"loop", "push"} => ~Exists(req[o].copy[b])
               /\ req[o].pc = "restart" => b \notin req[o].listed /\ req[o].listed \subseteq Bots
    <3>1. req[o] \in Request
      BY DEF TypeOK
    <3> QED BY <2>4, <3>1, RequestFields DEF Retried, Born
  <2>8. Born'
    <3>1. \A c \in followers' : Exists(row'[c])
      BY <2>2, <2>4, <2>5 DEF Retried, Born, Exists
    <3>2. \A c \in Bots : row'[c].is = "unborn" => row[c].is = "unborn"
      BY <2>2
    <3> QED BY <2>4, <2>7, <3>1, <3>2 DEF Retried, Born
  <2>9. ASSUME ~attempt'.mixed
        PROVE  Single'
    <3>1. Single
      BY <2>4, <2>9 DEF Retried
    <3>2. \A c \in followers' :
          /\ Matches(row'[c].cfg, live)
                \/ (attempt.target # None /\ Follows(row'[c].cfg, attempt.target))
          /\ attempt.complete => Follows(row'[c].cfg, attempt.target)
      BY <2>2, <2>3, <2>4, <2>5, <3>1 DEF Single
    <3>3. ASSUME NEW o \in Requests, req[o].pc \in {"loop", "push"}, NEW c \in followers',
                 Exists(req[o].copy[c]), c \notin req[o].todo
          PROVE  Follows(row'[c].cfg, attempt.target)
      BY <2>4, <2>5, <2>7, <3>1, <3>3 DEF Single
    <3>4. ASSUME NEW o \in Requests, req[o].pc = "restart", Wrote(o),
                 NEW c \in followers' \cap req[o].listed
          PROVE  Follows(row'[c].cfg, attempt.target)
      BY <2>4, <2>5, <2>7, <3>1, <3>4 DEF Single
    <3> QED BY <2>4, <2>6, <3>1, <3>2, <3>3, <3>4 DEF Single, Target
  <2> QED BY <2>8, <2>9 DEF Retried
<1>4. ASSUME NEW b \in Bots, Toggle(b) \/ DeleteBot(b) \/ \E c \in Choices : ChooseModel(b, c)
      PROVE  Retried'
  <2>1. /\ UNCHANGED <<stored, live, req, attempt>>
        /\ \A c \in Bots \ {b} : row'[c] = row[c]
        /\ followers' = IF Toggle(b) THEN followers ELSE followers \ {b}
    <3>1. CASE Toggle(b)
      BY <1>1, <3>1 DEF Toggle, memory
    <3>2. CASE ~Toggle(b)
      BY <1>1, <1>4, <3>2 DEF DeleteBot, ChooseModel
    <3> QED BY <3>1, <3>2
  <2>2. row'[b].is # "unborn"
    BY <1>1, <1>4 DEF Toggle, DeleteBot, ChooseModel, Exists, Row
  <2>3. Toggle(b) => row'[b].is = row[b].is /\ row'[b].cfg = row[b].cfg
    BY <1>1 DEF Toggle, Row
  <2>4. \A c \in followers' : Exists(row'[c]) /\ row'[c].cfg = row[c].cfg
    BY <1>1, <2>1, <2>3 DEF Retried, Born, Exists
  <2>5. \A c \in Bots : row'[c].is = "unborn" => row[c].is = "unborn"
    BY <2>1, <2>2
  <2>6. followers' \subseteq followers
    BY <2>1
  <2> QED BY <2>1, <2>4, <2>5, <2>6, RowsKept
<1> QED BY <1>2, <1>3, <1>4

LEMMA RetriedStep ==
    ConstantsOK /\ TypeOK /\ Catalogued /\ Retried /\ [Next]_vars => Retried'
<1> SUFFICES ASSUME ConstantsOK, TypeOK, Catalogued, Retried, [Next]_vars PROVE Retried'
  OBVIOUS
<1>1. CASE UNCHANGED vars
  <2>1. UNCHANGED <<stored, live, req, attempt, row, followers>>
    BY <1>1 DEF vars, memory
  <2>2. \A b \in followers : Exists(row[b])
    BY DEF Retried, Born
  <2> QED BY <2>1, <2>2, RowsKept
<1>2. CASE Next
  BY <1>2, RetriedWrite, RetriedRewrite, RetriedRequest, RetriedAnswer, RetriedServer
  DEF Next
<1> QED BY <1>1, <1>2

\* An update of the default that succeeds leaves no bot behind that followed it, also
\* after attempts that failed half-way (UpdateProvisionSettings,
\* syncExistingBotsToProvisionSettings), as long as all had this target and no restart
\* came before.
THEOREM RetryCompletesHolds == Spec => RetryCompletes
<1>1. Init => Retried
  <2> SUFFICES ASSUME Init PROVE Retried
    OBVIOUS
  <2>1. /\ \A r \in Requests : req[r].pc = "idle"
        /\ followers = {} /\ stored.model = live
        /\ attempt.target = None /\ ~attempt.complete
    BY IdleType DEF Init, NoAttempt
  <2> QED BY <2>1 DEF Retried, Born, Single, Wrote
<1>2. (TypeOK /\ Catalogued) /\ Retried /\ [Next]_vars => Retried'
  BY ConstantsOK, RetriedStep
<1>3. (TypeOK /\ Catalogued) /\ Retried =>
         [\A r \in Requests :
             RestartDeployment(r) /\ req[r].task.kind # "catalog" /\ ~attempt.mixed
             => \A b \in followers' : Exists(row[b]) => Follows(row[b].cfg, Target(r))]_vars
  <2> SUFFICES ASSUME Retried, NEW r \in Requests, RestartDeployment(r),
                      req[r].task.kind # "catalog", ~attempt.mixed, NEW b \in followers'
               PROVE  Follows(row[b].cfg, Target(r))
    OBVIOUS
  <2>1. Single /\ req[r].pc = "restart" /\ Wrote(r)
    BY DEF Retried, RestartDeployment, At, Wrote
  <2>2. b \in followers \cap req[r].listed
    BY DEF RestartDeployment
  <2> QED BY <2>1, <2>2 DEF Single
<1> QED BY <1>1, <1>2, <1>3, AlwaysCatalogued, PTL DEF Spec, RetryCompletes
================================================================================
