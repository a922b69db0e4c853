----------------------------- MODULE Provisioning -----------------------------
(***************************************************************************)
(* The default model of the platform (configmap.go, admin_settings.go).    *)
(* It is kept in a ConfigMap that is mounted by subPath (line 39 of        *)
(* deploy/k8s/deployment.yaml): the server has what was there when it      *)
(* started, and goes by that copy until it restarts itself at the end of   *)
(* an update. An update writes the ConfigMap, then rewrites one by one the *)
(* bots that follow the previous default, which is the server's copy.      *)
(***************************************************************************)
EXTENDS Naturals

CONSTANTS
    Requests, Bots,
    Names,      \* models, each of a provider of its own
    Keys,       \* API keys
    Defaults,   \* settings an administrator gives
    Choices,    \* settings an owner gives his bot
    None,
    MaxUpdates, \* bound on the number of requests
    MaxCrashes  \* bound on restarts of the server that nobody asked for

Setting == [name : Names, key : Keys]

\* GetProvisionSettings is taken to return a complete default: with none,
\* botMatchesProvisionModel is true of every bot.
ASSUME ConstantsOK ==
    /\ Defaults \cup Choices \subseteq Setting
    /\ Defaults \cap Choices = {}
    /\ None \notin Names \cup Keys \cup Setting
    /\ {MaxUpdates, MaxCrashes} \subseteq Nat

VARIABLES
    stored,     \* config.toml in the ConfigMap: provision.model, provider_catalog
    live,       \* provision.model as the server read it (viper)
    rollout,    \* the server's Deployment was annotated to restart
    row,        \* the row of each bot
    req,        \* what each request is doing
    updates, crashes,
    \* What the properties remember:
    saved,      \* providers whose request was answered with success
    own,        \* the owner's choice, saved while no update held a copy of the row
    followers,  \* bots that nobody gave a model of their own
    attempt     \* the target of all updates since the last complete one

vars == <<stored, live, rollout, row, req, updates, crashes, saved, own, followers, attempt>>
memory == <<saved, own, followers, attempt>>

Config == [primary : Names \cup {None}, keys : [Names -> Keys \cup {None}]]
Empty == [primary |-> None, keys |-> [n \in Names |-> None]]
Row == [is : {"unborn", "there", "gone"}, running : BOOLEAN, cfg : Config]
Exists(r) == r.is = "there"
Store == [model : Setting, catalog : SUBSET Names]

\* An update of the settings, or a provider saved as the default or not.
Kinds == {"settings", "default", "catalog"}
Task == [kind : Kinds, target : Setting]
Idle == [pc |-> "idle"]
Request ==
    {Idle} \cup [pc : {"got"}, task : Task, got : Store, current : BOOLEAN]
           \cup [pc : {"list"}, task : Task]
           \cup [pc : {"loop", "push"}, task : Task, copy : [Bots -> Row],
                 todo : SUBSET Bots]
           \cup [pc : {"restart"}, task : Task, listed : SUBSET Bots]

\* mixed: there were several targets, or a restart before one was complete.
Attempt == [target : Setting \cup {None}, mixed : BOOLEAN, complete : BOOLEAN]
NoAttempt == [target |-> None, mixed |-> FALSE, complete |-> FALSE]

TypeOK ==
    /\ stored \in Store
    /\ live \in Setting
    /\ rollout \in BOOLEAN
    /\ row \in [Bots -> Row]
    /\ req \in [Requests -> Request]
    /\ updates \in 0 .. MaxUpdates
    /\ crashes \in 0 .. MaxCrashes
    /\ saved \in SUBSET Names
    /\ own \in [Bots -> Choices \cup {None}]
    /\ followers \in SUBSET Bots
    /\ attempt \in Attempt

Init ==
    /\ live \in Defaults
    /\ stored = [model |-> live, catalog |-> {}]
    /\ rollout = FALSE
    /\ row = [b \in Bots |-> [is |-> "unborn", running |-> FALSE, cfg |-> Empty]]
    /\ req = [r \in Requests |-> Idle]
    /\ updates = 0
    /\ crashes = 0
    /\ saved = {}
    /\ own = [b \in Bots |-> None]
    /\ followers = {}
    /\ attempt = NoAttempt

(***************************************************************************)
(* Configurations                                                          *)
(***************************************************************************)
\* Mutant: the key is taken for the model.
WithKey(cfg, s) == [primary |-> s.key, keys |-> [cfg.keys EXCEPT ![s.name] = s.key]]

\* applyProvisionModelToBot, up to the save.
With(cfg, s) == [primary |-> s.name, keys |-> [cfg.keys EXCEPT ![s.name] = s.key]]

Follows(cfg, s) == cfg.primary = s.name /\ cfg.keys[s.name] = s.key

\* Mutant: the name of the model is enough.
MatchesName(cfg, previous) == cfg.primary \in {None, previous.name}

\* botMatchesProvisionModel
Matches(cfg, previous) ==
    \/ cfg.primary = None
    \/ /\ cfg.primary = previous.name
       /\ cfg.keys[previous.name] \in {None, previous.key}

\* Mutant: the previous default is read from the ConfigMap.
ToRewriteStored(listed) ==
    {b \in Bots : Exists(listed[b]) /\ Matches(listed[b].cfg, stored.model)}

\* The bots syncExistingBotsToProvisionSettings will rewrite, of those it listed.
ToRewrite(listed) == {b \in Bots : Exists(listed[b]) /\ Matches(listed[b].cfg, live)}

(***************************************************************************)
(* UpdateProvisionSettings and UpsertConfiguredProvider                    *)
(***************************************************************************)
At(r, pc) == req[r].pc = pc
Target(r) == req[r].task.target
Step(r, new) == req' = [req EXCEPT ![r] = new]

GetConfigMap(r, task) ==
    /\ At(r, "idle") /\ updates < MaxUpdates
    /\ updates' = updates + 1
    /\ Step(r, [pc |-> "got", task |-> task, got |-> stored, current |-> TRUE])
    /\ UNCHANGED <<stored, live, rollout, row, crashes, memory>>

\* What the update makes of the text it got.
Edited(got, task) ==
    [model |-> IF task.kind = "catalog" THEN got.model ELSE task.target,
     catalog |-> IF task.kind = "settings" THEN got.catalog
                 ELSE got.catalog \cup {task.target.name}]

\* Mutant: the ConfigMap is written whatever became of it.
AcceptedAlways(r) == TRUE

\* Kubernetes refuses an Update that carries an older resourceVersion.
Accepted(r) == req[r].current

WriteConfigMap(r) ==
    LET task == req[r].task
        next == IF task.kind = "catalog"
                THEN [pc |-> "restart", task |-> task, listed |-> {}]
                ELSE [pc |-> "list", task |-> task]
    IN  /\ At(r, "got") /\ Accepted(r)
        /\ stored' = Edited(req[r].got, task)
        /\ req' = [o \in Requests |-> IF o = r THEN next
                                     ELSE IF At(o, "got")
                                     THEN [req[o] EXCEPT !.current = FALSE]
                                     ELSE req[o]]
        /\ attempt' = IF task.kind = "catalog" THEN attempt
                      ELSE [attempt EXCEPT
                               !.target = task.target,
                               !.mixed = @ \/ attempt.target \notin {None, task.target}]
        /\ UNCHANGED <<live, rollout, row, updates, crashes, saved, own, followers>>

ListBots(r) ==
    /\ At(r, "list")
    /\ Step(r, [pc |-> "loop", task |-> req[r].task, copy |-> row,
                todo |-> ToRewrite(row)])
    /\ UNCHANGED <<stored, live, rollout, row, updates, crashes, memory>>

\* UpdateBot saves the whole row as it was listed, and inserts it when it is gone.
RewriteBot(r, b) ==
    /\ At(r, "loop") /\ b \in req[r].todo
    /\ row' = [row EXCEPT ![b] = [req[r].copy[b] EXCEPT !.cfg = With(@, Target(r))]]
    /\ Step(r, [req[r] EXCEPT !.todo = @ \ {b},
                              !.pc = IF req[r].copy[b].running THEN "push" ELSE "loop"])
    /\ UNCHANGED <<stored, live, rollout, updates, crashes, memory>>

\* SyncSectionsToPod reached the pod; what it does there is a matter of ConfigSync.
Push(r) ==
    /\ At(r, "push")
    /\ Step(r, [req[r] EXCEPT !.pc = "loop"])
    /\ UNCHANGED <<stored, live, rollout, row, updates, crashes, memory>>

EndLoop(r) ==
    /\ At(r, "loop") /\ req[r].todo = {}
    /\ Step(r, [pc |-> "restart", task |-> req[r].task,
                listed |-> {b \in Bots : Exists(req[r].copy[b])}])
    /\ UNCHANGED <<stored, live, rollout, row, updates, crashes, memory>>

\* restartClawhostDeployment; the request is answered with success.
RestartDeployment(r) ==
    LET task == req[r].task IN
    /\ At(r, "restart")
    /\ rollout' = TRUE
    /\ Step(r, Idle)
    /\ saved' = IF task.kind = "settings" THEN saved ELSE saved \cup {task.target.name}
    /\ IF task.kind = "catalog" THEN UNCHANGED <<followers, attempt>>
       ELSE /\ followers' = followers \cap req[r].listed
            /\ attempt' = [attempt EXCEPT !.complete = TRUE]
    /\ UNCHANGED <<stored, live, row, updates, crashes, own>>

\* Any call of a request may fail, and nothing of what it did is taken back.
Fail(r) ==
    /\ ~At(r, "idle")
    /\ Step(r, Idle)
    /\ UNCHANGED <<stored, live, rollout, row, updates, crashes, memory>>

(***************************************************************************)
(* The server and its other handlers                                       *)
(***************************************************************************)
\* A new process reads the ConfigMap, and the requests of the old one are gone.
Restart ==
    /\ \/ rollout /\ UNCHANGED crashes
       \/ crashes < MaxCrashes /\ crashes' = crashes + 1
    /\ rollout' = FALSE
    /\ live' = stored.model
    /\ req' = [r \in Requests |-> Idle]
    /\ attempt' = IF ~attempt.mixed /\ (attempt.target = None \/ attempt.complete)
                  THEN NoAttempt ELSE [attempt EXCEPT !.mixed = TRUE]
    /\ UNCHANGED <<stored, row, updates, saved, own, followers>>

\* Provisioned with the default of the server's copy, or created without a model.
\* A bot created between an update and the restart keeps the old default.
CreateBot(b) ==
    /\ row[b].is = "unborn"
    /\ \E cfg \in {Empty, With(Empty, live)} :
          row' = [row EXCEPT ![b] = [is |-> "there", running |-> FALSE, cfg |-> cfg]]
    /\ followers' = IF attempt.complete THEN followers ELSE followers \cup {b}
    /\ UNCHANGED <<stored, live, rollout, req, updates, crashes, saved, own, attempt>>

HeldBySome(b) ==
    \E r \in Requests : req[r].pc \in {"loop", "push"} /\ b \in req[r].todo

\* The owner's own model, by any of the handlers that save a configuration.
ChooseModel(b, c) ==
    /\ Exists(row[b])
    /\ row' = [row EXCEPT ![b].cfg = With(@, c)]
    /\ own' = [own EXCEPT ![b] = IF HeldBySome(b) THEN None ELSE c]
    /\ followers' = followers \ {b}
    /\ UNCHANGED <<stored, live, rollout, req, updates, crashes, saved, attempt>>

\* The bot is started or stopped.
Toggle(b) ==
    /\ Exists(row[b])
    /\ row' = [row EXCEPT ![b].running = ~@]
    /\ UNCHANGED <<stored, live, rollout, req, updates, crashes, memory>>

DeleteBot(b) ==
    /\ Exists(row[b])
    /\ row' = [row EXCEPT ![b].is = "gone", ![b].running = FALSE]
    /\ own' = [own EXCEPT ![b] = None]
    /\ followers' = followers \ {b}
    /\ UNCHANGED <<stored, live, rollout, req, updates, crashes, saved, attempt>>

Next ==
    \/ \E r \in Requests :
        \/ \E task \in [kind : Kinds, target : Defaults] : GetConfigMap(r, task)
        \/ WriteConfigMap(r) \/ ListBots(r) \/ \E b \in Bots : RewriteBot(r, b)
        \/ Push(r) \/ EndLoop(r) \/ RestartDeployment(r) \/ Fail(r)
    \/ Restart
    \/ \E b \in Bots :
        \/ CreateBot(b) \/ Toggle(b) \/ DeleteBot(b)
        \/ \E c \in Choices : ChooseModel(b, c)

Spec == Init /\ [][Next]_vars

(***************************************************************************)
(* Properties                                                              *)
(***************************************************************************)
\* The model an owner chose is his, whatever the administrators do meanwhile and
\* later, unless an update was holding an older copy of his row.
OwnerKept ==
    \A b \in Bots : own[b] # None => Follows(row[b].cfg, own[b])

\* Concurrent updates never take a provider out of the ConfigMap again whose
\* administrator was told that it is saved.
ProvidersKept == saved \subseteq stored.catalog

\* An update that succeeds leaves no bot behind that followed the default, even
\* if earlier attempts at it failed half-way, as long as all attempts had this
\* one target and no restart came before: what the server takes for the previous
\* default does not change under a retry.
RetryCompletes ==
    [][\A r \in Requests :
          RestartDeployment(r) /\ req[r].task.kind # "catalog"
              /\ ~attempt.mixed
          => \A b \in followers' : Exists(row[b]) => Follows(row[b].cfg, Target(r))]_vars
===============================================================================
