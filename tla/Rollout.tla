--------------------------------- MODULE Rollout ---------------------------------
(***************************************************************************)
(* Changes of the Deployments of bots (deployment.go) by the handlers that *)
(* upgrade the image, reset the access token, restart, start and stop, and *)
(* the upgrade of all bots by one goroutine each (bot_upgrade.go).  Some   *)
(* replace the whole Deployment, others get it, change a part of it and    *)
(* put it back.  Which status they find in the row is any: that is a       *)
(* matter of BotLifecycle.                                                 *)
(***************************************************************************)
EXTENDS Naturals, FiniteSets

CONSTANTS
    Requests, Bots, Images,
    Asked,      \* the bots that handlers are asked about, a bound
    Configured, \* openclaw.image
    Limit,      \* upgrades at once, 10 in the code
    MaxTokens   \* bound on the access tokens of one bot

ASSUME ConstantsOK ==
    /\ IsFiniteSet(Bots) /\ Asked \subseteq Bots
    /\ Configured \in Images
    /\ Limit \in Nat \ {0} /\ MaxTokens \in Nat

VARIABLES
    token,      \* access_token of each row
    issued,     \* the last token of each bot, they are numbered
    dep,        \* the Deployment of each bot: image, token in its command
    req,        \* what each handler is doing
    batch,      \* the upgrade of all bots
    worker,     \* its goroutine of each bot
    slots,      \* values in the channel sem
    \* What the properties remember:
    meant,      \* image and token that somebody last put there on purpose
    sure        \* bots whose last change of the token went well and alone

vars == <<token, issued, dep, req, batch, worker, slots, meant, sure>>
upgrade == <<batch, worker, slots>>

Token == 0 .. MaxTokens
Deployment == [image : Images, token : Token]
Absent == [image |-> "none"]
Present(b) == dep[b] # Absent

\* got: the Deployment that was read; current: nobody wrote it since; alone: no
\* other change of the token of this bot overlapped.
Idle == [pc |-> "idle"]
Request ==
    {Idle} \cup [pc : {"restart", "start", "reload"}, bot : Bots, token : Token,
                 alone : BOOLEAN]
           \cup [pc : {"save", "getToken"}, bot : Bots, token : Token, alone : BOOLEAN]
           \cup [pc : {"putToken"}, bot : Bots, token : Token, alone : BOOLEAN,
                 got : Deployment, current : BOOLEAN]
           \cup [pc : {"getImage"}, bot : Bots, image : Images]
           \cup [pc : {"putImage"}, bot : Bots, image : Images,
                 got : Deployment, current : BOOLEAN]
Batch == [is : {"idle", "running"}, image : Images]
Worker == [pc : {"done", "waiting", "look", "getImage", "release"}]
          \cup [pc : {"putImage"}, got : Deployment, current : BOOLEAN]

TypeOK ==
    /\ {token, issued} \subseteq [Bots -> Token]
    /\ dep \in [Bots -> Deployment \cup {Absent}]
    /\ req \in [Requests -> Request]
    /\ batch \in Batch
    /\ worker \in [Bots -> Worker]
    /\ slots \in 0 .. Limit
    /\ meant \in [Bots -> Deployment \cup {Absent}]
    /\ sure \in SUBSET Bots

Init ==
    /\ token = [b \in Bots |-> 0]
    /\ issued = [b \in Bots |-> 0]
    /\ dep \in [Bots -> {Absent} \cup [image : Images, token : {0}]]
    /\ req = [r \in Requests |-> Idle]
    /\ batch = [is |-> "idle", image |-> Configured]
    /\ worker = [b \in Bots |-> [pc |-> "done"]]
    /\ slots = 0
    /\ meant = dep
    /\ sure = Bots

(***************************************************************************)
(* The Kubernetes API                                                      *)
(***************************************************************************)
\* When the Deployment of b is written, what was read of it before is out of date.
Stale(x) == IF x.pc \in {"putToken", "putImage"} THEN [x EXCEPT !.current = FALSE] ELSE x
Outdated(b) == [r \in Requests |-> IF req[r] # Idle /\ req[r].bot = b THEN Stale(req[r])
                                  ELSE req[r]]

\* Mutant: a Deployment that exists is written whatever became of it.
AcceptedIfThere(b, x) == Present(b)

\* An Update of what was got carries its resourceVersion.
Accepted(b, x) == x.current

(***************************************************************************)
(* Handlers                                                                *)
(***************************************************************************)
At(r, pc) == req[r].pc = pc
Step(r, new) == req' = [req EXCEPT ![r] = new]

TokenSteps == {"restart", "start", "reload", "save", "getToken", "putToken"}
Changes(r, b) == req[r].pc \in TokenSteps /\ req[r].bot = b

\* A change of the token of b begins in r; those that overlap are not alone.
Begin(r, pc, b, new) ==
    LET others == {o \in Requests \ {r} : Changes(o, b)}
    IN  req' = [o \in Requests |->
                   IF o = r THEN [pc |-> pc, bot |-> b, token |-> new, alone |-> others = {}]
                   ELSE IF o \in others THEN [req[o] EXCEPT !.alone = FALSE]
                   ELSE req[o]]

\* Its end, with the token deployed or not.
Sure(r, deployed) ==
    sure' = IF req[r].alone /\ deployed THEN sure \cup {req[r].bot}
            ELSE sure \ {req[r].bot}

\* RestartBot, StartBot and restartBotsAsync, with the row they read.
ReadRow(r, b) ==
    /\ At(r, "idle")
    /\ \E pc \in {"restart", "start"} : Begin(r, pc, b, token[b])
    /\ UNCHANGED <<token, issued, dep, upgrade, meant, sure>>

\* buildDeploymentSpec
Spec0(r) == [image |-> Configured, token |-> req[r].token]

\* CreateDeployment, which replaces one that exists, or ReplaceDeployment, which
\* needs one.  This Update has no version: it overwrites whatever is there.
ReplaceDeployment(r) ==
    LET b == req[r].bot IN
    /\ At(r, "start") \/ (At(r, "restart") /\ Present(b))
    /\ dep' = [dep EXCEPT ![b] = Spec0(r)]
    /\ meant' = [meant EXCEPT ![b] = Spec0(r)]
    /\ req' = [Outdated(b) EXCEPT ![r] = Idle]
    /\ worker' = [worker EXCEPT ![b] = Stale(@)]
    /\ Sure(r, TRUE)
    /\ UNCHANGED <<token, issued, batch, slots>>

\* No Deployment, or another error: nothing changed.
ReplaceFails(r) ==
    /\ req[r].pc \in {"start", "restart"}
    /\ Step(r, Idle)
    /\ Sure(r, req[r].bot \in sure)
    /\ UNCHANGED <<token, issued, dep, upgrade, meant>>

\* StopBot, the deletion of a bot, and the jobs.
DeleteDeployment(b) ==
    /\ Present(b)
    /\ dep' = [dep EXCEPT ![b] = Absent]
    /\ meant' = [meant EXCEPT ![b] = Absent]
    /\ req' = Outdated(b)
    /\ worker' = [worker EXCEPT ![b] = Stale(@)]
    /\ UNCHANGED <<token, issued, batch, slots, sure>>

(***************************************************************************)
(* ResetBotToken                                                           *)
(***************************************************************************)
ResetBotAccessToken(r, b) ==
    /\ At(r, "idle") /\ issued[b] < MaxTokens
    /\ issued' = [issued EXCEPT ![b] = @ + 1]
    /\ token' = [token EXCEPT ![b] = issued'[b]]
    /\ Begin(r, "reload", b, token[b])
    /\ UNCHANGED <<dep, upgrade, meant, sure>>

\* Mutant: the handler goes on with the row it came with.
ReloadNothing(r) ==
    /\ At(r, "reload")
    /\ Step(r, [req[r] EXCEPT !.pc = "save"])
    /\ UNCHANGED <<token, issued, dep, upgrade, meant, sure>>
ReloadBot(r) ==
    /\ At(r, "reload")
    /\ Step(r, [req[r] EXCEPT !.pc = "save", !.token = token[req[r].bot]])
    /\ UNCHANGED <<token, issued, dep, upgrade, meant, sure>>

\* The whole row is saved, or not: the error is only logged.
SaveBot(r) ==
    /\ At(r, "save")
    /\ token' \in {token, [token EXCEPT ![req[r].bot] = req[r].token]}
    /\ Step(r, [req[r] EXCEPT !.pc = "getToken"])
    /\ UNCHANGED <<issued, dep, upgrade, meant, sure>>

\* UpdateDeploymentConfig
GetForToken(r) ==
    /\ At(r, "getToken") /\ Present(req[r].bot)
    /\ Step(r, [pc |-> "putToken", bot |-> req[r].bot, token |-> req[r].token,
                alone |-> req[r].alone, got |-> dep[req[r].bot], current |-> TRUE])
    /\ UNCHANGED <<token, issued, dep, upgrade, meant, sure>>

PutToken(r) ==
    LET b == req[r].bot IN
    /\ At(r, "putToken") /\ Accepted(b, req[r])
    /\ dep' = [dep EXCEPT ![b] = [req[r].got EXCEPT !.token = req[r].token]]
    /\ meant' = [meant EXCEPT ![b].token = req[r].token]
    /\ req' = [Outdated(b) EXCEPT ![r] = Idle]
    /\ worker' = [worker EXCEPT ![b] = Stale(@)]
    /\ Sure(r, TRUE)
    /\ UNCHANGED <<token, issued, batch, slots>>

\* The row cannot be read again, the bot was not running, or the Deployment could
\* not be got or put: the new token is only in the row.
ResetEnds(r) ==
    /\ req[r].pc \in {"reload", "getToken", "putToken"}
    /\ Step(r, Idle)
    /\ Sure(r, FALSE)
    /\ UNCHANGED <<token, issued, dep, upgrade, meant>>

(***************************************************************************)
(* UpgradeBot and UpgradeAllBots                                           *)
(***************************************************************************)
\* Not with this image already; an error of that look passes for another image.
UpgradeBot(r, b, image) ==
    /\ At(r, "idle")
    /\ Step(r, [pc |-> "getImage", bot |-> b, image |-> image])
    /\ UNCHANGED <<token, issued, dep, upgrade, meant, sure>>

\* UpdateDeploymentImage
GetForImage(r) ==
    /\ At(r, "getImage")
    /\ Present(req[r].bot)
    /\ Step(r, [pc |-> "putImage", bot |-> req[r].bot, image |-> req[r].image,
                got |-> dep[req[r].bot], current |-> TRUE])
    /\ UNCHANGED <<token, issued, dep, upgrade, meant, sure>>

WithImage(b, got, image) ==
    /\ dep' = [dep EXCEPT ![b] = [got EXCEPT !.image = image]]
    /\ meant' = [meant EXCEPT ![b].image = image]

PutImage(r) ==
    LET b == req[r].bot IN
    /\ At(r, "putImage") /\ Accepted(b, req[r])
    /\ WithImage(b, req[r].got, req[r].image)
    /\ req' = [Outdated(b) EXCEPT ![r] = Idle]
    /\ worker' = [worker EXCEPT ![b] = Stale(@)]
    /\ UNCHANGED <<token, issued, batch, slots, sure>>

UpgradeFails(r) ==
    /\ req[r].pc \in {"getImage", "putImage"}
    /\ Step(r, Idle)
    /\ UNCHANGED <<token, issued, dep, upgrade, meant, sure>>

\* One goroutine for each bot that is listed as running.
UpgradeAllBots(image, listed) ==
    /\ batch.is = "idle" /\ listed # {}
    /\ batch' = [is |-> "running", image |-> image]
    /\ worker' = [b \in Bots |-> [pc |-> IF b \in listed THEN "waiting" ELSE "done"]]
    /\ slots' = 0
    /\ UNCHANGED <<token, issued, dep, req, meant, sure>>

Worker1(b, pc) ==
    /\ worker' = [worker EXCEPT ![b] = [pc |-> pc]]
    /\ UNCHANGED <<token, issued, batch, sure>>
Works(b, pc) == worker[b].pc = pc
AsItWas == UNCHANGED <<dep, req, slots, meant>>

\* Mutant: the goroutines do not wait for each other.
AcquireAtOnce(b) ==
    /\ Works(b, "waiting")
    /\ slots' = slots + 1
    /\ Worker1(b, "look")
    /\ UNCHANGED <<dep, req, meant>>
Acquire(b) ==
    /\ Works(b, "waiting") /\ slots < Limit
    /\ slots' = slots + 1
    /\ Worker1(b, "look")
    /\ UNCHANGED <<dep, req, meant>>

\* Mutant: a bot that is skipped keeps its slot.
LookAndKeep(b) ==
    /\ Works(b, "look")
    /\ \/ Worker1(b, "done")
       \/ Present(b) /\ dep[b].image # batch.image /\ Worker1(b, "getImage")
    /\ AsItWas
\* Skipped without a Deployment that can be read, or with the image already.
Look(b) ==
    /\ Works(b, "look")
    /\ \/ Worker1(b, "release")
       \/ Present(b) /\ dep[b].image # batch.image /\ Worker1(b, "getImage")
    /\ AsItWas

WorkerGets(b) ==
    /\ Works(b, "getImage")
    /\ \/ Worker1(b, "release")
       \/ /\ Present(b)
          /\ worker' = [worker EXCEPT ![b] = [pc |-> "putImage", got |-> dep[b],
                                                   current |-> TRUE]]
          /\ UNCHANGED <<token, issued, batch, sure>>
    /\ AsItWas

WorkerPuts(b) ==
    /\ Works(b, "putImage")
    /\ Worker1(b, "release")
    /\ \/ AsItWas
       \/ /\ Accepted(b, worker[b])
          /\ WithImage(b, worker[b].got, batch.image)
          /\ req' = Outdated(b)
          /\ UNCHANGED slots

\* The deferred functions.
Release(b) ==
    /\ Works(b, "release")
    /\ slots' = slots - 1
    /\ Worker1(b, "done")
    /\ UNCHANGED <<dep, req, meant>>

WorkerStep(b) ==
    Acquire(b) \/ Look(b) \/ WorkerGets(b) \/ WorkerPuts(b) \/ Release(b)

\* wg.Wait returns: the answer names each bot.
UpgradeAnswered ==
    /\ batch.is = "running"
    /\ \A b \in Bots : Works(b, "done")
    /\ batch' = [is |-> "idle", image |-> Configured]
    /\ UNCHANGED <<token, issued, dep, req, worker, slots, meant, sure>>

Next ==
    \/ \E r \in Requests :
        \/ \E b \in Asked : \/ ReadRow(r, b) \/ ResetBotAccessToken(r, b)
                           \/ \E image \in Images : UpgradeBot(r, b, image)
        \/ ReplaceDeployment(r) \/ ReplaceFails(r)
        \/ ReloadBot(r) \/ SaveBot(r) \/ GetForToken(r) \/ PutToken(r) \/ ResetEnds(r)
        \/ GetForImage(r) \/ PutImage(r) \/ UpgradeFails(r)
    \/ \E b \in Bots : DeleteDeployment(b) \/ WorkerStep(b)
    \/ \E image \in Images, listed \in SUBSET Bots : UpgradeAllBots(image, listed)
    \/ UpgradeAnswered

\* Calls of Kubernetes return; a goroutine whose channel has room goes on.
Fairness == (\A b \in Bots : WF_vars(WorkerStep(b))) /\ WF_vars(UpgradeAnswered)

Spec == Init /\ [][Next]_vars /\ Fairness

(***************************************************************************)
(* Properties                                                              *)
(***************************************************************************)
\* A reset of the token and an upgrade of the image that both succeed never take
\* each other back, though each reads the Deployment and writes all of it: it has
\* the image and the token that were put there last.
NoLostUpdate == dep = meant

\* A bot whose token nothing is changing is deployed with the token of its row,
\* provided that the last change of it overlapped with no other and did not fail.
TokenDeployed ==
    \A b \in sure : Present(b) /\ (\A r \in Requests : ~Changes(r, b))
                      => dep[b].token = token[b]

\* The upgrade of all bots is answered, whichever bots fail or have gone meanwhile
\* and however few run at once.
UpgradeAllAnswers == batch.is = "running" ~> batch.is = "idle"
================================================================================
