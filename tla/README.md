# ClawHost in TLA+

ClawHost rents out OpenClaw bots. Each bot is a row in PostgreSQL and, while it
runs, a Deployment and a Service in Kubernetes; an API server, two CronJobs and
the kubelet change these three without any lock between them. This directory
holds a TLA+ model of that program, TLC configurations that check it on small
instances, and TLAPS proofs of its main safety properties for every instance.

## 1. The system

| Component | State it keeps | Operations | Talks to |
|---|---|---|---|
| Bot table (`model/bot.go`) | one row per bot: `status`, `expires_at`, `updated_at`, `config`, `slug`, `access_token`, `endpoint` | insert, `UpdateBotStatus`, `UpdateBot` (gorm `Save`: every column, inserts if no row matched), delete, list by status, list expired | everything |
| Lifecycle handlers (`handler/api/v1/bot_*.go`, `admin_bot.go`) | a copy of the row per request; a goroutine left behind by provision and admin start | create, provision, start, stop, restart, restart all, delete, status, update, and admin twins | bot table, Kubernetes |
| Deployment and Service (`service/k8s/deployment.go`, `service.go`, `exec.go`) | Deployment, Service, pods (in the cluster) | create or replace, delete, exists, status, wait for a ready pod | Kubernetes API |
| Reconcile job (`cmd/reconcile.go`) | four lists of rows | every 30 minutes: repair rows, reap stuck and orphaned bots, ten at a time | bot table, Kubernetes |
| Cleanup job (`cmd/cleanup.go`) | one list of rows | every 2 hours: reap bots whose term ended before the grace period | bot table, Kubernetes |
| Config synchronisation (`config_sync.go`, `botconfig.go`, `bot_config_*.go`, `bot_get*.go`) | the config column, `openclaw.json` on the bot's volume, the start command | copy column to file, file to column, section by section, merge of defaults | bot table, commands in the pod |
| Channels (`bot_channel.go`, `channel.go`) | sections of `openclaw.json` | add, set up, remove, pair | commands in the pod |
| WeChat login (`bot_channel_wechat.go`) | a map of QR sessions in memory, three files in the pod | start, poll, remove | WeChat service, commands in the pod |
| Proxy and automatic approval (`handler/proxy/proxy.go`, `approve.go`) | a set of bots that have a poller | proxy HTTP and websocket, poll and approve devices, one retry | the pod's gateway |
| Gateway client and devices (`gateway.go`, `bot_devices.go`) | one connection per call | challenge, connect, call, answer | the pod's gateway |
| Provisioning settings (`configmap.go`, `admin_settings.go`) | ConfigMap, configs of existing bots | update settings, roll the server, rewrite bots | Kubernetes, commands in the pod |
| Tokens, slugs, apps (`middleware/auth.go`, `app.go`, `bot_reset_token.go`) | tokens and slugs in two tables | authenticate, own, reset, take a slug | tables |
| Image upgrade (`bot_upgrade.go`) | none; a semaphore while it runs | upgrade one, upgrade all (ten at a time) | Kubernetes |
| The rest: skills, logs, workspace, debug, list | none | single commands or single reads | the pod |

### What is hard about it

* **Nobody holds a bot.** A handler reads the row once (in the middleware), decides
  on that copy and then makes three to five remote calls. Two requests for the same
  bot, a request and a goroutine of an earlier request, or a request and a job
  interleave at every call.
* **Every remote call can fail in two ways**: without effect, or with its effect and
  no answer. Handlers return at the first error and leave the earlier calls standing;
  some errors (rollback, both deletions of the jobs) are ignored.
* **Whole-row saves.** `UpdateBot` writes every column of an old copy, and brings
  back a row that was deleted meanwhile.
* **Crashes.** The API server can die with a waiter that alone would have ended a
  bot's `starting`; the jobs have a deadline of 300 seconds.
* **Liveness rests on the reconcile job**, which decides on the statuses it listed
  minutes earlier.
* For configuration: three copies of one document, each copied over the others by
  routines that read before they wait.

What would make each component correct:

* *lifecycle, table, jobs*: at rest the row tells the truth about the cluster;
  resources are acquired before they are announced and released before the bot is
  said to be down; a bot in a term that was paid for is not cleaned up; a renewal stands; a
  deleted row stays deleted; nothing stays `starting`, orphaned or falsely `running` for ever.
* *config*: the last accepted change is the one the pod ends up with; a read changes
  nothing; a key neither side changed survives.
* *WeChat login*: a confirmed login is used once; whatever command failed, an account is
  never known to one file and missing from another that should come first; doing it again
  repairs it.
* *proxy*: at most one poller per bot, and its entry in the map goes with it; a
  websocket is retried after the approval and not before; a device that asks while the
  poller runs is approved.
* *gateway client*: a call returns its own answer or fails; a list leaves no device out.
* *settings*: an owner's choice is never overwritten; concurrent updates of the
  ConfigMap do not lose each other; a retry completes an update that failed half-way.
* *slugs and tokens*: a slug has one bot; the Deployment has the token of the row.
* *upgrade*: two changes of one Deployment do not undo each other; the request is
  answered however many goroutines wait for a slot.

## 2. The modules

| Module | What it is |
|---|---|
| `BotLifecycle` | The table (its columns `status`, `expires_at`, `updated_at`), Deployment, Service and pods, all lifecycle handlers with their goroutines, both jobs, faults and crashes. Its last section states the properties. |
| `BotContract` | The abstract specification: what the service promises about one bot, as a phase and a bit "occupies the cluster". |
| `BotLifecycleInv` | The inductive invariant `Inv`, and the refinement `KeepsContract` of `BotContract`. |
| `BotLifecycleClaims` | A sentence of the README that the code does not keep. |
| `BotLifecycleProofs` | The TLAPS proofs. |
| `BotRenewal` | `BotLifecycle` with history variables about renewals, and the property that needs them. |
| `BotRenewalProofs` | The TLAPS proof of it. |
| `MCBotLifecycle`, `MCBotRenewal` | Instances for TLC. |
| `OpenClawConfig` | A bot configuration as data, with each conversion and merge that the code applies to it, as operators. |
| `ConfigSync` | The configuration in its three places (column, file on the volume, start command), every endpoint that edits one of them, and the routines that copy between them. |
| `ConfigSyncClaims`, `MCConfigSync` | A comment about the configuration that the code does not keep; instances for TLC. |
| `ConfigContract` | The abstract specification of a configuration: of each section what was asked for, whether it is in force, whether it was lost. |
| `ConfigSyncInv` | The inductive invariant `Inv` of `ConfigSync`, and the refinement `KeepsContract` of `ConfigContract`. |
| `InForceProofs` | The TLAPS proofs of the two and of `InForce`. |
| `ConfigSyncProofs`, `WechatLoginProofs`, `ProvisioningProofs`, `DevicePairingProofs`, `RolloutProofs` | TLAPS proofs about the component each is named for. |
| `WechatLogin`, `MCWechatLogin` | QR sessions, polling, the files in the pod, removal of an account. |
| `Provisioning`, `MCProvisioning` | The platform's default model: ConfigMap, the server's copy of it, the rows of bots that follow it. |
| `Gateway` | The device table of a bot's gateway, which is not part of this repository: what the two modules below rely on. |
| `AutoApprove` | The proxy's poller, single approvals, and the approval between the two dials of a websocket. |
| `GatewayClient` | A websocket to the gateway: handshake, calls, the device handlers. |
| `DevicePairing`, `MCDevices` | `AutoApprove` and `GatewayClient` at one `Gateway`, with restarts of the server. |
| `Rollout`, `MCRollout` | Changes of the Deployments: restart, start, token reset, upgrade of one and of all. |

### How `BotLifecycle` corresponds to the code

| Variable | Code |
|---|---|
| `status[b]` | the column `status`; `"none"` before the insert, `"gone"` after the delete. An ID is a fresh UUID and is not used twice. |
| `term[b]`, `lapsed[b]` | `expires_at`, abstracted to the number of the rental term, and the clock: term `n` ended longer ago than the grace period when `n <= lapsed[b]`. `PUT` of `expires_at` starts the next term. |
| `old[b]` | `updated_at` is more than `startingTimeout` (ten minutes) ago. Every write of the row resets it. |
| `dep[b]`, `svc[b]` | the Deployment `oc-<id>` and the Service exist. |
| `pods[b]` | who owns the ready pods that carry the bot's label: the current Deployment (`"own"`) or a deleted one whose pods are still terminating (`"past"`). `DeploymentStatus` sees only the first, `WaitForPodReady` both. |
| `thr[t]` | a request with the goroutine it leaves behind: the operation, the next call (`pc`), the bot, the bots still to do (`RestartAllBots`) and the copy of the row, kept only by the two handlers that save it. |
| `rq`, `rpc`, `rold` | the reconcile job: how many of the four lists are read, one goroutine per listed row (a row can be in several lists), and the copied `updated_at`. |
| `cpc` | the cleanup job: one goroutine per listed bot. |

Every remote call is one step with an outcome (`ok`, `failed`, `lost`: effect but
no answer). The operators `CreateDeployment`, `DeleteService`, `UpdateBotStatus`, ...
are the functions of `service/k8s` and `model` and take the labels at which the
handler goes on after success and after an error; the operator of a handler is the
list of its calls. The first disjunct of a handler is its entry with the middleware's
read of the row and the handler's guard. A handler that returns early does nothing
and is not a step.

Three parameters say who calls what:

* `Offered`: the endpoints and jobs that are used at all;
* `Overlap[b]`: which operations on `b` its callers let run at the same time. The code
  enforces nothing, so `Ops` is what the code alone gives;
* `Reliable`: bots whose calls never fail (and whose handlers and jobs are not killed).

A bot is **orderly** when its calls do not fail and its overlapping operations all
build it up (`UpOps`) or all tear it down (`DownOps`). This is an assumption about the
callers, stated as such: the safety theorems about single rows are about orderly bots,
next to any number of bots that are not. What holds without the assumption, and what
does not, is checked separately (section 3: `chaos`, `repair` and the claim).

`BotRenewal` adds history variables, which change nothing the program does: `paid[b]`, the
latest term the bot was ever given; `stale`, the requests whose copy of the row is from before
that term; `overwritten`, the bots whose row one of these saved since; `caught`, the bots
that were given the term while a cleanup run was on them. `PaidTermKept` is about every bot,
orderly or not. The code does lose renewals, to a whole-row save of an older copy and to a
cleanup run that listed the bot earlier; the property says that there is no third way: outside
`overwritten` the row has the term last paid for, and outside `caught` the job works on no
bot in it. A late status write of a waiter or of a job, or a crash half-way through a
handler, must not take it back.
To the columns of `BotLifecycle`, the saves of the configuration endpoints and of the routines that
copy configuration are an update that keeps the term (`PutBot`), by a request of their own.

Left out of this module: configuration (in `ConfigSync`; the trailing `WriteConfigToBot` and
`SyncConfigToPod` of the handlers change neither the row's status nor the cluster
objects modelled here), tokens, slugs and the endpoint column (never read), the
manifest of the Deployment. `expires_at` moves only forwards, one term at a time. The
order in which `ListExpiredBots` fills its batch is any. The limit of ten goroutines is
a limit of speed. `WaitForPodReady` polls 120 times; the model lets it give up at any
time with a failed call or with no ready pod.

### How `ConfigSync` corresponds to the code

One bot. `row` is its row (status, token, config column), `file` is `openclaw.json` on
the volume, `cmd` the start command of the Deployment with the configuration built into
it (`ifAbsent` as `CreateDeployment` makes it, `always` as `UpdateDeploymentConfig` makes
it), `pod` the newest pod and `old` whether the pod before it is still ready.
`flow[f]` is a request with the goroutine it leaves behind: the copy of the row it read,
the configuration it is about to write. Reading the row, saving it, reading the file and
writing the file are steps of their own, because they are separate calls in the code.

The four routes between column and file are those of `service/k8s`:

| Route | Steps | Code |
|---|---|---|
| section sync, column to file, merged by node in the pod | `SectionsRead`, `SectionsPatch` | `SyncSectionsToPod` |
| full sync, column to file | `FullRead`, `FullWrite` | `SyncConfigToPod` |
| merge at start, copy of the row over the file | `MergeRead`, `MergeWrite` | `WriteConfigToBot` |
| pull, file to column | `PullRead`, `PullRow`, `PullSave` | `SyncConfigToDatabase` |

A configuration keeps what the code tells apart: the provider map, the default model, the
accounts of channels, `gateway.auth`, and the keys that the Go types do not declare
(`gateway.http` among them). Default values that `buildProvidersMap` fills in are left out.

Two variables are bookkeeping and not program state. `asked` is what the clients were
told is configured. `lost` is the set of sections for which something happened after
which the code does not bring `asked` into force; a section enters it only

* when a call fails or a wait ends before the write (`CallFails`, `WaitExpires`,
  `SaveTokenFails`, `MergeReadFails`, `AwaitPod`),
* when no route carries the edit: a default model, a token or a channel set while the bot
  is stopped and a file exists (`EditSections`, `ResetBotAccessToken`, `PutConfig`), a gateway
  password of a bot that is created or stopped, which no start command knows (`Locked`), or a
  change of the file that the raw endpoint does not bring to the column,
* when a start command overwrites the file with a configuration older than the change
  (`RunCommand`).

A section leaves it when file and column both show what was asked again. (`AskedBy` is `asked`
after a whole configuration: at creation and after a `PUT`.) `InForce` says
that there is no other way to lose a change: at rest, every section outside `lost` is as
asked in the file and in the column. Section 5 describes the losses themselves.

The environment is stated in two guards. `Settled`: clients wait until a rollout is over
before they send the next request. `Alone`: they wait for what an earlier request left
behind, unless it is a section sync of other sections. Without these the code loses
changes at once (a whole-row save from an old copy, a read-merge-write of the file around
another), which the hazards in `PROJECT.json` list.

Left out: failures of `CreateDeployment` and `CreateService` and the status writes
(`BotLifecycle` has them), `RestartAllBots` and provisioning (a restart and an admin start
as far as the configuration goes), and `UpdateDeploymentImage` failing (no effect).

### How `WechatLogin` corresponds to the code

One bot. `session` is `weixinSessions[bot.ID]`; `req[p]` is a handler with the goroutine it
leaves behind, together with the QR code it works on (a handler goes on with the session it
*read*, while the map may hold another by then). `qrs` is WeChat's side. `files` are the
credential file, the index and the channel section of `openclaw.json`; each `ExecInPod` is one
step that may fail before or after its command took effect. `writeWechatCredentials` stops at
the first error, `WechatRemoveAccount` ignores errors. A restart of the server forgets sessions
and goroutines. `told`, `dropped` and `goal` are for the properties only.

Account names are the normalised ones. The status answer carries the raw `account_id` (line
161) while files and index use the normalised name, so a removal with the raw name finds
nothing; the model removes by normalised name.

### How `Provisioning` corresponds to the code

`stored` is `config.toml` in the ConfigMap, `live` the copy in viper: the file is mounted by
`subPath`, so a process sees what was there when it started, and an update ends by restarting
its own Deployment (`rollout`). Both endpoints get, edit and update the ConfigMap (an update
that carries an old `resourceVersion` is refused), list all bots, and save one after the
other those that `botMatchesProvisionModel` the *server's* default, as they were listed. Any
call may fail and leaves what was done. A setting is a model with an API key; each model has a
provider of its own. `own`, `followers`, `saved` and `attempt` are for the properties.

`RetryCompletes` has its conditions because the code needs them. Bots stay on an old default
when two updates with different targets are under way, when the server restarts after an
update failed half-way (the new process takes the new default for the previous one), or when
a bot is created between the listing and the restart; the property speaks of none of these.
The old and the new process of a rolling update of the server are one process here. A complete
default is assumed: with an empty one `botMatchesProvisionModel` is true of every bot.

### How the device modules correspond to the code

`Gateway` is external: an unpaired device that connects becomes a pending request, an approval
names the request, a revoked device asks anew. In `AutoApprove`, `activePoller` is the map
entry of the bot, and `job[j]` a goroutine or a websocket handler: the poller with the
rounds it has left, a single approval, or a websocket between its two dials with the request
it was refused with. Listing and each approval are commands in the pod that may fail.
In `GatewayClient`, `conn[c]` is a handler with its connection, `stream[c]` what the gateway
sent and nobody read, `server[c]` the gateway's end. The handshake reads *one* message as
the answer to `connect`: an event passes for success and the real answer stays in the stream.
A deadline may pass at any read; the request is performed all the same, so an error answered
to the client does not mean that nothing happened. The gateway serves a connection in order: a
call that is sent before the handshake is answered waits behind it, so the model sends it only
then (`SendCall`), and a connection has one request at the gateway.

Left out: what is forwarded once a websocket is up, filters and formats of the list,
cookies. Approvals take every pending request, not only that of the device that asked. A page
loaded during the last round of a poller starts no new one, so its device may stay pending:
`PendingApproved` speaks of a poller with rounds to spare.

### How `Rollout` corresponds to the code

`dep[b]` is the Deployment, as far as it differs: image, and the token in its start command
(configuration is `ConfigSync`'s matter). `CreateDeployment` and `ReplaceDeployment` build it anew and
update without a version, so they overwrite; `UpdateDeploymentImage` and
`UpdateDeploymentConfig` get it, change a part, and write all of it, and Kubernetes refuses
that when somebody wrote in between (`current`). A handler works with the row it read on
arrival. `worker[b]` is the goroutine of `UpgradeAllBots` for a bot, `slots` the channel `sem`.
An answer that is lost leaves the same state as one that arrives, for all of these calls.
`meant` and `sure` are for the properties. The Deployment that a restart or a start builds without
a version is what its caller asked for, so it counts as meant whatever it overwrites:
`NoLostUpdate` speaks of upgrades and resets only. Whole-row saves by other handlers, which can
bring an old token back to the row, are left out here; the hazard is that of `UpdateBot` in
`BotLifecycle`. A restart puts the *configured* image back, also
after an upgrade to another one: `buildDeploymentSpec` knows no other.

## 3. The runs

`tlc -workers 2 -config X.cfg MCBotLifecycle` (or the MC module of the component). The longest, `config`, takes three minutes.

| Run | Instance | Checks | Shows |
|---|---|---|---|
| `orderly_up` | 1 bot, 2 threads, 2 terms, all operations; build-up operations overlap | `Inv`, `Settled`, `KeepsContract` | two starts, restarts, provisions and a late waiter can interleave at will: at rest the row is true, and the contract is kept at every step |
| `orderly_down` | the same, tear-down operations and cleanup overlap | `Inv`, `Settled`, `KeepsContract` | stop, delete and cleanup can interleave at will: a bot is down only after its resources were released, and at rest none is left behind |
| `isolation` | 1 orderly bot next to 1 that fails and overlaps without limit; restart-all, reconcile and cleanup (one bot a run) walk over both | `Settled` | what goes wrong with one bot does not reach another through the shared jobs |
| `chaos` | `MCBotRenewal`: 1 bot, 2 threads, 3 terms, cleanup job, every overlap, every failure, crashes | `PaidTermKept`, `GoneIsFinal` | a renewal is lost only to a save of a copy that was read before it, or to a cleanup run that had listed the bot before it; a removed row is brought back by a whole-row save only, never by a late status write |
| `repair` | 1 bot, started by the administrator's start with its waiter (the owner's makes the same calls without one), stopped, updated, deleted, every overlap and failure until failures stop, fair | `TypeOK`, `GoneIsFinal`, `StoppedReclaimed`, `DeadBotNoticed`, `StartingResolved` | orphaned Deployments and bots that are only said to be running do not last; no bot stays `starting`, unless saves keep renewing `updated_at`; the reconcile job brings no removed row back |
| `config` | `MCConfigSync`: 1 bot, 2 flows, 2 providers with 2 entries, 2 accounts of one channel, 4 requests, 1 failure, 1 container restart; created empty, configured, or with a gateway password | `TypeOK`, `InForce`, `Inv`, `KeepsContract` | a change is in force at rest in file and column, but for the named losses, and what is in force is not put out of force by any sync, pull, merge or start; section syncs of other sections can overlap |
| `login` | `MCWechatLogin`: 3 requests, 2 QR codes, 1 account, 1 failing command | `TypeOK`, `SessionUnused`, `NamedIsComplete`, `GoalReached` | in every order of polls, logins, removals, failing commands and restarts a login is used once, no file names an account that an earlier one lacks, and a repeated operation repairs a half-made account |
| `provision` | `MCProvisioning`: 2 requests, 3 updates, 1 bot, 2 models on 2 keys, 1 crash | `TypeOK`, `OwnerKept`, `ProvidersKept`, `RetryCompletes` | an owner's model and a saved provider stay; a retry completes a failed update |
| `devices` | `MCDevices`: 2 goroutines, 1 device handler, 1 device that asks twice, 2 rounds, 1 event, and one of a failing command and a restart; fair | `TypeOK`, `OnePoller`, `RetryIsPaired`, `Honest`, `ListMissesNone`, `PendingApproved` | the pairing promises of section 1 |
| `rollout` | `MCRollout`: 2 handlers of one bot, the upgrade of 2 bots one at a time, 2 images, 1 reset | `TypeOK`, `NoLostUpdate`, `TokenDeployed`, `UpgradeAllAnswers` | successful changes of a Deployment stay; row and Deployment agree on the token; the upgrade of all is answered |
| `claim_*` | one property each, expected to be violated | see section 5 | |

**Bounds.** One or two bots: rows are independent except through `RestartAllBots`, the
two jobs and a server crash, which `isolation` runs on two. Two threads: every hazard
listed in `PROJECT.json` is a pair of operations on one bot, and the jobs add two more
actors. `MaxTerm = 2`: one renewal is enough to race the cleanup job, and 3 in
`chaos`, where a copy may be two renewals old; where no property is about renewals it is 1.
`chaos` offers an operation for each kind of write to a row but leaves the reconcile job, whose
writes are status writes, to `repair`: both at once are too many states, and the theorems about the
two properties have all of it. `Batch = 1` with one bot never cuts the
list; with the two bots of `isolation` it does; the proofs are for every batch size. In `config`, four requests suffice for start, edit, stop or reset, start; one
failure and one restart of the container because a second would only add to `lost`; a deadlock is
no error there, because the bounds end the behaviours; the proofs are for every number of requests, failures
and restarts. In `login`, three requests, with their
goroutines, meet in every order; two QR codes are an older and a newer login; one account, because
accounts share nothing but the commands that write their files. In `provision`, a second bot does not end in time: the loop over the bots has no other link
between them than that it stops at an error, which with one bot is an error before or after
its save; three updates are an attempt, its retry and a rival. In `devices`, the poller's two
rounds are one that may fail and one that may not; two goroutines are what two pollers, or a
poller and a websocket, need. In `rollout`, two goroutines and one slot are what waiting
needs, and the handlers are about one of the two bots (`Asked`) because Deployments of
different bots share nothing but the slots. Threads are interchangeable (symmetry), and
symmetry is not used for liveness. `CHECK_DEADLOCK` stays on for the lifecycle, where the reconcile
job can always start, but for `chaos`: without that job nothing is left to do once the last bot
is removed.

**Fairness** (`FairSpec`). The CronJob controller starts the reconcile job again and
again and its goroutines run on (`WF` of `RecJob`); a handler that has begun goes on
(`WF` of its next call, for each thread); ten minutes do pass (`WF` of
`StartingTimeout`). `<>[][CalmStep]_vars` says that failures, lost answers, kills and
crashes stop at some time; without it nothing need ever succeed. Nothing is assumed of
clients, of pods or of the cleanup job.

`DevicePairing` assumes that a goroutine that was started goes on: sleeps end and commands in
the pod return, with an error or without. Nothing is assumed of requests, devices, clients
or the gateway. `Rollout` assumes that calls of Kubernetes return and that a goroutine
whose channel has room takes its slot (`WF` of the step of each goroutine); handlers need not
go on.

Two qualifications are in the liveness properties because the code has them: a
`stopped` row may change before its orphan is found (a new start adopts the Deployment),
and `startingTimeout` counts from `updated_at`, so a stream of updates puts the repair
off for ever.

## 4. The proofs

Eight modules hold theorems. Each proves its component from assumptions on the constants alone:
that bounds are natural numbers, that a value for "none" is not among the values proper, that
the inputs are of their type (`ConstantsOK` of the module; `AsksOK`, `RoundsOK` and `EventsOK` of
`DevicePairing`'s parts; `DataOK` and `AbsentOK` of `OpenClawConfig`). Only `Rollout` asks for more: the set of bots
is finite, because it counts the goroutines that hold a slot.

### `BotLifecycleProofs`

It proves, from `ConstantsOK` alone (types of the constants), for every set
of bots and threads, every `Overlap`, `Reliable`, `Batch` and `MaxTerm`:

| Theorem | Statement |
|---|---|
| `TypeCorrect` | `Spec => []TypeOK` |
| `InvHolds` | `Spec => []Inv` |
| `SettledHolds` | `Spec => []Settled` |
| `KeepsContractHolds` | `Spec => KeepsContract`: the detailed specification implements `BotContract` for every orderly bot |
| `GoneIsFinalHolds` | `Spec => GoneIsFinal`, for every bot, orderly or not |

**The invariant.** `Settled` speaks of bots at rest and is not inductive. `Inv` says what
holds in the middle of operations:

* `ThreadShape`: a thread that is on a bot is at a label of its operation (`Route`), and
  only `RestartAllBots` has more than one bot to do. It needs no assumption on callers.
* `Disciplined(b)`: what is at work on an orderly bot may overlap there. With `ThreadShape`
  it is `Sharing`, proved first and by itself; from it the lemma `Company` tells, for the
  thread that moves, who else can be at the same bot: only builders next to a builder,
  only removers next to a remover, nobody next to a reconcile goroutine or a save.
* `LaunchOK`, `RestartOK`, `StopOK`, `SaveOK`, `ReconcileOK`, `CleanupOK`: what an operation has
  achieved by the label it is at, and that a copy it will save is still the row.
* `StatusOK`: what each status promises in mid-operation. A running bot may be without
  its Service while some restart is about to create it (`Reviving`) and without its
  Deployment while a teardown is on its way to the row; a `starting` bot has a waiter.

The step lemma has one case per kind of actor. `UpEffect` and `UpKeeps` treat all the
builders at once (each creates, or deletes and re-creates, and writes an "up" status),
`DownShape` and `DownKeeps` all the removers and the cleanup job, `SaveKeeps` the two whole-row
saves, `RecKeeps` the goroutines of the reconcile job, `JoinKeeps` and `JobBeginKeeps` the
arrival of a new operation, where the overlap discipline is used. Steps on other bots
leave `Consistent(b)` alone. `ThreadStepShape` ties the operators of the handlers to these
few kinds.

**The refinement.** `LocalStep(b)` writes the actions of `BotContract` in the variables of
`BotLifecycle`. `UpLocal`, `DownLocal` and `RecContract` show from `Inv` that each call on an
orderly bot is one of them or a stutter, `ContractStep` that no step moves two orderly bots,
and `ContractMaps` carries this over the refinement mapping
(`phase` is the row's status, `held` is Deployment or Service).

### `BotRenewalProofs`

`PaidTermKeptHolds`: `RenewalSpec => []PaidTermKept`, from the same `ConstantsOK`, for every
bot, orderly or not. `PaidTermKept` is not inductive: it says nothing of copies that are still
to be saved. `Renewals` adds `CopiesFresh`: a copy whose holder is not in `stale` has the term last
paid for, if the row was not overwritten. Three lemmas say what any step of the program
may do: `NextTerm`, that only the save of a row changes a term, to that of the copy or a later
one; `NextCopy`, that a copy stays as it was read; `NextCleanup`, that the job takes up expired bots
only, and that a term that is over stays over. `RenewalProgram` shows that the history variables
restrict nothing (`RenewalSpec => Spec`), which brings in `TypeOK` and `ThreadShape` from `InvHolds`.

### The other components

| Module | Theorem | Statement |
|---|---|---|
| `WechatLoginProofs` | `TypeCorrect`, `SessionUnusedHolds`, `NamedIsCompleteHolds`, `GoalReachedHolds` | `Spec => []TypeOK`, `[]SessionUnused`, `[]NamedIsComplete`, `[]GoalReached` |
| `ProvisioningProofs` | `TypeCorrect`, `ProvidersKeptHolds`, `OwnerKeptHolds`, `RetryCompletesHolds` | `Spec => []TypeOK`, `[]ProvidersKept`, `[]OwnerKept`, and the action property `RetryCompletes` |
| `DevicePairingProofs` | `TypeCorrect`, `OnePollerHolds`, `RetryIsPairedHolds`, `HonestHolds`, `ListMissesNoneHolds` | `Spec => []TypeOK`, `[]OnePoller`, `[]RetryIsPaired`, `[]Honest`, `[]ListMissesNone` |
| `RolloutProofs` | `TypeCorrect`, `NoLostUpdateHolds`, `TokenDeployedHolds` | `Spec => []TypeOK`, `[]NoLostUpdate`, `[]TokenDeployed` |
| `ConfigSyncProofs` | `TypeCorrect`; `SyncsCommute`, `MergeTwice`, `SyncThenPull` | `Spec => []TypeOK`; laws of the merges: syncs of different sections commute, a merge done twice is done once, a pull after a full sync stores what a full sync would write |
| `InForceProofs` | `InvHolds`, `InForceHolds`, `KeepsContractHolds` | `Spec => []Inv`, `[]InForce`, and `Spec => KeepsContract`: `ConfigSync` implements `ConfigContract` |

*WechatLogin.* None of the three is inductive: they are about a request that has answered, a
file that is written, an operation that is over. `Typed` adds what a request holds at each label.
`Once` says that the QR code of a request that just fetched a confirmation is in no
other request, not in the map, and not told before (`Fresh`). `Named` says which files a
request has filled by the command it is about to run. `Aimed` says the same against
the goal of the last operation, and that all operations under way on one account want the same
while the goal is certain.

*Provisioning.* `Catalogued`: a copy of the ConfigMap whose version is still current *is* the
ConfigMap, and a request past its save has its provider in the catalog. `Owned`: bots
with a model of their own do not match any default and are on no request's list to rewrite.
`Retried` (`Born`, `Single`) follows one target through failing attempts: a follower has either what
the server takes for the previous default or the new one, and the new one once the listing
request is through with it.

*DevicePairing.* The proof follows the composition: `Forward` states what any step of either
part may do to the device table (requests are numbered upwards, a device once paired stays
listed), and each part keeps its invariant under it. `Approving`: at most one goroutine polls,
exactly while the entry of the map is there (`OneAtMost`), and a websocket about to dial
again after an undisturbed approval has left none of the requests pending that it saw (`JobsSound`).
`Clienting`: a request the gateway holds is of the handler's own operation, the messages in a
stream are answers to calls this connection made or events, and the position of the handler says
which calls those are (`Coherent`).

*Rollout.* `slots` is the number of goroutines between the two ends of their deferred
release (`Typed`). `Current`: what was got of a Deployment that nobody wrote since is the
Deployment, so a write Kubernetes accepts undoes nothing. `Alone` and `Deployed`: a change of
a token that nobody else interferes with knows the token of the row; where a token is
certain and nothing else is under way, the Deployment has it.

*ConfigSync.* `TypeOK` becomes inductive with `HasCommand` (a pod belongs to a Deployment, so it has a
start command to run). The work is in the lemmas on the operators of `OpenClawConfig`: each
conversion and each merge takes configurations to configurations.

*InForce.* `InForce` speaks of a bot at rest; between two rests nearly every section is somewhere
out of date. `Inv` says who will bring it up to date:

* `ColumnKept`, `FileKept`: a section that is not lost is as asked in the column (in the file), or
  somebody owes it (`OwedToColumn`, `OwedToFile`): a sync, a full write or a merge owes the file what it
  carries, a pull the column, a token reset first the column and then, if it will redeploy, the file; a start of a
  bot that is not running owes the file the models, and a container with an `always` command everything.
* `Knows(x)`: what a flow's copies are worth at each of its steps, as that the row it will save whole is still the row.
  That is false without `Alone` and `Settled`, and `Company` says what these leave: the only flows beside
  another are section syncs, each of other sections.
* `Holds(x)`: a copy of the file that will be written back, to the file or to the column, has every section
  right that is not lost (`Kept`), but for those its holder means to change.
* `Unwritten`: before the file is written for the first time, the start command itself knows what was asked.
* `Undone`: what an `always` command would undo (`Stale`) is already lost, and in no copy, in no file and in
  no column as asked. Without it a restart of a container would lose a section unnoticed.
* `Tokens`, `HasDeployment`: the last token issued is in the row; a Deployment has a pod.

There is one lemma for each action. `KnowsAt`, `HoldsAt` and `OwesAt` are the parts of `Inv` as tables by step;
`FlowOnly` treats at once the steps that only move a flow, `SoloNext` those of a flow that is alone,
`FileWriteInv` the writers of the file, `EditSectionsInv` the five edits of the column, `LaunchInv` the three starts, and
`StartInv` the shell script. The conversions of `OpenClawConfig` come in
by what they do to a section that fits what was asked (`CommandFits`, `MergeFits`, `AssignedSections`,
`MergeMapSections`, `GatewayAuthSections`, `EditsFit`). Each of these lemmas also shows that its step is one
of `ConfigContract` (`Stays`): what is as asked in both places stays so, unless it is asked for anew or
lost, and what is lost is found again only by being brought into both. This does not follow from `InForce`:
a sync that emptied a section for a moment and then filled it would keep `InForce`. What does not hold is
that the two places are never out of step: a sync of a default model leaves file and column different until it ends.

**Only model-checked:** the liveness properties (`StoppedReclaimed`, `DeadBotNoticed`,
`StartingResolved`, `PendingApproved`, `UpgradeAllAnswers`), which are out of the prover's reach.
Every safety property of a passing run is proved.

## 5. What the code does not keep

Each run below checks one sentence of the repository and TLC finds a counterexample.

| Run | Sentence | What happens |
|---|---|---|
| `claim_renewal` | README.md:326 "Finds bots where `expires_at` is older than the grace period" | the row is renewed after it was listed; the goroutine does not look again and deletes a paid bot |
| `claim_endpoint` | botconfig.go:392 "Always enable HTTP chat completions endpoint" | an upgrade writes the file from Go types that do not have `gateway.http`: the endpoint is off until a container starts again |

More disagreements are built into the models, as what a property has to leave out, and
have no run of their own:

* bot_delete.go:21 says "Delete K8s resources if running". A bot whose waiter wrote `error`, because
  its pod was not ready in time, may have a Deployment and a Service: deleting it removes the
  row alone, and nothing finds them any more. `BotContract` allows it.
* README.md:38 says "Bot config is synced bidirectionally between PostgreSQL and the pod". A default
  model set while the bot is stopped never reaches the file: the start finds a file, and
  `WriteConfigToBot` with `force = false` leaves its default model alone (`botconfig.go:37`). In
  `ConfigSync` the section is `lost`.
* deployment.go:223 says "On restart, the PVC already has the live config". After a token reset
  the start command overwrites the file at every start of the container (`deployment.go:714`),
  and a channel added since is gone. In `ConfigSync` this is the loss in `RunCommand`.
* An answer for an old QR code deletes the bot's session, also when a newer login has stored
  its own meanwhile (bot_channel_wechat.go:150): that login ends with "no active login session". `SessionUnused` says
  only that a used login is not found again.

Four more follow from a single failed call and need no search: `GetBotStatus` drops the
error of `DeploymentExists` and writes a healthy bot `stopped` (`bot_status.go:44`), which the
next reconcile run then deletes as an orphan; the cleanup job marks a bot
`deleted` whatever its deletions returned (`cleanup.go:75`); `RestartBot` returns when
`CreateService` fails after `DeleteService` and leaves a running bot without a Service
(`bot_restart.go:39`); a Service without a Deployment is looked for by nobody
(`reconcile.go:130`).

## 6. Not modelled, and the plan

| Order | Subject | In mind |
|---|---|---|
| 1 | Which faults can lose which section | `lost` grows only by the causes of section 2; a run without failures and without edits of a stopped bot should lose nothing but to a start |
| 2 | A contract for the Deployments of `Rollout` | the last accepted change of each field wins |

Not modelled: slugs (a lookup and a save; two bots cannot end with one slug because the
column has a unique index, model/bot.go:31), rows of apps (plain inserts and whole-row saves; `UpdateApp` can bring
an old API token back as `UpdateBot` can a status), `TestConfiguredProvider` (one HTTP request),
`GetBotConnect` and the other handlers that only read.

Not modelled, and not planned: the admin web interface (presentation of the same
endpoints), routing, configuration files, logging, manifests other than the two jobs,
image builds, and the handlers that run a single command in a pod and return its output.
