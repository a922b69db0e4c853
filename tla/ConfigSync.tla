----------------------------- MODULE ConfigSync -----------------------------
(***************************************************************************)
(* The configuration of one bot in its three places: the config column of  *)
(* its row, openclaw.json on the volume of its pod, and the start command  *)
(* of its Deployment.  A request reads the row once and saves it whole;    *)
(* what it owes the pod is paid later by a goroutine, by further calls     *)
(* that may fail.  Every read and every write of a row or of the file is a *)
(* step of its own.  Failures of CreateDeployment, CreateService and of    *)
(* the status writes are the subject of BotLifecycle and not repeated.     *)
(***************************************************************************)
EXTENDS OpenClawConfig

CONSTANTS
    Flows,      \* requests, each with the goroutine it leaves behind
    Offered,    \* the operations that clients call
    Created,    \* configurations a bot is created with
    Inputs,     \* configurations a client sends whole
    MaxRequests, MaxFailures, MaxCrashes    \* bounds on the behaviours

Ops == {"add", "update", "delete", "defaults", "setProvider", "touch", "put",
        "reset", "get", "addChannel", "removeChannel", "rawMerge", "rawReplace",
        "start", "adminStart", "stop", "restart", "upgrade"}

ASSUME ConstantsOK ==
    /\ Offered \subseteq Ops
    /\ Created \cup Inputs \subseteq Config
    /\ {MaxRequests, MaxFailures, MaxCrashes} \subseteq Nat

VARIABLES
    row,        \* the row: status, access token, config column
    file,       \* openclaw.json on the volume, or Absent
    cmd,        \* the start command of the Deployment
    pod,        \* the newest pod
    old,        \* during a rollout the pod of the old spec is still ready
    flow,       \* what each flow is doing
    issued,     \* the number of tokens issued after the first
    asked,      \* what clients were told is configured
    lost,       \* sections for which a step failed or that no step carries
    left        \* what is left of the bounds

vars == <<row, file, cmd, pod, old, flow, issued, asked, lost, left>>

(***************************************************************************)
(* Data                                                                    *)
(***************************************************************************)
Sections == {"models", "agents", "channels", "auth"}

\* Handlers compare the status with running; stopped stands for created,
\* stopped and error alike.
Row == [status : {"stopped", "starting", "running"}, token : Nat, cfg : Config]

\* How a container starts: "ifAbsent" writes its configuration only when there
\* is no file, "always" overwrites it (touched: sections changed since).
Command == [kind : {"none", "ifAbsent", "always"}, cfg : Config,
            touched : SUBSET Sections]
NoCommand == [kind |-> "none", cfg |-> EmptyConfig, touched |-> {}]

Steps == {"idle", "read", "sections", "patch", "full", "fullWrite", "await",
          "merge", "mergeWrite", "channelWrite", "rawWrite", "pull", "pullRow",
          "pullSave", "reload", "resave", "redeploy"}

\* bot: the row this flow has read; cfg: the configuration it is about to write;
\* sections: those it carries; account: the one it adds or removes; more: the
\* handler has a further step (redeploy after a reset, pull after a sync).
Flow == [pc : Steps, bot : Row, cfg : Config, sections : SUBSET Sections,
         account : {Absent} \cup Accounts, more : BOOLEAN]

NoRow == [status |-> "stopped", token |-> 0, cfg |-> EmptyConfig]
Idle  == [pc |-> "idle", bot |-> NoRow, cfg |-> EmptyConfig, sections |-> {},
          account |-> Absent, more |-> FALSE]

\* A pod that kubectl exec reaches: WaitForPodReady finds it.
Ready == old \/ pod = "ready"

\* No rollout is in progress.
Settled == pod = "none" \/ (pod = "ready" /\ ~old)

Quiet == \A f \in Flows : flow[f] = Idle

\* The sections of a configuration that are as the clients asked for them.
Matching(c, a) ==
    {s \in Sections :
        CASE s = "models" ->
                LET m == ProvidersOf(c) IN
                /\ \A p \in DOMAIN a.models : p \in DOMAIN m /\ m[p] = a.models[p]
                /\ \A p \in DOMAIN m \ DOMAIN a.models : p = Anthropic /\ m[p] = Stock
          [] s = "agents"   -> a.agents = Absent \/ c.agents = a.agents
          [] s = "channels" -> c.channels = a.channels
          [] s = "auth"     -> c.auth = a.auth}

\* The configuration the row stands for: what SyncConfigToPod would write.
Column == WithGatewayAuth(row.cfg, row.token)

\* The row, the file, the start command and every copy that a handler or a
\* goroutine holds are of the shape of their Go types at all times.
TypeOK ==
    /\ row \in Row
    /\ file \in {Absent} \cup Config
    /\ cmd \in Command
    /\ pod \in {"none", "pending", "started", "ready"}
    /\ old \in BOOLEAN
    /\ flow \in [Flows -> Flow]
    /\ issued \in Nat
    /\ asked \in [models : ProviderMaps, agents : {Absent} \cup Providers,
                  channels : SUBSET Accounts, auth : {Password} \cup Nat]
    /\ lost \subseteq Sections
    /\ left \in [requests : Nat, failures : Nat, crashes : Nat]

\* What a client asks for with a whole configuration.
AskedBy(c) == [models |-> ProvidersOf(c), agents |-> c.agents, channels |-> c.channels,
               auth |-> IF c.auth = Password THEN Password ELSE issued]

\* A password, which no start command carries.
Locked(c) == IF c.auth = Password THEN {"auth"} ELSE {}

Init ==
    \E c \in Created :
        /\ row = [status |-> "stopped", token |-> 0, cfg |-> c]
        /\ file = Absent /\ cmd = NoCommand /\ pod = "none" /\ old = FALSE
        /\ flow = [f \in Flows |-> Idle]
        /\ issued = 0
        /\ asked = AskedBy(c)
        /\ lost = Locked(c)
        /\ left = [requests |-> MaxRequests, failures |-> MaxFailures,
                   crashes |-> MaxCrashes]

(***************************************************************************)
(* Parts of steps                                                          *)
(***************************************************************************)
At(f, pc) == flow[f].pc = pc
Bot(f)    == flow[f].bot
Running(f) == Bot(f).status = "running"

\* The clients' order: one request after the other, with what it leaves behind,
\* except that section syncs of earlier requests may still be under way if they
\* carry other sections than the request is about.
Alone(f, sections) ==
    \A g \in Flows \ {f} :
        \/ flow[g] = Idle
        \/ /\ flow[g].pc \in {"sections", "patch"} /\ ~flow[g].more
           /\ flow[g].sections \cap sections = {}

Done(f) == flow' = [flow EXCEPT ![f] = Idle]
Carry(f, pc, sections, more) ==
    flow' = [flow EXCEPT ![f] = [Idle EXCEPT !.pc = pc, !.sections = sections,
                                             !.more = more]]
Hold(f, pc, c) == flow' = [flow EXCEPT ![f].pc = pc, ![f].cfg = c]

\* A write of the file; what is as asked again in both places is not lost.
WriteFile(c, harmed) ==
    /\ file' = c
    /\ lost' = (lost \cup harmed) \ (Matching(c, asked') \cap Matching(Column, asked'))

\* A change that a start command built before it does not know of.
Touch(sections) == cmd' = [cmd EXCEPT !.touched = @ \cup sections]

Spend(what) == left[what] > 0 /\ left' = [left EXCEPT ![what] = @ - 1]

Rollout(c) ==
    /\ cmd' = c
    /\ old' = Ready
    /\ pod' = "pending"

\* The configuration in the command is built once, from the row as it was read.
Deploy(bot, kind) ==
    \E c \in BuildOpenClawConfig(ConvertToK8sConfig(bot)) :
        Rollout([kind |-> kind, cfg |-> c, touched |-> {}])

pods == <<cmd, pod, old>>
(***************************************************************************)
(* Requests that edit the config column                                    *)
(***************************************************************************)
\* The middleware, or GetBotByID in the first line: the row is read here, once.
Arrive(f) ==
    /\ flow[f] = Idle
    /\ Alone(f, {})
    /\ Settled
    /\ Spend("requests")
    /\ flow' = [flow EXCEPT ![f] = [Idle EXCEPT !.pc = "read", !.bot = row]]
    /\ UNCHANGED <<row, file, pods, issued, asked, lost>>

Handles(f, op, sections) == op \in Offered /\ At(f, "read") /\ Alone(f, sections)

\* UpdateBot saves every column of the copy, with the new configuration in it.
Save(bot, c) == row' = [bot EXCEPT !.cfg = c]

\* One section is edited in the copy, saved, and synced if the copy says running.
\* A default model asked for while the bot is stopped is carried by no step: a
\* start command writes it only into a new file, WriteConfigToBot never.
EditSections(f, c, sections, more) ==
    /\ Save(Bot(f), c)
    /\ IF Running(f) THEN Carry(f, "sections", sections, more) ELSE Done(f)
    /\ lost' = IF ~Running(f) /\ file # Absent
                  THEN lost \cup (sections \cap {"agents"}) ELSE lost
    /\ Touch(sections)
    /\ UNCHANGED <<file, pod, old, issued, left>>

WithProvider(m, p, e) == [q \in DOMAIN m \cup {p} |-> IF q = p THEN e ELSE m[q]]
\* Mutant: the entry is set to nil and not deleted.
WithNilProvider(m, p) == [m EXCEPT ![p] = Absent]
WithoutProvider(m, p) == [q \in DOMAIN m \ {p} |-> m[q]]

\* The copy as the handlers see it: GetOpenClawConfig.
Copy(f) == Typed(Bot(f).cfg)

PutProvider(f, p, e) ==
    /\ EditSections(f, [Copy(f) EXCEPT !.models = WithProvider(ProvidersOf(Copy(f)), p, e)],
                    {"models"}, FALSE)
    /\ asked' = [asked EXCEPT !.models = WithProvider(@, p, e)]

AddModelProvider(f, p, e) ==
    /\ Handles(f, "add", {"models"})
    /\ p \notin DOMAIN ProvidersOf(Copy(f))
    /\ PutProvider(f, p, e)

UpdateModelProvider(f, p, e) ==
    /\ Handles(f, "update", {"models"})
    /\ PutProvider(f, p, e)

DeleteModelProvider(f, p) ==
    /\ Handles(f, "delete", {"models"})
    /\ p \in DOMAIN ProvidersOf(Copy(f))
    /\ EditSections(f, [Copy(f) EXCEPT !.models = WithoutProvider(@, p)],
                    {"models"}, FALSE)
    /\ asked' = [asked EXCEPT !.models = WithoutProvider(@, p)]

SetAgentDefaults(f, m) ==
    /\ Handles(f, "defaults", {"agents"})
    /\ EditSections(f, [Copy(f) EXCEPT !.agents = m], {"agents"}, FALSE)
    /\ asked' = [asked EXCEPT !.agents = m]

\* The sync is awaited, and the answer is built by buildBotResponse, which pulls.
AdminSetBotProvider(f, p, e) ==
    /\ Handles(f, "setProvider", {"models", "agents"})
    /\ EditSections(f, [Copy(f) EXCEPT !.agents = p,
                            !.models = WithProvider(ProvidersOf(Copy(f)), p, e)],
                    {"models", "agents"}, TRUE)
    /\ asked' = [asked EXCEPT !.models = WithProvider(@, p, e), !.agents = p]

\* PUT of a name or an expiry: the whole row is saved all the same.
TouchBot(f) ==
    /\ Handles(f, "touch", Sections)
    /\ row' = Bot(f)
    /\ Done(f)
    /\ UNCHANGED <<file, pods, issued, asked, lost, left>>

\* PUT of a whole configuration.  While the bot is stopped only the models of it
\* have a way into a file that exists; and no start command knows Password.
PutConfig(f, c) ==
    /\ Handles(f, "put", Sections)
    /\ Save(Bot(f), c)
    /\ asked' = AskedBy(c)
    /\ IF Running(f)
          THEN Carry(f, "full", Sections, FALSE) /\ lost' = lost
          ELSE /\ Done(f)
               /\ lost' = lost \cup (IF file = Absent THEN {} ELSE Sections \ {"models"})
                               \cup Locked(c)
    /\ Touch(Sections)
    /\ UNCHANGED <<file, pod, old, issued, left>>

(***************************************************************************)
(* Token reset                                                             *)
(***************************************************************************)
\* The column alone.  Whether to redeploy is decided on the middleware's copy.
ResetBotAccessToken(f) ==
    /\ Handles(f, "reset", Sections)
    /\ issued' = issued + 1
    /\ row' = [row EXCEPT !.token = issued + 1]
    /\ asked' = [asked EXCEPT !.auth = issued + 1]
    /\ lost' = IF ~Running(f) /\ file # Absent THEN lost \cup {"auth"} ELSE lost
    /\ flow' = [flow EXCEPT ![f] =
                   [Idle EXCEPT !.pc = "reload", !.more = Running(f),
                                !.cfg.auth = issued + 1, !.sections = {"auth"}]]
    /\ Touch({"auth"})
    /\ UNCHANGED <<file, pod, old, left>>

ReloadBot(f) ==
    /\ At(f, "reload")
    /\ flow' = [flow EXCEPT ![f].pc = "resave", ![f].bot = row,
                            ![f].cfg = [Typed(row.cfg) EXCEPT !.auth = flow[f].cfg.auth]]
    /\ UNCHANGED <<row, file, pods, issued, asked, lost, left>>

Redeploys(f) ==
    IF flow[f].more THEN flow' = [flow EXCEPT ![f].pc = "redeploy"] ELSE Done(f)

SaveToken(f) ==
    /\ At(f, "resave")
    /\ Save(Bot(f), flow[f].cfg)
    /\ Redeploys(f)
    /\ UNCHANGED <<file, pods, issued, asked, lost, left>>

\* A failed save is logged, and the handler goes on just the same.
SaveTokenFails(f) ==
    /\ At(f, "resave")
    /\ Spend("failures")
    /\ lost' = lost \cup {"auth"}
    /\ Redeploys(f)
    /\ UNCHANGED <<row, file, pods, issued, asked>>

\* From here on every start of a container overwrites the file.
UpdateDeploymentConfig(f) ==
    /\ At(f, "redeploy")
    /\ cmd.kind # "none"
    /\ Deploy([Bot(f) EXCEPT !.cfg = flow[f].cfg], "always")
    /\ Done(f)
    /\ UNCHANGED <<row, file, issued, asked, lost, left>>

(***************************************************************************)
(* Requests that edit the file                                             *)
(***************************************************************************)
\* Wait for the pod and read its file; the request is refused when that fails.
ReadFile(f, op) == Handles(f, op, Sections) /\ Running(f) /\ Ready

OnFile == IF file = Absent THEN EmptyConfig ELSE file

EditChannels(f, a, c) ==
    /\ flow' = [flow EXCEPT ![f] =
                   [Idle EXCEPT !.pc = "channelWrite", !.sections = {"channels"},
                                !.account = a, !.cfg = c]]
    /\ UNCHANGED <<row, file, pods, issued, asked, lost, left>>

AddChannelToBot(f, a) ==
    /\ ReadFile(f, "addChannel")
    /\ EditChannels(f, a, [OnFile EXCEPT !.channels = @ \cup {a}])

RemoveChannelFromBot(f, a) ==
    /\ ReadFile(f, "removeChannel")
    /\ EditChannels(f, a, [OnFile EXCEPT !.channels = @ \ {a}])

WriteChannels(f) ==
    LET a == flow[f].account IN
    /\ At(f, "channelWrite")
    /\ Ready
    /\ asked' = [asked EXCEPT !.channels =
                    IF a \in flow[f].cfg.channels THEN @ \cup {a} ELSE @ \ {a}]
    /\ WriteFile(flow[f].cfg, {})
    /\ Carry(f, "pull", {"channels"}, FALSE)
    /\ Touch({"channels"})
    /\ UNCHANGED <<row, pod, old, issued, left>>

\* The raw endpoint changes the file and leaves the column as it is.
RawSections(c) ==
    {s \in Sections : CASE s = "models"   -> c.models # Absent
                        [] s = "agents"   -> c.agents # Absent
                        [] s = "channels" -> c.channels # {}
                        [] s = "auth"     -> c.auth # Absent}

EditRaw(f, c, sections) ==
    /\ flow' = [flow EXCEPT ![f] = [Idle EXCEPT !.pc = "rawWrite", !.cfg = c,
                                                !.sections = sections]]
    /\ UNCHANGED <<row, file, pods, issued, asked, lost, left>>

RawMerge(f, c) ==
    /\ ReadFile(f, "rawMerge")
    /\ EditRaw(f, MergeMap(OnFile, c), RawSections(c))

RawReplace(f, c) ==
    /\ Handles(f, "rawReplace", Sections)
    /\ Running(f)
    /\ EditRaw(f, c, Sections)

WriteBotConfig(f) ==
    /\ At(f, "rawWrite")
    /\ Ready
    /\ UNCHANGED <<row, pod, old, issued, asked, left>>
    /\ WriteFile(flow[f].cfg, flow[f].sections)
    /\ Touch(flow[f].sections)
    /\ Done(f)

(***************************************************************************)
(* Requests about the Deployment                                           *)
(***************************************************************************)
SetStatus(status) == row' = [row EXCEPT !.status = status]

Launch(f, pc, sections) ==
    /\ Deploy(Bot(f), "ifAbsent")
    /\ flow' = [flow EXCEPT ![f].pc = pc, ![f].sections = sections]
    /\ UNCHANGED <<file, issued, asked, lost, left>>

StartBot(f) ==
    /\ Handles(f, "start", Sections)
    /\ ~Running(f)
    /\ SetStatus("running")
    /\ Launch(f, "merge", {"models"})

AdminStartBot(f) ==
    /\ Handles(f, "adminStart", Sections)
    /\ ~Running(f)
    /\ SetStatus("starting")
    /\ Launch(f, "await", {"models"})

\* The goroutine of AdminStartBot: ready in time, or an error status.
AwaitPod(f) ==
    /\ At(f, "await")
    /\ \/ /\ Ready
          /\ SetStatus("running")
          /\ flow' = [flow EXCEPT ![f].pc = "merge"]
          /\ UNCHANGED lost
       \/ /\ ~Ready
          /\ SetStatus("stopped")
          /\ lost' = lost \cup flow[f].sections
          /\ Done(f)
    /\ UNCHANGED <<file, pods, issued, asked, left>>

RestartBot(f) ==
    /\ Handles(f, "restart", Sections)
    /\ Running(f)
    /\ SetStatus("running")
    /\ Launch(f, "merge", {})

StopBot(f) ==
    /\ Handles(f, "stop", Sections)
    /\ Running(f)
    /\ SetStatus("stopped")
    /\ cmd' = NoCommand /\ pod' = "none" /\ old' = FALSE
    /\ Done(f)
    /\ UNCHANGED <<file, issued, asked, lost, left>>

\* A new image, the same command; then the whole file again.
UpgradeBot(f) ==
    /\ Handles(f, "upgrade", Sections)
    /\ Running(f)
    /\ cmd.kind # "none"
    /\ Rollout(cmd)
    /\ Carry(f, "full", {}, FALSE)
    /\ UNCHANGED <<row, file, issued, asked, lost, left>>

\* GET of a running bot whose Deployment is ready.
GetBot(f) ==
    /\ ReadFile(f, "get")
    /\ Carry(f, "pull", {}, FALSE)
    /\ UNCHANGED <<row, file, pods, issued, asked, lost, left>>

(***************************************************************************)
(* The four ways between the column and the file                           *)
(***************************************************************************)
\* SyncSectionsToPod: the row is read after the wait, and node merges in the pod.
SectionsRead(f) ==
    /\ At(f, "sections")
    /\ Ready
    /\ Hold(f, "patch", Typed(row.cfg))
    /\ UNCHANGED <<row, file, pods, issued, asked, lost, left>>

SectionsPatch(f) ==
    /\ At(f, "patch")
    /\ Ready
    /\ UNCHANGED <<row, pods, issued, asked, left>>
    /\ WriteFile(AssignSections(OnFile, flow[f].cfg, flow[f].sections), {})
    /\ IF flow[f].more THEN Carry(f, "pull", {}, FALSE) ELSE Done(f)

\* SyncConfigToPod: the row is read before the wait.
FullRead(f) ==
    /\ At(f, "full")
    /\ Hold(f, "fullWrite", Column)
    /\ UNCHANGED <<row, file, pods, issued, asked, lost, left>>

FullWrite(f) ==
    /\ At(f, "fullWrite")
    /\ Ready
    /\ UNCHANGED <<row, pods, issued, asked, left>>
    /\ WriteFile(flow[f].cfg, {})
    /\ Done(f)

\* WriteConfigToBot: the configuration is the one of the request's copy.
MergeRead(f) ==
    /\ At(f, "merge")
    /\ Ready
    /\ Hold(f, "mergeWrite", MergeConfigForModels(OnFile, ConvertToK8sConfig(Bot(f))))
    /\ UNCHANGED <<row, file, pods, issued, asked, lost, left>>

\* A file that cannot be read is taken for an empty one and overwritten.
MergeReadFails(f) ==
    /\ At(f, "merge")
    /\ Ready
    /\ Spend("failures")
    /\ flow' = [flow EXCEPT ![f].pc = "mergeWrite", ![f].sections = Sections,
                   ![f].cfg = MergeConfigForModels(EmptyConfig, ConvertToK8sConfig(Bot(f)))]
    /\ UNCHANGED <<row, file, pods, issued, asked, lost>>

MergeWrite(f) ==
    /\ At(f, "mergeWrite")
    /\ Ready
    /\ UNCHANGED <<row, pods, issued, asked, left>>
    /\ WriteFile(flow[f].cfg, flow[f].sections \ {"models"})
    /\ Done(f)

\* SyncConfigToDatabase: file, then row, then the whole row.
PullRead(f) ==
    /\ At(f, "pull")
    /\ Ready
    /\ Hold(f, "pullRow", Typed(OnFile))
    /\ UNCHANGED <<row, file, pods, issued, asked, lost, left>>

PullRow(f) ==
    /\ At(f, "pullRow")
    /\ flow' = [flow EXCEPT ![f].pc = "pullSave", ![f].bot = row]
    /\ UNCHANGED <<row, file, pods, issued, asked, lost, left>>

PullSave(f) ==
    /\ At(f, "pullSave")
    /\ Save(Bot(f), flow[f].cfg)
    /\ Done(f)
    /\ UNCHANGED <<file, pods, issued, asked, lost, left>>

(***************************************************************************)
(* Failures, and the pod                                                   *)
(***************************************************************************)
\* Errors of these steps are logged, or answered with 500, and that is all.
GiveUp(f) ==
    /\ lost' = lost \cup flow[f].sections
    /\ Done(f)
    /\ UNCHANGED <<row, file, pods, issued, asked>>

WaitExpires(f) ==
    /\ flow[f].pc \in {"sections", "fullWrite", "merge", "pull"}
    /\ ~Ready
    /\ GiveUp(f)
    /\ UNCHANGED left

CallFails(f) ==
    /\ flow[f].pc \in {"sections", "patch", "full", "fullWrite", "mergeWrite", "pull",
                       "pullRow", "pullSave", "reload", "redeploy"}
    /\ Spend("failures")
    /\ GiveUp(f)

\* The client is told, and nothing has changed.
EditFails(f) ==
    /\ flow[f].pc \in {"channelWrite", "rawWrite"}
    /\ Spend("failures") \/ (~Ready /\ UNCHANGED left)
    /\ Done(f)
    /\ UNCHANGED <<row, file, pods, issued, asked, lost>>

\* Mutant: the script writes the file whether there is one or not.
RunCommandAnew == WriteFile(cmd.cfg, {})

\* The shell script of the container, up to the gateway it starts.  A flow that
\* has read the file writes it back over what the script has done.
RunCommand ==
    CASE cmd.kind = "always" -> file' = cmd.cfg /\ lost' = lost \cup cmd.touched
      [] cmd.kind = "ifAbsent" /\ file = Absent -> WriteFile(cmd.cfg, cmd.touched)
      [] cmd.kind = "ifAbsent" /\ file # Absent -> WriteFile(PatchAtStart(file), {})

PodStarts ==
    /\ pod = "pending"
    /\ pod' = "started"
    /\ UNCHANGED <<row, cmd, old, flow, issued, asked, left>>
    /\ RunCommand

PodReady ==
    /\ pod = "started"
    /\ pod' = "ready"
    /\ old' = FALSE
    /\ UNCHANGED <<row, file, cmd, flow, issued, asked, lost, left>>

ContainerRestarts ==
    /\ pod = "ready"
    /\ Spend("crashes")
    /\ pod' = "started"
    /\ UNCHANGED <<row, cmd, old, flow, issued, asked>>
    /\ RunCommand
-----------------------------------------------------------------------------
Request(f) ==
    \/ Arrive(f)
    \/ \E p \in Providers, e \in Entries :
          \/ AddModelProvider(f, p, e)
          \/ UpdateModelProvider(f, p, e)
          \/ AdminSetBotProvider(f, p, e)
    \/ \E p \in Providers : DeleteModelProvider(f, p) \/ SetAgentDefaults(f, p)
    \/ TouchBot(f)
    \/ \E c \in Inputs : PutConfig(f, c) \/ RawMerge(f, c) \/ RawReplace(f, c)
    \/ \E a \in Accounts : AddChannelToBot(f, a) \/ RemoveChannelFromBot(f, a)
    \/ GetBot(f) \/ StartBot(f) \/ AdminStartBot(f) \/ RestartBot(f)
    \/ StopBot(f) \/ UpgradeBot(f)
    \/ ResetBotAccessToken(f)

Tail(f) ==
    \/ ReloadBot(f) \/ SaveToken(f) \/ SaveTokenFails(f) \/ UpdateDeploymentConfig(f)
    \/ WriteChannels(f) \/ WriteBotConfig(f)
    \/ AwaitPod(f)
    \/ SectionsRead(f) \/ SectionsPatch(f)
    \/ FullRead(f) \/ FullWrite(f)
    \/ MergeRead(f) \/ MergeReadFails(f) \/ MergeWrite(f)
    \/ PullRead(f) \/ PullRow(f) \/ PullSave(f)
    \/ WaitExpires(f) \/ CallFails(f) \/ EditFails(f)

Next ==
    \/ \E f \in Flows : Request(f) \/ Tail(f)
    \/ PodStarts \/ PodReady \/ ContainerRestarts

Spec == Init /\ [][Next]_vars
-----------------------------------------------------------------------------
\* A running bot with which nothing is going on any more.
AtRest == Quiet /\ row.status = "running" /\ pod = "ready" /\ ~old

\* What clients were told is configured is in the file and in the row of a
\* running bot at rest, section by section, except where a step failed or where
\* the code has no step that carries the section: those are all in lost.
InForce == AtRest => Sections \ lost \subseteq Matching(file, asked) \cap Matching(Column, asked)
=============================================================================
