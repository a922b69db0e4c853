--------------------------- MODULE ConfigSyncProofs ---------------------------
(***************************************************************************)
(* Proofs about the configuration of a bot, for any providers, accounts    *)
(* and inputs and any number of flows, requests, failures and crashes.     *)
(***************************************************************************)
EXTENDS ConfigSync, TLAPS

(***************************************************************************)
(* The configurations that the conversions and merges make                 *)
(***************************************************************************)
K8sConfig == [token : Nat, providers : ProviderMaps, agents : {Absent} \cup Providers,
              channels : SUBSET Accounts]

LEMMA ProviderMap ==
    ASSUME NEW m
    PROVE  m \in ProviderMaps <=> \E S \in SUBSET Providers : m \in [S -> Entries]
BY DEF ProviderMaps

LEMMA MapOfProviders ==
    ASSUME NEW S \in SUBSET Providers, NEW m \in [S -> Entries]
    PROVE  m \in ProviderMaps
BY ProviderMap

LEMMA MapEdits ==
    ASSUME NEW m \in ProviderMaps, NEW p \in Providers, NEW e \in Entries
    PROVE  WithProvider(m, p, e) \in ProviderMaps /\ WithoutProvider(m, p) \in ProviderMaps
<1>1. PICK S \in SUBSET Providers : m \in [S -> Entries]
  BY ProviderMap
<1>2. WithProvider(m, p, e) \in [S \cup {p} -> Entries]
  BY <1>1 DEF WithProvider
<1>3. WithoutProvider(m, p) \in [S \ {p} -> Entries]
  BY <1>1 DEF WithoutProvider
<1> QED BY <1>2, <1>3, MapOfProviders

LEMMA NoProvidersMap == NoProviders \in ProviderMaps
<1>1. NoProviders \in [{} -> Entries]
  BY DEF NoProviders
<1> QED BY <1>1, MapOfProviders

LEMMA EmptyConfigType == EmptyConfig \in Config
BY DEF EmptyConfig, Config

LEMMA TypedType ==
    ASSUME NEW c \in Config
    PROVE  Typed(c) \in Config /\ Typed(c).models = c.models /\ Typed(c).auth = c.auth
BY DEF Typed, Config

LEMMA ProvidersOfType ==
    ASSUME NEW c \in Config
    PROVE  ProvidersOf(c) \in ProviderMaps
BY NoProvidersMap DEF ProvidersOf, Config

LEMMA ConvertType ==
    ASSUME NEW bot \in Row
    PROVE  ConvertToK8sConfig(bot) \in K8sConfig
<1>1. bot.cfg \in Config /\ bot.token \in Nat
  BY DEF Row
<1>2. PICK c : c = Typed(bot.cfg)
  OBVIOUS
<1>3. c \in Config /\ ProvidersOf(c) \in ProviderMaps
  BY <1>1, <1>2, TypedType, ProvidersOfType
<1>4. ConvertToK8sConfig(bot) = [token |-> bot.token, providers |-> ProvidersOf(c),
                                agents |-> c.agents, channels |-> c.channels]
  BY <1>2 DEF ConvertToK8sConfig
<1> QED BY <1>1, <1>3, <1>4 DEF K8sConfig, Config

LEMMA BuildProvidersType ==
    ASSUME NEW k \in K8sConfig
    PROVE  BuildProvidersMap(k) \in ProviderMaps
<1>1. [p \in {Anthropic} |-> Stock] \in [{Anthropic} -> Entries] /\ {Anthropic} \in SUBSET Providers
  BY DataOK
<1>2. [p \in {Anthropic} |-> Stock] \in ProviderMaps
  BY <1>1, MapOfProviders
<1> QED BY <1>2 DEF BuildProvidersMap, K8sConfig

LEMMA DefaultModelType ==
    ASSUME NEW k \in K8sConfig
    PROVE  GetDefaultModelFromConfig(k) \subseteq Providers
<1>1. PICK S \in SUBSET Providers : k.providers \in [S -> Entries]
  BY ProviderMap DEF K8sConfig
<1>2. DOMAIN k.providers \subseteq Providers
  BY <1>1
<1> QED BY <1>2, DataOK DEF GetDefaultModelFromConfig, K8sConfig

LEMMA BuildType ==
    ASSUME NEW k \in K8sConfig
    PROVE  BuildOpenClawConfig(k) \subseteq Config
BY BuildProvidersType, DefaultModelType DEF BuildOpenClawConfig, Config, K8sConfig

LEMMA MergeType ==
    ASSUME NEW c \in Config, NEW k \in K8sConfig
    PROVE  MergeConfigForModels(c, k) \in Config
<1>1. /\ BuildProvidersMap(k) \in ProviderMaps /\ k.channels \subseteq Accounts
      /\ k.token \in Nat
  BY BuildProvidersType DEF K8sConfig
<1>2. OverlayChannels(c.channels, k.channels) \subseteq Accounts
  BY <1>1 DEF OverlayChannels, Config
<1> QED BY <1>1, <1>2 DEF MergeConfigForModels, Config

LEMMA AssignType ==
    ASSUME NEW c \in Config, NEW patch \in Config, NEW sections
    PROVE  AssignSections(c, patch, sections) \in Config
BY DEF AssignSections, Config

LEMMA GatewayAuthType ==
    ASSUME NEW c \in Config, NEW token \in Nat
    PROVE  WithGatewayAuth(c, token) \in Config
BY TypedType DEF WithGatewayAuth, Config

LEMMA MergeMapType ==
    ASSUME NEW c \in Config, NEW d \in Config
    PROVE  MergeMap(c, d) \in Config
BY DEF MergeMap, Config

LEMMA PatchType ==
    ASSUME NEW c \in Config
    PROVE  PatchAtStart(c) \in Config
BY DEF PatchAtStart, Config

(***************************************************************************)
(* Type correctness                                                        *)
(***************************************************************************)
\* A pod belongs to a Deployment, which has a start command.
HasCommand == pod # "none" => cmd.kind # "none"
IInv == TypeOK /\ HasCommand

FlowOK == flow \in [Flows -> Flow]
ColumnOK == row \in Row
FileOK == file \in {Absent} \cup Config /\ lost \subseteq Sections
PodOK == /\ cmd \in Command /\ pod \in {"none", "pending", "started", "ready"}
         /\ old \in BOOLEAN /\ HasCommand
TokensOK == issued \in Nat
AskedOK == asked \in [models : ProviderMaps, agents : {Absent} \cup Providers,
                      channels : SUBSET Accounts, auth : {Password} \cup Nat]
LeftOK == left \in [requests : Nat, failures : Nat, crashes : Nat]

LEMMA PartsOfIInv ==
    IInv <=> /\ FlowOK /\ ColumnOK /\ FileOK /\ PodOK /\ TokensOK /\ AskedOK /\ LeftOK
BY DEF IInv, TypeOK, FlowOK, ColumnOK, FileOK, PodOK, TokensOK, AskedOK, LeftOK

LEMMA PartsOfIInvNext ==
    IInv' <=> /\ FlowOK' /\ ColumnOK' /\ FileOK' /\ PodOK' /\ TokensOK' /\ AskedOK' /\ LeftOK'
BY DEF IInv, TypeOK, FlowOK, ColumnOK, FileOK, PodOK, TokensOK, AskedOK, LeftOK, HasCommand

LEMMA UnchangedParts ==
    /\ FlowOK /\ UNCHANGED flow => FlowOK'
    /\ ColumnOK /\ UNCHANGED row => ColumnOK'
    /\ FileOK /\ UNCHANGED <<file, lost>> => FileOK'
    /\ PodOK /\ UNCHANGED pods => PodOK'
    /\ TokensOK /\ UNCHANGED issued => TokensOK'
    /\ AskedOK /\ UNCHANGED asked => AskedOK'
    /\ LeftOK /\ UNCHANGED left => LeftOK'
BY DEF FlowOK, ColumnOK, FileOK, PodOK, TokensOK, AskedOK, LeftOK, HasCommand, pods

LEMMA IdleType == Idle \in Flow /\ NoRow \in Row
BY EmptyConfigType DEF Idle, NoRow, Flow, Row, Steps

LEMMA FlowFields ==
    ASSUME FlowOK, NEW f \in Flows
    PROVE  /\ flow[f] \in Flow /\ Bot(f) \in Row /\ flow[f].cfg \in Config
           /\ Bot(f).cfg \in Config /\ Bot(f).token \in Nat
           /\ flow[f].sections \subseteq Sections
           /\ Copy(f) \in Config /\ Copy(f).models = Bot(f).cfg.models
BY TypedType DEF FlowOK, Flow, Bot, Row, Copy

LEMMA FlowGoes ==
    ASSUME FlowOK, NEW f \in Flows, NEW x \in Flow, flow' = [flow EXCEPT ![f] = x]
    PROVE  FlowOK'
BY DEF FlowOK

LEMMA DoneFlow ==
    ASSUME FlowOK, NEW f \in Flows, Done(f)
    PROVE  FlowOK'
BY IdleType, FlowGoes DEF Done

LEMMA CarryFlow ==
    ASSUME FlowOK, NEW f \in Flows, NEW pc \in Steps, NEW sections \in SUBSET Sections,
           NEW more \in BOOLEAN, Carry(f, pc, sections, more)
    PROVE  FlowOK'
<1>1. PICK x : x = [Idle EXCEPT !.pc = pc, !.sections = sections, !.more = more]
  OBVIOUS
<1>2. x \in Flow
  BY <1>1, IdleType DEF Flow
<1> QED BY <1>1, <1>2, FlowGoes DEF Carry

\* A flow goes on with another configuration, or with another copy of the row.
LEMMA HoldFlow ==
    ASSUME FlowOK, NEW f \in Flows, NEW pc \in Steps, NEW bot \in Row, NEW c \in Config,
           NEW sections \in SUBSET Sections,
           flow' = [flow EXCEPT ![f] = [flow[f] EXCEPT !.pc = pc, !.bot = bot, !.cfg = c,
                                                      !.sections = sections]]
    PROVE  FlowOK'
<1>1. PICK x : x = [flow[f] EXCEPT !.pc = pc, !.bot = bot, !.cfg = c,
                                   !.sections = sections]
  OBVIOUS
<1>2. x \in Flow
  BY <1>1, FlowFields DEF Flow
<1> QED BY <1>1, <1>2, FlowGoes

LEMMA HoldsFlow ==
    ASSUME FlowOK, NEW f \in Flows, NEW pc \in Steps, NEW c \in Config, Hold(f, pc, c)
    PROVE  FlowOK'
<1>1. PICK x : x = [flow[f] EXCEPT !.pc = pc, !.cfg = c]
  OBVIOUS
<1>2. x \in Flow
  BY <1>1, FlowFields DEF Flow
<1>3. flow' = [flow EXCEPT ![f] = x]
  BY <1>1 DEF Hold, FlowOK
<1> QED BY <1>2, <1>3, FlowGoes

LEMMA SaveRow ==
    ASSUME NEW bot \in Row, NEW c \in Config, Save(bot, c)
    PROVE  ColumnOK'
BY DEF Save, ColumnOK, Row

LEMMA StatusRow ==
    ASSUME ColumnOK, NEW status \in {"stopped", "starting", "running"}, SetStatus(status)
    PROVE  ColumnOK'
BY DEF SetStatus, ColumnOK, Row

LEMMA ColumnType ==
    ASSUME ColumnOK
    PROVE  Column \in Config /\ row.cfg \in Config
BY GatewayAuthType DEF ColumnOK, Column, Row

LEMMA OnFileType ==
    ASSUME FileOK
    PROVE  OnFile \in Config
BY EmptyConfigType DEF FileOK, OnFile

LEMMA WrittenFile ==
    ASSUME FileOK, NEW c \in Config, NEW harmed \in SUBSET Sections, WriteFile(c, harmed)
    PROVE  FileOK'
<1>1. PICK ok : ok = Matching(c, asked') \cap Matching(Column, asked')
  OBVIOUS
<1>2. file' = c /\ lost' = (lost \cup harmed) \ ok
  BY <1>1 DEF WriteFile
<1> QED BY <1>2 DEF FileOK

LEMMA TouchedPod ==
    ASSUME PodOK, NEW sections \in SUBSET Sections, Touch(sections), UNCHANGED <<pod, old>>
    PROVE  PodOK'
<1>1. PICK x : x = [cmd EXCEPT !.touched = cmd.touched \cup sections]
  OBVIOUS
<1>2. x \in Command /\ x.kind = cmd.kind
  BY <1>1 DEF PodOK, Command
<1>3. cmd' = x
  BY <1>1 DEF Touch, PodOK, Command
<1> QED BY <1>2, <1>3 DEF PodOK, HasCommand

LEMMA RolledOut ==
    ASSUME PodOK, NEW c \in Command, c.kind # "none", Rollout(c)
    PROVE  PodOK'
<1>1. Ready \in BOOLEAN
  BY DEF Ready, PodOK
<1> QED BY <1>1 DEF Rollout, PodOK, HasCommand

LEMMA Deployed ==
    ASSUME PodOK, NEW bot \in Row, NEW kind \in {"ifAbsent", "always"}, Deploy(bot, kind)
    PROVE  PodOK'
<1>1. PICK c \in BuildOpenClawConfig(ConvertToK8sConfig(bot)) :
         Rollout([kind |-> kind, cfg |-> c, touched |-> {}])
  BY DEF Deploy
<1>2. c \in Config
  BY ConvertType, BuildType
<1>3. PICK x : x = [kind |-> kind, cfg |-> c, touched |-> {}]
  OBVIOUS
<1>4. x \in Command /\ x.kind # "none"
  BY <1>2, <1>3 DEF Command
<1> QED BY <1>1, <1>3, <1>4, RolledOut

\* The bounds, as a function of their names.
LEMMA LeftFunction ==
    ASSUME LeftOK
    PROVE  /\ left = [x \in {"requests", "failures", "crashes"} |-> left[x]]
           /\ left["requests"] \in Nat /\ left["failures"] \in Nat /\ left["crashes"] \in Nat
BY DEF LeftOK

LEMMA Spent ==
    ASSUME LeftOK, NEW what \in {"requests", "failures", "crashes"}, Spend(what)
    PROVE  LeftOK'
<1>1. left[what] \in Nat
  BY LeftFunction
<1>2. PICK n : n = left[what] - 1
  OBVIOUS
<1>3. n \in Nat
  BY <1>1, <1>2 DEF Spend
<1>4. left' = [left EXCEPT ![what] = n]
  BY <1>2, LeftFunction DEF Spend
<1> QED BY <1>3, <1>4 DEF LeftOK

LEMMA RanCommand ==
    ASSUME FileOK, PodOK, pod # "none", RunCommand
    PROVE  FileOK'
<1>1. cmd.cfg \in Config /\ cmd.touched \in SUBSET Sections /\ cmd.kind \in {"ifAbsent", "always"}
  BY DEF PodOK, HasCommand, Command
<1>2. CASE cmd.kind = "always"
  <2>1. file' = cmd.cfg /\ lost' = lost \cup cmd.touched
    BY <1>2 DEF RunCommand
  <2> QED BY <1>1, <2>1 DEF FileOK
<1>3. CASE cmd.kind = "ifAbsent" /\ file = Absent
  <2>1. WriteFile(cmd.cfg, cmd.touched)
    BY <1>3 DEF RunCommand
  <2> QED BY <1>1, <2>1, WrittenFile
<1>4. CASE cmd.kind = "ifAbsent" /\ file # Absent
  <2>1. WriteFile(PatchAtStart(file), {})
    BY <1>4 DEF RunCommand
  <2>2. file \in Config /\ {} \in SUBSET Sections
    BY <1>4 DEF FileOK
  <2> QED BY <2>1, <2>2, PatchType, WrittenFile
<1> QED BY <1>1, <1>2, <1>3, <1>4

\* What a client may ask for.
Wishes == [models : ProviderMaps, agents : {Absent} \cup Providers,
           channels : SUBSET Accounts, auth : {Password} \cup Nat]

LEMMA AskedByType ==
    ASSUME NEW c \in Config, issued \in Nat
    PROVE  AskedBy(c) \in Wishes
<1>1. PICK a : a = IF c.auth = Password THEN Password ELSE issued
  OBVIOUS
<1>2. a \in {Password} \cup Nat
  BY <1>1
<1>3. AskedBy(c) = [models |-> ProvidersOf(c), agents |-> c.agents,
                    channels |-> c.channels, auth |-> a]
  BY <1>1 DEF AskedBy
<1> QED BY <1>2, <1>3, ProvidersOfType DEF Wishes, Config

LEMMA LockedType ==
    ASSUME NEW c
    PROVE  Locked(c) \subseteq Sections
BY DEF Locked, Sections

LEMMA InitIInv == Init => IInv
<1> SUFFICES ASSUME NEW c \in Created,
                    row = [status |-> "stopped", token |-> 0, cfg |-> c],
                    file = Absent /\ cmd = NoCommand /\ pod = "none" /\ old = FALSE,
                    flow = [f \in Flows |-> Idle], issued = 0,
                    asked = AskedBy(c), lost = Locked(c),
                    left = [requests |-> MaxRequests, failures |-> MaxFailures,
                            crashes |-> MaxCrashes]
             PROVE  IInv
  BY DEF Init
<1>1. c \in Config /\ ProvidersOf(c) \in ProviderMaps
  BY ConstantsOK, ProvidersOfType
<1>2. FlowOK /\ TokensOK /\ FileOK
  BY IdleType, LockedType DEF FlowOK, TokensOK, FileOK
<1>3. ColumnOK
  BY <1>1 DEF ColumnOK, Row
<1>4. PodOK
  BY EmptyConfigType DEF PodOK, NoCommand, Command, HasCommand
<1>5. AskedOK
  BY <1>1, AskedByType DEF AskedOK, Wishes
<1>6. LeftOK
  BY ConstantsOK DEF LeftOK
<1> QED BY <1>2, <1>3, <1>4, <1>5, <1>6, PartsOfIInv

LEMMA SetTypes ==
    /\ {} \in SUBSET Sections /\ Sections \in SUBSET Sections /\ Sections \subseteq Sections
    /\ {"models"} \in SUBSET Sections /\ {"agents"} \in SUBSET Sections
    /\ {"channels"} \in SUBSET Sections /\ {"auth"} \in SUBSET Sections
    /\ {"models", "agents"} \in SUBSET Sections
    /\ TRUE \in BOOLEAN /\ FALSE \in BOOLEAN
BY DEF Sections

LEMMA StepTypes ==
    /\ "idle" \in Steps /\ "read" \in Steps /\ "sections" \in Steps /\ "patch" \in Steps
    /\ "full" \in Steps /\ "fullWrite" \in Steps /\ "await" \in Steps /\ "merge" \in Steps
    /\ "mergeWrite" \in Steps /\ "channelWrite" \in Steps /\ "rawWrite" \in Steps
    /\ "pull" \in Steps /\ "pullRow" \in Steps /\ "pullSave" \in Steps
    /\ "reload" \in Steps /\ "resave" \in Steps /\ "redeploy" \in Steps
BY DEF Steps

LEMMA ArriveType ==
    ASSUME IInv, NEW f \in Flows, Arrive(f)
    PROVE  IInv'
<1>1. PICK x : x = [Idle EXCEPT !.pc = "read", !.bot = row]
  OBVIOUS
<1>2. x \in Flow
  BY <1>1, IdleType, StepTypes, PartsOfIInv DEF Flow, ColumnOK
<1>3. FlowOK'
  BY <1>1, <1>2, FlowGoes, PartsOfIInv DEF Arrive
<1>4. LeftOK'
  BY Spent, PartsOfIInv DEF Arrive
<1> QED BY <1>3, <1>4, UnchangedParts, PartsOfIInv, PartsOfIInvNext DEF Arrive

LEMMA EditSectionsType ==
    ASSUME IInv, NEW f \in Flows, NEW c \in Config, NEW sections \in SUBSET Sections,
           NEW more \in BOOLEAN, EditSections(f, c, sections, more), AskedOK'
    PROVE  IInv'
<1>1. Bot(f) \in Row /\ FlowOK /\ FileOK /\ PodOK
  BY FlowFields, PartsOfIInv
<1>2. ColumnOK'
  BY <1>1, SaveRow DEF EditSections
<1>3. FlowOK'
  BY <1>1, DoneFlow, CarryFlow, StepTypes DEF EditSections
<1>4. lost' \subseteq Sections /\ file' = file
  BY <1>1, SetTypes DEF EditSections, FileOK
<1>5. FileOK'
  BY <1>1, <1>4 DEF FileOK
<1>6. PodOK'
  BY <1>1, TouchedPod DEF EditSections
<1> QED BY <1>2, <1>3, <1>5, <1>6, UnchangedParts, PartsOfIInv, PartsOfIInvNext
        DEF EditSections

LEMMA PutProviderType ==
    ASSUME IInv, NEW f \in Flows, NEW p \in Providers, NEW e \in Entries, PutProvider(f, p, e)
    PROVE  IInv'
<1>1. Copy(f) \in Config /\ ProvidersOf(Copy(f)) \in ProviderMaps
  BY FlowFields, ProvidersOfType, PartsOfIInv
<1>2. PICK m : m = WithProvider(ProvidersOf(Copy(f)), p, e)
  OBVIOUS
<1>3. m \in ProviderMaps
  BY <1>1, <1>2, MapEdits
<1>4. PICK c : c = [Copy(f) EXCEPT !.models = m]
  OBVIOUS
<1>5. c \in Config
  BY <1>1, <1>3, <1>4 DEF Config
<1>6. AskedOK'
  <2>1. asked.models \in ProviderMaps
    BY PartsOfIInv DEF AskedOK
  <2>2. PICK n : n = WithProvider(asked.models, p, e)
    OBVIOUS
  <2>3. n \in ProviderMaps
    BY <2>1, <2>2, MapEdits
  <2>4. asked' = [asked EXCEPT !.models = n]
    BY <2>2, PartsOfIInv DEF PutProvider, AskedOK
  <2> QED BY <2>3, <2>4, PartsOfIInv DEF AskedOK
<1>7. EditSections(f, c, {"models"}, FALSE)
  BY <1>2, <1>4 DEF PutProvider
<1> QED BY <1>5, <1>6, <1>7, EditSectionsType, SetTypes

LEMMA DeleteModelProviderType ==
    ASSUME IInv, NEW f \in Flows, NEW p \in Providers, DeleteModelProvider(f, p)
    PROVE  IInv'
<1>1. Copy(f) \in Config /\ p \in DOMAIN ProvidersOf(Copy(f))
  BY FlowFields, PartsOfIInv DEF DeleteModelProvider
<1>2. Copy(f).models \in ProviderMaps
  <2>1. Copy(f).models # Absent
    BY <1>1 DEF ProvidersOf, NoProviders
  <2> QED BY <1>1, <2>1 DEF Config
<1>3. PICK m : m = WithoutProvider(Copy(f).models, p)
  OBVIOUS
<1>4. m \in ProviderMaps
  BY <1>2, <1>3, MapEdits, DataOK
<1>5. PICK c : c = [Copy(f) EXCEPT !.models = m]
  OBVIOUS
<1>6. c \in Config
  BY <1>1, <1>4, <1>5 DEF Config
<1>7. AskedOK'
  <2>1. asked.models \in ProviderMaps
    BY PartsOfIInv DEF AskedOK
  <2>2. PICK n : n = WithoutProvider(asked.models, p)
    OBVIOUS
  <2>3. n \in ProviderMaps
    BY <2>1, <2>2, MapEdits, DataOK
  <2>4. asked' = [asked EXCEPT !.models = n]
    BY <2>2, PartsOfIInv DEF DeleteModelProvider, AskedOK
  <2> QED BY <2>3, <2>4, PartsOfIInv DEF AskedOK
<1>8. EditSections(f, c, {"models"}, FALSE)
  BY <1>1, <1>3, <1>5 DEF DeleteModelProvider, Config
<1> QED BY <1>6, <1>7, <1>8, EditSectionsType, SetTypes

LEMMA SetAgentDefaultsType ==
    ASSUME IInv, NEW f \in Flows, NEW p \in Providers, SetAgentDefaults(f, p)
    PROVE  IInv'
<1>1. PICK c : c = [Copy(f) EXCEPT !.agents = p]
  OBVIOUS
<1>2. c \in Config
  BY <1>1, FlowFields, PartsOfIInv DEF Config
<1>3. AskedOK'
  BY PartsOfIInv DEF SetAgentDefaults, AskedOK
<1>4. EditSections(f, c, {"agents"}, FALSE)
  BY <1>1 DEF SetAgentDefaults
<1> QED BY <1>2, <1>3, <1>4, EditSectionsType, SetTypes

LEMMA AdminSetBotProviderType ==
    ASSUME IInv, NEW f \in Flows, NEW p \in Providers, NEW e \in Entries,
           AdminSetBotProvider(f, p, e)
    PROVE  IInv'
<1>1. Copy(f) \in Config /\ ProvidersOf(Copy(f)) \in ProviderMaps
  BY FlowFields, ProvidersOfType, PartsOfIInv
<1>2. PICK m : m = WithProvider(ProvidersOf(Copy(f)), p, e)
  OBVIOUS
<1>3. m \in ProviderMaps
  BY <1>1, <1>2, MapEdits
<1>4. PICK c : c = [Copy(f) EXCEPT !.agents = p, !.models = m]
  OBVIOUS
<1>5. c \in Config
  BY <1>1, <1>3, <1>4 DEF Config
<1>6. AskedOK'
  <2>1. asked.models \in ProviderMaps
    BY PartsOfIInv DEF AskedOK
  <2>2. PICK n : n = WithProvider(asked.models, p, e)
    OBVIOUS
  <2>3. n \in ProviderMaps
    BY <2>1, <2>2, MapEdits
  <2>4. asked' = [asked EXCEPT !.models = n, !.agents = p]
    BY <2>2, PartsOfIInv DEF AdminSetBotProvider, AskedOK
  <2> QED BY <2>3, <2>4, PartsOfIInv DEF AskedOK
<1>7. EditSections(f, c, {"models", "agents"}, TRUE)
  BY <1>2, <1>4 DEF AdminSetBotProvider
<1> QED BY <1>5, <1>6, <1>7, EditSectionsType, SetTypes

LEMMA TouchBotType ==
    ASSUME IInv, NEW f \in Flows, TouchBot(f)
    PROVE  IInv'
<1>1. ColumnOK'
  BY FlowFields, PartsOfIInv DEF TouchBot, ColumnOK
<1>2. FlowOK'
  BY DoneFlow, PartsOfIInv DEF TouchBot
<1> QED BY <1>1, <1>2, UnchangedParts, PartsOfIInv, PartsOfIInvNext DEF TouchBot

LEMMA PutConfigType ==
    ASSUME IInv, NEW f \in Flows, NEW c \in Inputs, PutConfig(f, c)
    PROVE  IInv'
<1>1. c \in Config /\ Bot(f) \in Row /\ FlowOK /\ FileOK /\ PodOK /\ issued \in Nat
  BY FlowFields, PartsOfIInv, ConstantsOK DEF TokensOK
<1>2. ColumnOK'
  BY <1>1, SaveRow DEF PutConfig
<1>3. FlowOK'
  BY <1>1, DoneFlow, CarryFlow, StepTypes, SetTypes DEF PutConfig
<1>4. AskedOK'
  BY <1>1, AskedByType DEF PutConfig, AskedOK, Wishes
<1>5. FileOK'
  BY <1>1, SetTypes, LockedType DEF PutConfig, FileOK
<1>6. PodOK'
  BY <1>1, TouchedPod, SetTypes DEF PutConfig
<1> QED BY <1>2, <1>3, <1>4, <1>5, <1>6, UnchangedParts, PartsOfIInv, PartsOfIInvNext
        DEF PutConfig

LEMMA ResetType ==
    ASSUME IInv, NEW f \in Flows, ResetBotAccessToken(f)
    PROVE  IInv'
<1>1. FlowOK /\ ColumnOK /\ FileOK /\ PodOK /\ AskedOK /\ issued \in Nat
  BY PartsOfIInv DEF TokensOK
<1>2. PICK n : n = issued + 1
  OBVIOUS
<1>3. n \in Nat
  BY <1>1, <1>2
<1>4. TokensOK' /\ ColumnOK' /\ AskedOK'
  BY <1>1, <1>2, <1>3 DEF ResetBotAccessToken, TokensOK, ColumnOK, AskedOK, Row
<1>5. FlowOK'
  <2>1. PICK more \in BOOLEAN : more = Running(f)
    BY DEF Running
  <2>2. PICK e : e = [EmptyConfig EXCEPT !.auth = n]
    OBVIOUS
  <2>3. e \in Config
    BY <1>3, <2>2, EmptyConfigType DEF Config
  <2>4. PICK x : x = [Idle EXCEPT !.pc = "reload", !.more = more, !.cfg = e,
                                  !.sections = {"auth"}]
    OBVIOUS
  <2>5. x \in Flow
    BY <2>1, <2>3, <2>4, IdleType, StepTypes, SetTypes DEF Flow
  <2>6. Idle.cfg = EmptyConfig
    BY DEF Idle
  <2>7. x = [Idle EXCEPT !.pc = "reload", !.more = Running(f), !.cfg.auth = issued + 1,
                         !.sections = {"auth"}]
    BY <1>2, <2>1, <2>2, <2>4, <2>6, IdleType DEF Flow
  <2> QED BY <1>1, <2>5, <2>7, FlowGoes DEF ResetBotAccessToken
<1>6. FileOK'
  BY <1>1, SetTypes DEF ResetBotAccessToken, FileOK
<1>7. PodOK'
  BY <1>1, TouchedPod, SetTypes DEF ResetBotAccessToken
<1> QED BY <1>4, <1>5, <1>6, <1>7, UnchangedParts, PartsOfIInv, PartsOfIInvNext
        DEF ResetBotAccessToken

LEMMA ReloadBotType ==
    ASSUME IInv, NEW f \in Flows, ReloadBot(f)
    PROVE  IInv'
<1>1. FlowOK /\ flow[f] \in Flow /\ row \in Row /\ row.cfg \in Config
      /\ flow[f].cfg \in Config
  BY FlowFields, ColumnType, PartsOfIInv DEF ColumnOK
<1>2. PICK c : c = [Typed(row.cfg) EXCEPT !.auth = flow[f].cfg.auth]
  OBVIOUS
<1>3. c \in Config
  <2>1. Typed(row.cfg) \in Config
    BY <1>1, TypedType
  <2> QED BY <1>1, <1>2, <2>1 DEF Config
<1>4. PICK x : x = [flow[f] EXCEPT !.pc = "resave", !.bot = row, !.cfg = c]
  OBVIOUS
<1>5. x \in Flow
  BY <1>1, <1>3, <1>4, StepTypes DEF Flow
<1>6. flow' = [flow EXCEPT ![f] = x]
  BY <1>1, <1>2, <1>4 DEF ReloadBot, FlowOK
<1>7. FlowOK'
  BY <1>1, <1>5, <1>6, FlowGoes
<1> QED BY <1>7, UnchangedParts, PartsOfIInv, PartsOfIInvNext DEF ReloadBot

LEMMA RedeploysFlow ==
    ASSUME FlowOK, NEW f \in Flows, Redeploys(f)
    PROVE  FlowOK'
<1>1. CASE flow' = [flow EXCEPT ![f].pc = "redeploy"]
  <2>1. PICK x : x = [flow[f] EXCEPT !.pc = "redeploy"]
    OBVIOUS
  <2>2. x \in Flow
    BY <2>1, FlowFields, StepTypes DEF Flow
  <2>3. flow' = [flow EXCEPT ![f] = x]
    BY <1>1, <2>1 DEF FlowOK
  <2> QED BY <2>2, <2>3, FlowGoes
<1> QED BY <1>1, DoneFlow DEF Redeploys

LEMMA SaveTokenType ==
    ASSUME IInv, NEW f \in Flows, SaveToken(f) \/ SaveTokenFails(f)
    PROVE  IInv'
<1>1. FlowOK'
  BY RedeploysFlow, PartsOfIInv DEF SaveToken, SaveTokenFails
<1>2. CASE SaveToken(f)
  <2>1. ColumnOK'
    BY <1>2, SaveRow, FlowFields, PartsOfIInv DEF SaveToken
  <2> QED BY <1>1, <1>2, <2>1, UnchangedParts, PartsOfIInv, PartsOfIInvNext DEF SaveToken
<1>3. CASE SaveTokenFails(f)
  <2>1. FileOK'
    BY <1>3, SetTypes, PartsOfIInv DEF SaveTokenFails, FileOK
  <2>2. LeftOK'
    BY <1>3, Spent, PartsOfIInv DEF SaveTokenFails
  <2> QED BY <1>1, <1>3, <2>1, <2>2, UnchangedParts, PartsOfIInv, PartsOfIInvNext
          DEF SaveTokenFails
<1> QED BY <1>2, <1>3

LEMMA RedeployType ==
    ASSUME IInv, NEW f \in Flows, UpdateDeploymentConfig(f)
    PROVE  IInv'
<1>1. FlowOK /\ PodOK /\ Bot(f) \in Row /\ flow[f].cfg \in Config
  BY FlowFields, PartsOfIInv
<1>2. PICK bot : bot = [Bot(f) EXCEPT !.cfg = flow[f].cfg]
  OBVIOUS
<1>3. bot \in Row
  BY <1>1, <1>2 DEF Row
<1>4. PodOK'
  BY <1>1, <1>2, <1>3, Deployed DEF UpdateDeploymentConfig
<1>5. FlowOK'
  BY <1>1, DoneFlow DEF UpdateDeploymentConfig
<1> QED BY <1>4, <1>5, UnchangedParts, PartsOfIInv, PartsOfIInvNext
        DEF UpdateDeploymentConfig

LEMMA EditChannelsType ==
    ASSUME IInv, NEW f \in Flows, NEW a \in Accounts, NEW c \in Config, EditChannels(f, a, c)
    PROVE  IInv'
<1>1. PICK x : x = [Idle EXCEPT !.pc = "channelWrite", !.sections = {"channels"},
                                !.account = a, !.cfg = c]
  OBVIOUS
<1>2. x \in Flow
  BY <1>1, IdleType, StepTypes, SetTypes DEF Flow
<1>3. FlowOK'
  BY <1>1, <1>2, FlowGoes, PartsOfIInv DEF EditChannels
<1> QED BY <1>3, UnchangedParts, PartsOfIInv, PartsOfIInvNext DEF EditChannels

LEMMA ChannelType ==
    ASSUME IInv, NEW f \in Flows, NEW a \in Accounts,
           AddChannelToBot(f, a) \/ RemoveChannelFromBot(f, a)
    PROVE  IInv'
<1>1. OnFile \in Config
  BY OnFileType, PartsOfIInv
<1>2. CASE AddChannelToBot(f, a)
  <2>1. PICK c : c = [OnFile EXCEPT !.channels = OnFile.channels \cup {a}]
    OBVIOUS
  <2>2. c \in Config
    BY <1>1, <2>1 DEF Config
  <2>3. EditChannels(f, a, c)
    BY <1>1, <1>2, <2>1 DEF AddChannelToBot, Config
  <2> QED BY <2>2, <2>3, EditChannelsType
<1>3. CASE RemoveChannelFromBot(f, a)
  <2>1. PICK c : c = [OnFile EXCEPT !.channels = OnFile.channels \ {a}]
    OBVIOUS
  <2>2. c \in Config
    BY <1>1, <2>1 DEF Config
  <2>3. EditChannels(f, a, c)
    BY <1>1, <1>3, <2>1 DEF RemoveChannelFromBot, Config
  <2> QED BY <2>2, <2>3, EditChannelsType
<1> QED BY <1>2, <1>3

\* What a flow adds to asked is an account: it is in the channels that it writes.
LEMMA WriteChannelsType ==
    ASSUME IInv, NEW f \in Flows, WriteChannels(f)
    PROVE  IInv'
<1>1. FlowOK /\ FileOK /\ PodOK /\ AskedOK /\ flow[f].cfg \in Config
  BY FlowFields, PartsOfIInv
<1>2. PICK a : a = flow[f].account
  OBVIOUS
<1>3. AskedOK'
  <2>1. PICK cs : cs = IF a \in flow[f].cfg.channels THEN asked.channels \cup {a}
                       ELSE asked.channels \ {a}
    OBVIOUS
  <2>2. cs \in SUBSET Accounts
    BY <1>1, <2>1 DEF AskedOK, Config
  <2>3. asked' = [asked EXCEPT !.channels = cs]
    BY <1>1, <1>2, <2>1 DEF WriteChannels, AskedOK
  <2> QED BY <1>1, <2>2, <2>3 DEF AskedOK
<1>4. FileOK'
  BY <1>1, WrittenFile, SetTypes DEF WriteChannels
<1>5. FlowOK'
  BY <1>1, CarryFlow, StepTypes, SetTypes DEF WriteChannels
<1>6. PodOK'
  BY <1>1, TouchedPod, SetTypes DEF WriteChannels
<1> QED BY <1>3, <1>4, <1>5, <1>6, UnchangedParts, PartsOfIInv, PartsOfIInvNext
        DEF WriteChannels

LEMMA EditRawType ==
    ASSUME IInv, NEW f \in Flows, NEW c \in Config, NEW sections \in SUBSET Sections,
           EditRaw(f, c, sections)
    PROVE  IInv'
<1>1. PICK x : x = [Idle EXCEPT !.pc = "rawWrite", !.cfg = c, !.sections = sections]
  OBVIOUS
<1>2. x \in Flow
  BY <1>1, IdleType, StepTypes DEF Flow
<1>3. FlowOK'
  BY <1>1, <1>2, FlowGoes, PartsOfIInv DEF EditRaw
<1> QED BY <1>3, UnchangedParts, PartsOfIInv, PartsOfIInvNext DEF EditRaw

LEMMA RawType ==
    ASSUME IInv, NEW f \in Flows, NEW c \in Inputs, RawMerge(f, c) \/ RawReplace(f, c)
    PROVE  IInv'
<1>1. c \in Config /\ MergeMap(OnFile, c) \in Config
  BY OnFileType, MergeMapType, PartsOfIInv, ConstantsOK
<1>2. RawSections(c) \in SUBSET Sections
  BY ZenonT(20) DEF RawSections
<1> QED BY <1>1, <1>2, SetTypes, EditRawType DEF RawMerge, RawReplace

LEMMA WriteBotConfigType ==
    ASSUME IInv, NEW f \in Flows, WriteBotConfig(f)
    PROVE  IInv'
<1>1. FlowOK /\ FileOK /\ PodOK /\ flow[f].cfg \in Config
      /\ flow[f].sections \in SUBSET Sections
  BY FlowFields, PartsOfIInv
<1>2. FlowOK' /\ FileOK' /\ PodOK'
  BY <1>1, DoneFlow, WrittenFile, TouchedPod DEF WriteBotConfig
<1> QED BY <1>2, UnchangedParts, PartsOfIInv, PartsOfIInvNext DEF WriteBotConfig

\* A handler that has just made a Deployment goes on to what it owes the file.
LEMMA LaunchType ==
    ASSUME IInv, NEW f \in Flows, NEW pc \in Steps, NEW sections \in SUBSET Sections,
           Launch(f, pc, sections), ColumnOK'
    PROVE  IInv'
<1>1. FlowOK /\ PodOK /\ flow[f] \in Flow /\ Bot(f) \in Row
  BY FlowFields, PartsOfIInv
<1>2. PodOK'
  BY <1>1, Deployed DEF Launch
<1>3. PICK x : x = [flow[f] EXCEPT !.pc = pc, !.sections = sections]
  OBVIOUS
<1>4. x \in Flow
  BY <1>1, <1>3 DEF Flow
<1>5. flow' = [flow EXCEPT ![f] = x]
  BY <1>1, <1>3 DEF Launch, FlowOK
<1>6. FlowOK'
  BY <1>1, <1>4, <1>5, FlowGoes
<1> QED BY <1>2, <1>6, UnchangedParts, PartsOfIInv, PartsOfIInvNext DEF Launch

LEMMA StartsType ==
    ASSUME IInv, NEW f \in Flows, StartBot(f) \/ AdminStartBot(f) \/ RestartBot(f)
    PROVE  IInv'
<1>1. ColumnOK'
  BY StatusRow, PartsOfIInv DEF StartBot, AdminStartBot, RestartBot
<1> QED BY <1>1, LaunchType, StepTypes, SetTypes DEF StartBot, AdminStartBot, RestartBot

LEMMA AwaitPodType ==
    ASSUME IInv, NEW f \in Flows, AwaitPod(f)
    PROVE  IInv'
<1>1. ColumnOK'
  BY StatusRow, PartsOfIInv DEF AwaitPod
<1>2. FlowOK'
  <2>1. PICK x : x = [flow[f] EXCEPT !.pc = "merge"]
    OBVIOUS
  <2>2. x \in Flow
    BY <2>1, FlowFields, StepTypes, PartsOfIInv DEF Flow
  <2>3. flow' = [flow EXCEPT ![f].pc = "merge"] \/ Done(f)
    BY DEF AwaitPod
  <2>4. flow' = [flow EXCEPT ![f] = x] \/ Done(f)
    BY <2>1, <2>3, PartsOfIInv DEF FlowOK
  <2> QED BY <2>2, <2>4, FlowGoes, DoneFlow, PartsOfIInv
<1>3. FileOK'
  <2>1. flow[f].sections \subseteq Sections /\ FileOK
    BY FlowFields, PartsOfIInv
  <2> QED BY <2>1 DEF AwaitPod, FileOK
<1> QED BY <1>1, <1>2, <1>3, UnchangedParts, PartsOfIInv, PartsOfIInvNext DEF AwaitPod

LEMMA StopBotType ==
    ASSUME IInv, NEW f \in Flows, StopBot(f)
    PROVE  IInv'
<1>1. ColumnOK' /\ FlowOK'
  BY StatusRow, DoneFlow, PartsOfIInv DEF StopBot
<1>2. NoCommand \in Command
  BY EmptyConfigType DEF NoCommand, Command
<1>3. PodOK'
  BY <1>2 DEF StopBot, PodOK, HasCommand
<1> QED BY <1>1, <1>3, UnchangedParts, PartsOfIInv, PartsOfIInvNext DEF StopBot

LEMMA UpgradeBotType ==
    ASSUME IInv, NEW f \in Flows, UpgradeBot(f)
    PROVE  IInv'
<1>1. PodOK /\ cmd \in Command
  BY PartsOfIInv DEF PodOK
<1>2. PodOK'
  BY <1>1, RolledOut DEF UpgradeBot
<1>3. FlowOK'
  BY CarryFlow, StepTypes, SetTypes, PartsOfIInv DEF UpgradeBot
<1> QED BY <1>2, <1>3, UnchangedParts, PartsOfIInv, PartsOfIInvNext DEF UpgradeBot

LEMMA GetBotType ==
    ASSUME IInv, NEW f \in Flows, GetBot(f)
    PROVE  IInv'
<1>1. FlowOK'
  BY CarryFlow, StepTypes, SetTypes, PartsOfIInv DEF GetBot
<1> QED BY <1>1, UnchangedParts, PartsOfIInv, PartsOfIInvNext DEF GetBot

\* The reads of the row or of the file before a write.
LEMMA ReadsType ==
    ASSUME IInv, NEW f \in Flows,
           \/ SectionsRead(f) \/ FullRead(f) \/ MergeRead(f) \/ PullRead(f)
    PROVE  IInv'
<1>1. /\ FlowOK /\ Bot(f) \in Row /\ OnFile \in Config /\ Column \in Config
      /\ row.cfg \in Config
  BY FlowFields, OnFileType, ColumnType, PartsOfIInv
<1>2. /\ Typed(row.cfg) \in Config /\ Typed(OnFile) \in Config
      /\ MergeConfigForModels(OnFile, ConvertToK8sConfig(Bot(f))) \in Config
  BY <1>1, TypedType, ConvertType, MergeType
<1>3. FlowOK'
  BY <1>1, <1>2, HoldsFlow, StepTypes DEF SectionsRead, FullRead, MergeRead, PullRead
<1> QED BY <1>3, UnchangedParts, PartsOfIInv, PartsOfIInvNext
        DEF SectionsRead, FullRead, MergeRead, PullRead

LEMMA MergeReadFailsType ==
    ASSUME IInv, NEW f \in Flows, MergeReadFails(f)
    PROVE  IInv'
<1>1. FlowOK /\ flow[f] \in Flow /\ Bot(f) \in Row
  BY FlowFields, PartsOfIInv
<1>2. PICK c : c = MergeConfigForModels(EmptyConfig, ConvertToK8sConfig(Bot(f)))
  OBVIOUS
<1>3. c \in Config
  BY <1>1, <1>2, ConvertType, MergeType, EmptyConfigType
<1>4. PICK x : x = [flow[f] EXCEPT !.pc = "mergeWrite", !.sections = Sections, !.cfg = c]
  OBVIOUS
<1>5. x \in Flow
  BY <1>1, <1>3, <1>4, StepTypes, SetTypes DEF Flow
<1>6. flow' = [flow EXCEPT ![f] = x]
  BY <1>1, <1>2, <1>4 DEF MergeReadFails, FlowOK
<1>7. FlowOK' /\ LeftOK'
  BY <1>1, <1>5, <1>6, FlowGoes, Spent, PartsOfIInv DEF MergeReadFails
<1> QED BY <1>7, UnchangedParts, PartsOfIInv, PartsOfIInvNext DEF MergeReadFails

LEMMA SectionsPatchType ==
    ASSUME IInv, NEW f \in Flows, SectionsPatch(f)
    PROVE  IInv'
<1>1. FlowOK /\ FileOK /\ flow[f].cfg \in Config /\ OnFile \in Config
  BY FlowFields, OnFileType, PartsOfIInv
<1>2. AssignSections(OnFile, flow[f].cfg, flow[f].sections) \in Config
  BY <1>1, AssignType
<1>3. FileOK'
  BY <1>1, <1>2, WrittenFile, SetTypes DEF SectionsPatch
<1>4. FlowOK'
  BY <1>1, DoneFlow, CarryFlow, StepTypes, SetTypes DEF SectionsPatch
<1> QED BY <1>3, <1>4, UnchangedParts, PartsOfIInv, PartsOfIInvNext DEF SectionsPatch

\* The writes of the whole file by a sync and by a merge.
LEMMA WritesType ==
    ASSUME IInv, NEW f \in Flows, FullWrite(f) \/ MergeWrite(f)
    PROVE  IInv'
<1>1. /\ FlowOK /\ FileOK /\ flow[f].cfg \in Config
      /\ flow[f].sections \ {"models"} \in SUBSET Sections
  BY FlowFields, PartsOfIInv
<1>2. FileOK'
  BY <1>1, WrittenFile, SetTypes DEF FullWrite, MergeWrite
<1>3. FlowOK'
  BY <1>1, DoneFlow DEF FullWrite, MergeWrite
<1> QED BY <1>2, <1>3, UnchangedParts, PartsOfIInv, PartsOfIInvNext DEF FullWrite, MergeWrite

LEMMA PullRowType ==
    ASSUME IInv, NEW f \in Flows, PullRow(f)
    PROVE  IInv'
<1>1. PICK x : x = [flow[f] EXCEPT !.pc = "pullSave", !.bot = row]
  OBVIOUS
<1>2. x \in Flow
  BY <1>1, FlowFields, StepTypes, PartsOfIInv DEF Flow, ColumnOK
<1>3. flow' = [flow EXCEPT ![f] = x]
  BY <1>1, PartsOfIInv DEF PullRow, FlowOK
<1>4. FlowOK'
  BY <1>2, <1>3, FlowGoes, PartsOfIInv
<1> QED BY <1>4, UnchangedParts, PartsOfIInv, PartsOfIInvNext DEF PullRow

LEMMA PullSaveType ==
    ASSUME IInv, NEW f \in Flows, PullSave(f)
    PROVE  IInv'
<1>1. FlowOK' /\ ColumnOK'
  BY DoneFlow, SaveRow, FlowFields, PartsOfIInv DEF PullSave
<1> QED BY <1>1, UnchangedParts, PartsOfIInv, PartsOfIInvNext DEF PullSave

\* A step that fails: what it carried is lost, and nothing else has changed.
LEMMA FailsType ==
    ASSUME IInv, NEW f \in Flows, WaitExpires(f) \/ CallFails(f) \/ EditFails(f)
    PROVE  IInv'
<1>1. FlowOK'
  BY DoneFlow, PartsOfIInv DEF WaitExpires, CallFails, EditFails, GiveUp
<1>2. LeftOK'
  BY Spent, UnchangedParts, PartsOfIInv DEF WaitExpires, CallFails, EditFails
<1>3. FileOK'
  <2>1. flow[f].sections \subseteq Sections /\ FileOK
    BY FlowFields, PartsOfIInv
  <2> QED BY <2>1 DEF WaitExpires, CallFails, EditFails, GiveUp, FileOK
<1> QED BY <1>1, <1>2, <1>3, UnchangedParts, PartsOfIInv, PartsOfIInvNext
        DEF WaitExpires, CallFails, EditFails, GiveUp

LEMMA PodType ==
    ASSUME IInv, PodStarts \/ PodReady \/ ContainerRestarts
    PROVE  IInv'
<1>1. FileOK /\ PodOK /\ LeftOK
  BY PartsOfIInv
<1>2. PodOK'
  BY <1>1 DEF PodStarts, PodReady, ContainerRestarts, PodOK, HasCommand
<1>3. FileOK'
  <2>1. CASE PodReady
    BY <1>1, <2>1, UnchangedParts DEF PodReady
  <2>2. CASE PodStarts \/ ContainerRestarts
    BY <1>1, <2>2, RanCommand DEF PodStarts, ContainerRestarts
  <2> QED BY <2>1, <2>2
<1>4. LeftOK'
  BY <1>1, Spent, UnchangedParts DEF PodStarts, PodReady, ContainerRestarts
<1> QED BY <1>2, <1>3, <1>4, UnchangedParts, PartsOfIInv, PartsOfIInvNext
        DEF PodStarts, PodReady, ContainerRestarts

LEMMA RequestType ==
    ASSUME IInv, NEW f \in Flows, Request(f)
    PROVE  IInv'
<1>1. CASE \E p \in Providers, e \in Entries :
              \/ AddModelProvider(f, p, e)
              \/ UpdateModelProvider(f, p, e)
              \/ AdminSetBotProvider(f, p, e)
  BY <1>1, PutProviderType, AdminSetBotProviderType
     DEF AddModelProvider, UpdateModelProvider
<1>2. CASE \E p \in Providers : DeleteModelProvider(f, p) \/ SetAgentDefaults(f, p)
  BY <1>2, DeleteModelProviderType, SetAgentDefaultsType
<1>3. CASE \E c \in Inputs : PutConfig(f, c) \/ RawMerge(f, c) \/ RawReplace(f, c)
  BY <1>3, PutConfigType, RawType
<1>4. CASE \E a \in Accounts : AddChannelToBot(f, a) \/ RemoveChannelFromBot(f, a)
  BY <1>4, ChannelType
<1>5. CASE Arrive(f) \/ TouchBot(f) \/ ResetBotAccessToken(f)
  BY <1>5, ArriveType, TouchBotType, ResetType
<1>6. CASE \/ GetBot(f) \/ StartBot(f) \/ AdminStartBot(f) \/ RestartBot(f)
           \/ StopBot(f) \/ UpgradeBot(f)
  BY <1>6, GetBotType, StartsType, StopBotType, UpgradeBotType
<1> QED BY <1>1, <1>2, <1>3, <1>4, <1>5, <1>6 DEF Request

LEMMA TailType ==
    ASSUME IInv, NEW f \in Flows, Tail(f)
    PROVE  IInv'
<1>1. CASE \/ ReloadBot(f) \/ SaveToken(f) \/ SaveTokenFails(f)
           \/ UpdateDeploymentConfig(f) \/ AwaitPod(f)
  BY <1>1, ReloadBotType, SaveTokenType, RedeployType, AwaitPodType
<1>2. CASE WriteChannels(f) \/ WriteBotConfig(f) \/ SectionsPatch(f) \/ FullWrite(f)
           \/ MergeWrite(f)
  BY <1>2, WriteChannelsType, WriteBotConfigType, SectionsPatchType, WritesType
<1>3. CASE \/ SectionsRead(f) \/ FullRead(f) \/ MergeRead(f) \/ MergeReadFails(f)
           \/ PullRead(f) \/ PullRow(f) \/ PullSave(f)
  BY <1>3, ReadsType, MergeReadFailsType, PullRowType, PullSaveType
<1>4. CASE WaitExpires(f) \/ CallFails(f) \/ EditFails(f)
  BY <1>4, FailsType
<1> QED BY <1>1, <1>2, <1>3, <1>4 DEF Tail

LEMMA NextIInv == IInv /\ [Next]_vars => IInv'
<1> SUFFICES ASSUME IInv, [Next]_vars PROVE IInv'
  OBVIOUS
<1>1. CASE UNCHANGED vars
  BY <1>1, UnchangedParts, PartsOfIInv, PartsOfIInvNext DEF vars, pods
<1>2. CASE \E f \in Flows : Request(f) \/ Tail(f)
  BY <1>2, RequestType, TailType
<1>3. CASE PodStarts \/ PodReady \/ ContainerRestarts
  BY <1>3, PodType
<1> QED BY <1>1, <1>2, <1>3 DEF Next

\* Every copy of the configuration keeps the shape of its Go type, and a pod is
\* never there without the start command of a Deployment, whatever the requests
\* and failures (bot.go, config_sync.go, botconfig.go, deployment.go).
THEOREM TypeCorrect == Spec => []TypeOK
<1>1. IInv => TypeOK
  BY DEF IInv
<1> QED BY <1>1, InitIInv, NextIInv, PTL DEF Spec

(***************************************************************************)
(* Laws of the conversions and merges                                      *)
(***************************************************************************)
\* Two syncs of different sections come to the same in either order: node merges
\* in the pod only the sections that were named (SyncSectionsToPod).
THEOREM SyncsCommute ==
    ASSUME NEW c \in Config, NEW p \in Config, NEW q \in Config,
           NEW s \in SUBSET Sections, NEW t \in SUBSET Sections, s \cap t = {}
    PROVE  AssignSections(AssignSections(c, p, s), q, t)
               = AssignSections(AssignSections(c, q, t), p, s)
BY DEF AssignSections, Config

\* A start that is done again, after an answer was lost, finds the file as it has
\* left it (mergeConfigForModels in WriteConfigToBot).
THEOREM MergeTwice ==
    ASSUME NEW c \in Config, NEW bot \in Row
    PROVE  LET k == ConvertToK8sConfig(bot)
               d == MergeConfigForModels(c, k)
           IN  MergeConfigForModels(d, k) = d
<1>1. PICK k \in K8sConfig : k = ConvertToK8sConfig(bot)
  BY ConvertType
<1>2. PICK d : d = MergeConfigForModels(c, k)
  OBVIOUS
<1>3. /\ d.models = BuildProvidersMap(k) /\ d.agents = c.agents
      /\ d.channels = OverlayChannels(c.channels, k.channels)
      /\ d.auth = (IF c.auth = Absent THEN k.token ELSE c.auth)
      /\ d.extra = c.extra \cup {"http"}
      /\ d \in [models : {d.models}, agents : {d.agents}, channels : {d.channels},
                auth : {d.auth}, extra : {d.extra}]
  BY <1>2 DEF MergeConfigForModels, Config
<1>4. OverlayChannels(d.channels, k.channels) = d.channels
  BY <1>3 DEF OverlayChannels
<1>5. (IF d.auth = Absent THEN k.token ELSE d.auth) = d.auth
  BY <1>3
<1>6. d.extra \cup {"http"} = d.extra
  BY <1>3
<1>7. MergeConfigForModels(d, k)
        = [d EXCEPT !.models = d.models, !.channels = d.channels, !.auth = d.auth,
                    !.extra = d.extra]
  BY <1>3, <1>4, <1>5, <1>6 DEF MergeConfigForModels
<1> QED BY <1>1, <1>2, <1>3, <1>7

\* What a full sync has written comes back from a pull as what the next full sync
\* would write: the two routes do not drive each other on (SyncConfigToPod,
\* SyncConfigToDatabase).
THEOREM SyncThenPull ==
    ASSUME NEW c \in Config, NEW token \in Nat
    PROVE  LET written == WithGatewayAuth(c, token)
           IN  WithGatewayAuth(Typed(written), token) = written
BY DEF WithGatewayAuth, Typed, Config
================================================================================
