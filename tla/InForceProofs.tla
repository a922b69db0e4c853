---------------------------- MODULE InForceProofs ----------------------------
(***************************************************************************)
(* A proof that a running bot at rest has what was asked for, for any      *)
(* providers, accounts and inputs and any number of flows, requests,       *)
(* failures and crashes.                                                   *)
(***************************************************************************)
EXTENDS ConfigSyncInv, ConfigSyncProofs

(***************************************************************************)
(* Sections                                                                *)
(***************************************************************************)
\* The models m of a configuration are those asked for, a.
ModelsFit(m, a) ==
    /\ \A p \in DOMAIN a : p \in DOMAIN m /\ m[p] = a[p]
    /\ \A p \in DOMAIN m \ DOMAIN a : p = Anthropic /\ m[p] = Stock

LEMMA MatchingBy ==
    ASSUME NEW c, NEW a
    PROVE  /\ "models" \in Matching(c, a) <=> ModelsFit(ProvidersOf(c), a.models)
           /\ "agents" \in Matching(c, a) <=> a.agents = Absent \/ c.agents = a.agents
           /\ "channels" \in Matching(c, a) <=> c.channels = a.channels
           /\ "auth" \in Matching(c, a) <=> c.auth = a.auth
           /\ Matching(c, a) \subseteq Sections
BY DEF Matching, ModelsFit, Sections

\* A section fits, or not, whatever else there is in the configuration.
LEMMA SameSection ==
    ASSUME NEW c, NEW d, NEW a, NEW b, NEW s \in Sections, c[s] = d[s], a[s] = b[s]
    PROVE  s \in Matching(c, a) <=> s \in Matching(d, b)
<1>1. CASE s = "models"
  BY <1>1, MatchingBy DEF ProvidersOf
<1>2. CASE s = "agents"
  BY <1>2, MatchingBy
<1>3. CASE s = "channels"
  BY <1>3, MatchingBy
<1>4. CASE s = "auth"
  BY <1>4, MatchingBy
<1> QED BY <1>1, <1>2, <1>3, <1>4 DEF Sections

LEMMA TypedSections ==
    ASSUME NEW c \in Config, NEW s \in Sections
    PROVE  Typed(c)[s] = c[s] /\ PatchAtStart(c)[s] = c[s]
BY DEF Typed, PatchAtStart, Config, Sections

LEMMA TypedMatching ==
    ASSUME NEW c \in Config, NEW a, NEW s \in Sections
    PROVE  /\ s \in Matching(Typed(c), a) <=> s \in Matching(c, a)
           /\ s \in Matching(PatchAtStart(c), a) <=> s \in Matching(c, a)
BY TypedSections, SameSection

LEMMA GatewayAuthSections ==
    ASSUME NEW c \in Config, NEW token, NEW s \in Sections
    PROVE  /\ s # "auth" => WithGatewayAuth(c, token)[s] = c[s]
           /\ WithGatewayAuth(c, token).auth = IF c.auth = Password THEN Password ELSE token
BY TypedType DEF WithGatewayAuth, Typed, Config, Sections

LEMMA BuildFits ==
    ASSUME NEW m \in ProviderMaps, NEW k \in K8sConfig, k.providers = m,
           NEW a \in ProviderMaps, ModelsFit(m, a)
    PROVE  ModelsFit(BuildProvidersMap(k), a)
<1>1. CASE DOMAIN m # {}
  BY <1>1 DEF BuildProvidersMap
<1>2. CASE DOMAIN m = {}
  <2>1. DOMAIN a = {}
    BY <1>2 DEF ModelsFit
  <2>2. BuildProvidersMap(k) = [p \in {Anthropic} |-> Stock]
    BY <1>2 DEF BuildProvidersMap
  <2> QED BY <2>1, <2>2 DEF ModelsFit
<1> QED BY <1>1, <1>2

\* The configuration in a start command fits where that of the row fits.
LEMMA CommandFits ==
    ASSUME NEW bot \in Row, NEW x \in BuildOpenClawConfig(ConvertToK8sConfig(bot)),
           NEW a \in Wishes
    PROVE  /\ \A s \in Sections \ {"auth"} :
                 s \in Matching(bot.cfg, a) => s \in Matching(x, a)
           /\ x.auth = bot.token
<1>1. PICK k \in K8sConfig : k = ConvertToK8sConfig(bot)
  BY ConvertType
<1>2. bot.cfg \in Config /\ ProvidersOf(bot.cfg) \in ProviderMaps
  BY ProvidersOfType DEF Row
<1>3. /\ k.token = bot.token /\ k.agents = bot.cfg.agents /\ k.channels = bot.cfg.channels
      /\ k.providers = ProvidersOf(bot.cfg)
  BY <1>1, <1>2 DEF ConvertToK8sConfig, Typed, Config, ProvidersOf
<1>4. PICK m \in GetDefaultModelFromConfig(k) :
         x = [models |-> BuildProvidersMap(k), agents |-> m, channels |-> k.channels,
              auth |-> k.token, extra |-> {"http"}]
  BY <1>1 DEF BuildOpenClawConfig
<1>5. "models" \in Matching(bot.cfg, a) => "models" \in Matching(x, a)
  <2>1. BuildProvidersMap(k) \in ProviderMaps
    BY BuildProvidersType
  <2>2. ProvidersOf(x) = BuildProvidersMap(k)
    BY <1>4, <2>1, AbsentOK DEF ProvidersOf
  <2> QED BY <1>2, <1>3, <2>2, MatchingBy, BuildFits DEF Wishes
<1>6. "agents" \in Matching(bot.cfg, a) => "agents" \in Matching(x, a)
  BY <1>3, <1>4, MatchingBy DEF GetDefaultModelFromConfig
<1>7. "channels" \in Matching(bot.cfg, a) => "channels" \in Matching(x, a)
  BY <1>3, <1>4, MatchingBy
<1> QED BY <1>3, <1>4, <1>5, <1>6, <1>7 DEF Sections

\* A merge at a start fits where the file and the row fit, the models where the
\* row fits.
LEMMA MergeFits ==
    ASSUME NEW c \in Config, NEW bot \in Row, NEW a \in Wishes
    PROVE  LET d == MergeConfigForModels(c, ConvertToK8sConfig(bot)) IN
           /\ "models" \in Matching(bot.cfg, a) => "models" \in Matching(d, a)
           /\ \A s \in Sections \ {"models"} :
                 s \in Matching(c, a) /\ (s = "channels" => s \in Matching(bot.cfg, a))
                    => s \in Matching(d, a)
<1>1. PICK k \in K8sConfig : k = ConvertToK8sConfig(bot)
  BY ConvertType
<1>2. bot.cfg \in Config /\ ProvidersOf(bot.cfg) \in ProviderMaps
  BY ProvidersOfType DEF Row
<1>3. k.channels = bot.cfg.channels /\ k.providers = ProvidersOf(bot.cfg)
  BY <1>1, <1>2 DEF ConvertToK8sConfig, Typed, Config, ProvidersOf
<1>4. PICK d : d = MergeConfigForModels(c, k)
  OBVIOUS
<1>5. /\ d.models = BuildProvidersMap(k) /\ d.agents = c.agents
      /\ d.channels = OverlayChannels(c.channels, k.channels)
      /\ d.auth = IF c.auth = Absent THEN k.token ELSE c.auth
  BY <1>4 DEF MergeConfigForModels, Config
<1>6. "models" \in Matching(bot.cfg, a) => "models" \in Matching(d, a)
  <2>1. BuildProvidersMap(k) \in ProviderMaps
    BY BuildProvidersType
  <2>2. ProvidersOf(d) = BuildProvidersMap(k)
    BY <1>5, <2>1, AbsentOK DEF ProvidersOf
  <2> QED BY <1>2, <1>3, <2>2, MatchingBy, BuildFits DEF Wishes
<1>7. "agents" \in Matching(c, a) => "agents" \in Matching(d, a)
  BY <1>5, MatchingBy
<1>8. "channels" \in Matching(c, a) /\ "channels" \in Matching(bot.cfg, a)
         => "channels" \in Matching(d, a)
  BY <1>3, <1>5, MatchingBy DEF OverlayChannels
<1>9. "auth" \in Matching(c, a) => "auth" \in Matching(d, a)
  <2>1. a.auth # Absent
    BY DataOK DEF Wishes
  <2> QED BY <1>5, <2>1, MatchingBy
<1> QED BY <1>1, <1>4, <1>6, <1>7, <1>8, <1>9 DEF Sections

\* Object.assign puts the sections that it carries, and leaves the others.
LEMMA AssignedSections ==
    ASSUME NEW c \in Config, NEW patch \in Config, NEW sections, NEW s \in Sections
    PROVE  /\ s \in sections /\ s \in {"models", "agents"} /\ patch[s] # Absent
                 => AssignSections(c, patch, sections)[s] = patch[s]
           /\ s \notin sections => AssignSections(c, patch, sections)[s] = c[s]
BY DEF AssignSections, Config, Sections

LEMMA MergeMapSections ==
    ASSUME NEW c \in Config, NEW d \in Config, NEW s \in Sections \ RawSections(d)
    PROVE  MergeMap(c, d)[s] = c[s]
<1>1. /\ "models" \in RawSections(d) <=> d.models # Absent
      /\ "agents" \in RawSections(d) <=> d.agents # Absent
      /\ "channels" \in RawSections(d) <=> d.channels # {}
      /\ "auth" \in RawSections(d) <=> d.auth # Absent
  BY DEF RawSections, Sections
<1> QED BY <1>1 DEF MergeMap, Sections

\* An entry that is put, or taken away, in what was asked for and in what is there.
LEMMA EditsFit ==
    ASSUME NEW m \in ProviderMaps, NEW a \in ProviderMaps, ModelsFit(m, a),
           NEW p \in Providers, NEW e \in Entries
    PROVE  /\ ModelsFit(WithProvider(m, p, e), WithProvider(a, p, e))
           /\ ModelsFit(WithoutProvider(m, p), WithoutProvider(a, p))
<1>1. ModelsFit(WithProvider(m, p, e), WithProvider(a, p, e))
  BY DEF ModelsFit, WithProvider
<1>2. ModelsFit(WithoutProvider(m, p), WithoutProvider(a, p))
  BY DEF ModelsFit, WithoutProvider
<1> QED BY <1>1, <1>2

(***************************************************************************)
(* What is known at each step                                              *)
(***************************************************************************)
LEMMA KnowsAt ==
    ASSUME NEW x
    PROVE  /\ x.pc = "idle" =>
                 (Knows(x) <=> x = Idle)
           /\ x.pc = "read" =>
                 (Knows(x) <=> x.bot = row /\ pod # "pending")
           /\ x.pc = "sections" =>
                 (Knows(x) <=> /\ x.sections # {}
                               /\ x.sections \subseteq {"models", "agents"}
                               /\ \A s \in x.sections : row.cfg[s] # Absent
                               /\ row.status = "running" /\ pod # "pending")
           /\ x.pc = "patch" =>
                 (Knows(x) <=> /\ x.sections # {}
                               /\ x.sections \subseteq {"models", "agents"}
                               /\ \A s \in x.sections : row.cfg[s] # Absent
                               /\ row.status = "running" /\ pod # "pending"
                               /\ \A s \in x.sections : x.cfg[s] = row.cfg[s])
           /\ x.pc = "full" =>
                 (Knows(x) <=> TRUE)
           /\ x.pc = "fullWrite" =>
                 (Knows(x) <=> x.cfg = Column)
           /\ x.pc = "await" =>
                 (Knows(x) <=> /\ x.bot.cfg = row.cfg /\ x.bot.token = row.token
                               /\ cmd.kind = "ifAbsent" /\ "models" \in x.sections)
           /\ x.pc = "merge" =>
                 (Knows(x) <=> /\ x.bot.cfg = row.cfg /\ x.bot.token = row.token
                               /\ cmd.kind = "ifAbsent")
           /\ x.pc = "mergeWrite" =>
                 (Knows(x) <=> /\ x.bot.cfg = row.cfg /\ x.bot.token = row.token
                               /\ cmd.kind = "ifAbsent")
           /\ x.pc = "channelWrite" =>
                 (Knows(x) <=> /\ x.sections = {"channels"} /\ row.status = "running"
                               /\ pod # "pending")
           /\ x.pc = "rawWrite" =>
                 (Knows(x) <=> row.status = "running" /\ pod # "pending")
           /\ x.pc = "pull" =>
                 (Knows(x) <=> /\ x.sections \subseteq {"channels"} /\ row.status = "running"
                               /\ pod # "pending")
           /\ x.pc = "pullRow" =>
                 (Knows(x) <=> /\ x.sections \subseteq {"channels"} /\ row.status = "running"
                               /\ pod # "pending")
           /\ x.pc = "pullSave" =>
                 (Knows(x) <=> /\ x.sections \subseteq {"channels"} /\ row.status = "running"
                               /\ pod # "pending" /\ x.bot = row)
           /\ x.pc = "reload" =>
                 (Knows(x) <=> /\ x.sections = {"auth"} /\ asked.auth = issued
                               /\ x.more => file # Absent
                               /\ x.cfg.auth = issued /\ pod # "pending")
           /\ x.pc = "resave" =>
                 (Knows(x) <=> /\ x.sections = {"auth"} /\ asked.auth = issued
                               /\ x.more => file # Absent
                               /\ x.cfg.auth = issued /\ pod # "pending" /\ x.bot = row
                               /\ \A s \in Sections \ {"auth"} : x.cfg[s] = row.cfg[s])
           /\ x.pc = "redeploy" =>
                 (Knows(x) <=> /\ x.sections = {"auth"} /\ asked.auth = issued /\ x.more
                               /\ file # Absent /\ pod # "pending" /\ x.bot.token = row.token
                               /\ \A s \in Sections \ {"auth"} : x.cfg[s] = row.cfg[s])
BY DEF Knows, SyncSteps, PullSteps, MergeSteps, FullSteps, ResetSteps, EditSteps

LEMMA KnowsAtNext ==
    ASSUME NEW x
    PROVE  /\ x.pc = "idle" =>
                 (Knows(x)' <=> x = Idle)
           /\ x.pc = "sections" =>
                 (Knows(x)' <=> /\ x.sections # {}
                                /\ x.sections \subseteq {"models", "agents"}
                                /\ \A s \in x.sections : row'.cfg[s] # Absent
                                /\ row'.status = "running" /\ pod' # "pending")
           /\ x.pc = "patch" =>
                 (Knows(x)' <=> /\ x.sections # {}
                                /\ x.sections \subseteq {"models", "agents"}
                                /\ \A s \in x.sections : row'.cfg[s] # Absent
                                /\ row'.status = "running" /\ pod' # "pending"
                                /\ \A s \in x.sections : x.cfg[s] = row'.cfg[s])
           /\ x.pc = "full" =>
                 (Knows(x)' <=> TRUE)
           /\ x.pc = "await" =>
                 (Knows(x)' <=> /\ x.bot.cfg = row'.cfg /\ x.bot.token = row'.token
                                /\ cmd'.kind = "ifAbsent" /\ "models" \in x.sections)
           /\ x.pc = "merge" =>
                 (Knows(x)' <=> /\ x.bot.cfg = row'.cfg /\ x.bot.token = row'.token
                                /\ cmd'.kind = "ifAbsent")
           /\ x.pc = "pull" =>
                 (Knows(x)' <=> /\ x.sections \subseteq {"channels"}
                                /\ row'.status = "running" /\ pod' # "pending")
           /\ x.pc = "reload" =>
                 (Knows(x)' <=> /\ x.sections = {"auth"} /\ asked'.auth = issued'
                                /\ x.more => file' # Absent
                                /\ x.cfg.auth = issued' /\ pod' # "pending")
           /\ x.pc = "redeploy" =>
                 (Knows(x)' <=> /\ x.sections = {"auth"} /\ asked'.auth = issued' /\ x.more
                                /\ file' # Absent /\ pod' # "pending"
                                /\ x.bot.token = row'.token
                                /\ \A s \in Sections \ {"auth"} : x.cfg[s] = row'.cfg[s])
BY DEF Knows, SyncSteps, PullSteps, MergeSteps, FullSteps, ResetSteps, EditSteps

LEMMA OwesAt ==
    ASSUME NEW x
    PROVE  /\ OwesColumn(x) <=> x.pc \in {"pull", "pullRow", "pullSave", "reload", "resave"}
           /\ OwesFile(x) <=>
                 \/ x.pc \in {"sections", "patch", "await", "merge", "mergeWrite", "full",
                              "fullWrite"}
                 \/ x.pc \in {"reload", "resave", "redeploy"} /\ x.more
BY DEF OwesColumn, OwesFile, SyncSteps, PullSteps, MergeSteps, FullSteps, ResetSteps

Holding == {"channelWrite", "rawWrite", "mergeWrite", "pullRow", "pullSave"}

LEMMA HoldsAt ==
    ASSUME NEW x
    PROVE  /\ x.pc \notin Holding => Holds(x) /\ Holds(x)'
           /\ x.pc \in Holding =>
                 (Holds(x) <=> /\ file # Absent
                               /\ Kept \subseteq Changing(x) \cup Matching(x.cfg, asked)
                               /\ Stale \cap Matching(x.cfg, asked) \subseteq Changing(x)
                               /\ x.pc = "channelWrite" /\ "channels" \in Kept =>
                                     x.cfg.channels = WithAccount(x))
           /\ x.pc \in Holding \ {"channelWrite"} =>
                 (Holds(x) <=> /\ file # Absent
                               /\ Kept \subseteq Changing(x) \cup Matching(x.cfg, asked)
                               /\ Stale \cap Matching(x.cfg, asked) \subseteq Changing(x))
BY DEF Holds, Holding

LEMMA ChangingAt ==
    ASSUME NEW x
    PROVE  /\ x.pc = "channelWrite" => Changing(x) = {"channels"}
           /\ x.pc = "rawWrite" => Changing(x) = x.sections
           /\ x.pc = "mergeWrite" => Changing(x) = x.sections \ {"models"}
           /\ x.pc \in {"pullRow", "pullSave"} => Changing(x) = {}
BY DEF Changing

(***************************************************************************)
(* Who is alone                                                            *)
(***************************************************************************)
Solo(f) == \A g \in Flows \ {f} : flow[g] = Idle

LEMMA IdleKnows ==
    /\ Idle.pc = "idle" /\ Idle.sections = {}
    /\ Knows(Idle) /\ Holds(Idle) /\ ~OwesColumn(Idle) /\ ~OwesFile(Idle) /\ ~IsSync(Idle)
<1>1. Idle.pc = "idle" /\ Idle.sections = {}
  BY DEF Idle
<1> QED BY <1>1 DEF Knows, Holds, OwesColumn, OwesFile, IsSync, SyncSteps, PullSteps,
           MergeSteps, FullSteps, ResetSteps, EditSteps

\* Inv of one flow.
LEMMA FlowInv ==
    ASSUME Inv, NEW f \in Flows
    PROVE  Knows(flow[f]) /\ Holds(flow[f])
BY DEF Inv

\* A flow that has begun to do more than a sync has no other beside it.
LEMMA MainAlone ==
    ASSUME Inv, NEW f \in Flows, flow[f].pc \notin {"idle", "read"}, ~IsSync(flow[f])
    PROVE  Solo(f)
<1>1. SUFFICES ASSUME NEW g \in Flows \ {f} PROVE flow[g] = Idle
  BY DEF Solo
<1>2. flow[g].pc = "idle"
  BY DEF Inv, Company
<1> QED BY <1>2, FlowInv DEF Knows

LEMMA ReadAlone ==
    ASSUME Inv, NEW f \in Flows, NEW sections, Alone(f, sections),
           {"models", "agents"} \subseteq sections
    PROVE  Solo(f)
<1>1. SUFFICES ASSUME NEW g \in Flows \ {f} PROVE flow[g] = Idle
  BY DEF Solo
<1>2. flow[g].pc \in SyncSteps => flow[g].sections \cap sections # {}
  BY FlowInv DEF Knows
<1> QED BY <1>2 DEF Alone, SyncSteps

\* What a handler has found when it decides.
LEMMA Handled ==
    ASSUME IInv, Inv, NEW f \in Flows, NEW op, NEW sections, Handles(f, op, sections)
    PROVE  /\ flow[f].pc = "read" /\ Bot(f) = row /\ pod # "pending"
           /\ Running(f) <=> row.status = "running"
           /\ Running(f) => file # Absent
           /\ {"models", "agents"} \subseteq sections => Solo(f)
<1>1. flow[f].pc = "read" /\ Bot(f) = row /\ pod # "pending"
  <2>1. flow[f].pc = "read" /\ Knows(flow[f])
    BY FlowInv DEF Handles, At
  <2> QED BY <2>1 DEF Knows, Bot, MergeSteps, FullSteps
<1>2. Running(f) <=> row.status = "running"
  BY <1>1 DEF Running
<1>3. row.status = "running" => file # Absent
  BY <1>1 DEF Inv, HasDeployment, Unwritten
<1> QED BY <1>1, <1>2, <1>3, ReadAlone DEF Handles

\* A pod that can be reached has a file.
LEMMA ReadyFile ==
    ASSUME Inv, Ready
    PROVE  file # Absent /\ OnFile = file
BY DEF Inv, Unwritten, Ready, OnFile

\* A step of ConfigContract: what is as asked in both places stays so, unless it
\* is asked for anew or lost.
Stays ==
    /\ \A s \in InFile \cap InColumn :
          asked'[s] = asked[s] => s \in lost' \cup (InFile' \cap InColumn')
    /\ lost \subseteq lost' \cup (InFile' \cap InColumn')

(***************************************************************************)
(* What a flow that is alone owes, and what it leaves                      *)
(***************************************************************************)
LEMMA SoloOwes ==
    ASSUME Inv, NEW f \in Flows, Solo(f), NEW s \in Sections, s \notin lost
    PROVE  /\ s \in InColumn \/ (OwesColumn(flow[f]) /\ s \in flow[f].sections)
           /\ file # Absent =>
                 \/ s \in InFile
                 \/ OwesFile(flow[f]) /\ s \in flow[f].sections
                 \/ row.status # "running" /\ s = "models"
                 \/ cmd.kind = "always" /\ pod = "pending"
<1>1. \A g \in Flows : (OwesColumn(flow[g]) \/ OwesFile(flow[g])) => g = f
  BY IdleKnows DEF Solo
<1>2. s \in InColumn \cup OwedToColumn /\ (file # Absent => s \in InFile \cup OwedToFile)
  BY DEF Inv, ColumnKept, FileKept
<1> QED BY <1>1, <1>2 DEF OwedToColumn, OwedToFile

LEMMA SoloNext ==
    ASSUME FlowOK, NEW f \in Flows, NEW x, Solo(f), flow' = [flow EXCEPT ![f] = x],
           Knows(x)', Holds(x)', Tokens', Unwritten', Undone', HasDeployment',
           \A s \in Sections : s \notin lost' =>
              /\ s \in InColumn' \/ (OwesColumn(x) /\ s \in x.sections)
              /\ file' # Absent =>
                    \/ s \in InFile'
                    \/ OwesFile(x) /\ s \in x.sections
                    \/ row'.status # "running" /\ s = "models"
                    \/ cmd'.kind = "always" /\ pod' = "pending"
    PROVE  Inv'
<1>1. flow'[f] = x /\ \A g \in Flows \ {f} : flow'[g] = Idle
  BY DEF FlowOK, Solo
<1>2. Company'
  BY <1>1, IdleKnows DEF Company
<1>3. \A g \in Flows : Knows(flow[g])' /\ Holds(flow[g])'
  <2>1. Idle.pc = "idle"
    BY IdleKnows
  <2>2. Knows(Idle)' /\ Holds(Idle)'
    BY <2>1 DEF Knows, Holds, SyncSteps, PullSteps, MergeSteps, FullSteps, ResetSteps, EditSteps
  <2>3. SUFFICES ASSUME NEW g \in Flows PROVE Knows(flow[g])' /\ Holds(flow[g])'
    OBVIOUS
  <2>4. CASE g = f
    BY <1>1, <2>4 DEF Knows, Holds
  <2>5. CASE g # f
    <3>1. flow'[g] = Idle
      BY <1>1, <2>5
    <3> QED BY <2>2, <3>1 DEF Knows, Holds
  <2> QED BY <2>4, <2>5
<1>4. ColumnKept'
  <2>1. SUFFICES ASSUME NEW s \in Sections, s \notin lost'
                 PROVE  s \in InColumn' \/ s \in OwedToColumn'
    BY DEF ColumnKept
  <2>2. CASE OwesColumn(x) /\ s \in x.sections
    BY <1>1, <2>2 DEF OwedToColumn, OwesColumn
  <2> QED BY <2>1, <2>2
<1>5. FileKept'
  <2>1. SUFFICES ASSUME file' # Absent, NEW s \in Sections, s \notin lost'
                 PROVE  s \in InFile' \/ s \in OwedToFile'
    BY DEF FileKept
  <2>2. CASE OwesFile(x) /\ s \in x.sections
    BY <1>1, <2>2 DEF OwedToFile, OwesFile
  <2>3. CASE \/ row'.status # "running" /\ s = "models"
             \/ cmd'.kind = "always" /\ pod' = "pending"
    BY <2>3 DEF OwedToFile
  <2> QED BY <2>1, <2>2, <2>3
<1> QED BY <1>2, <1>3, <1>4, <1>5 DEF Inv

(***************************************************************************)
(* Steps that change a flow and nothing else                               *)
(***************************************************************************)
LEMMA CompanyNext ==
    ASSUME FlowOK, Inv, NEW f \in Flows, NEW x, flow' = [flow EXCEPT ![f] = x],
           \/ Solo(f)
           \/ x.pc = "idle"
           \/ IsSync(flow[f]) /\ IsSync(x) /\ x.sections = flow[f].sections
    PROVE  Company'
<1>1. flow'[f] = x /\ \A g \in Flows \ {f} : flow'[g] = flow[g]
  BY DEF FlowOK
<1>2. CASE Solo(f)
  BY <1>1, <1>2, IdleKnows DEF Company, Solo
<1>3. CASE x.pc = "idle"
  BY <1>1, <1>3 DEF Company, Inv, IsSync
<1>4. CASE IsSync(flow[f]) /\ IsSync(x) /\ x.sections = flow[f].sections
  <2>1. flow[f].pc \notin {"idle", "read"} /\ x.pc \notin {"idle", "read"}
    BY <1>4 DEF IsSync
  <2>2. \A g \in Flows \ {f} : flow[g].pc # "idle" =>
           \/ flow[g].pc = "read"
           \/ IsSync(flow[g]) /\ flow[g].sections \cap x.sections = {}
    BY <1>4, <2>1 DEF Company, Inv
  <2>3. \A g, h \in Flows \ {f} : g # h /\ flow[g].pc # "idle" /\ flow[h].pc # "idle" =>
           \/ IsSync(flow[g]) /\ flow[h].pc = "read"
           \/ IsSync(flow[h]) /\ flow[g].pc = "read"
           \/ /\ IsSync(flow[g]) /\ IsSync(flow[h])
              /\ flow[g].sections \cap flow[h].sections = {}
    BY DEF Company, Inv
  <2>4. SUFFICES ASSUME NEW g \in Flows, NEW h \in Flows, g # h, flow'[g].pc # "idle",
                        flow'[h].pc # "idle"
                 PROVE  \/ IsSync(flow'[g]) /\ flow'[h].pc = "read"
                        \/ IsSync(flow'[h]) /\ flow'[g].pc = "read"
                        \/ /\ IsSync(flow'[g]) /\ IsSync(flow'[h])
                           /\ flow'[g].sections \cap flow'[h].sections = {}
    BY DEF Company, IsSync
  <2>5. CASE g = f
    BY <1>1, <1>4, <2>2, <2>4, <2>5
  <2>6. CASE h = f
    BY <1>1, <1>4, <2>2, <2>4, <2>6
  <2>7. CASE g # f /\ h # f
    BY <1>1, <2>3, <2>4, <2>7
  <2> QED BY <2>5, <2>6, <2>7
<1> QED BY <1>2, <1>3, <1>4

\* Everything but what the flows hold and what is lost.
world == <<row, file, cmd, pod, old, issued, asked>>

LEMMA FlowOnly ==
    ASSUME FlowOK, Inv, NEW f \in Flows, NEW x, flow' = [flow EXCEPT ![f] = x],
           UNCHANGED world, lost \subseteq lost', Company', Knows(x), Holds(x),
           \A s \in flow[f].sections \ lost' :
              /\ OwesColumn(flow[f]) => OwesColumn(x) /\ s \in x.sections
              /\ OwesFile(flow[f]) => OwesFile(x) /\ s \in x.sections
    PROVE  Inv' /\ Stays
<1>1. flow'[f] = x /\ \A g \in Flows \ {f} : flow'[g] = flow[g]
  BY DEF FlowOK
<1>2. /\ InColumn' = InColumn /\ InFile' = InFile /\ Stale' = Stale /\ Column' = Column
  BY DEF world, InColumn, InFile, Stale, Column
<1>3. ASSUME NEW y, Knows(y), Holds(y)
      PROVE  Knows(y)' /\ Holds(y)'
  <2>1. Knows(y)'
    BY <1>2, <1>3 DEF Knows, world
  <2>2. Holds(y)'
    BY <1>2, <1>3 DEF Holds, Kept, Changing, WithAccount, world
  <2> QED BY <2>1, <2>2
<1>4. \A g \in Flows : Knows(flow[g])' /\ Holds(flow[g])'
  <2>1. SUFFICES ASSUME NEW g \in Flows PROVE Knows(flow[g])' /\ Holds(flow[g])'
    OBVIOUS
  <2>2. PICK y : y = flow'[g]
    OBVIOUS
  <2>3. Knows(y) /\ Holds(y)
    <3>1. CASE g = f
      BY <1>1, <2>2, <3>1
    <3>2. CASE g # f
      BY <1>1, <2>2, <3>2, FlowInv
    <3> QED BY <3>1, <3>2
  <2>4. Knows(y)' /\ Holds(y)'
    BY <1>3, <2>3
  <2> QED BY <2>2, <2>4 DEF Knows, Holds
<1>5. Tokens' /\ Unwritten' /\ Undone' /\ HasDeployment'
  <2>1. Tokens' /\ HasDeployment'
    BY DEF Inv, Tokens, HasDeployment, world
  <2>2. Unwritten'
    BY DEF Inv, Unwritten, world
  <2>3. Undone'
    BY <1>2 DEF Inv, Undone, world
  <2> QED BY <2>1, <2>2, <2>3
<1>6. ASSUME NEW s \in Sections, s \notin lost'
      PROVE  /\ s \in OwedToColumn => s \in OwedToColumn'
             /\ s \in OwedToFile => s \in OwedToFile'
  <2>1. ASSUME NEW g \in Flows, OwesColumn(flow[g]), s \in flow[g].sections
        PROVE  OwesColumn(flow'[g]) /\ s \in flow'[g].sections
    BY <1>1, <1>6, <2>1
  <2>2. ASSUME NEW g \in Flows, OwesFile(flow[g]), s \in flow[g].sections
        PROVE  OwesFile(flow'[g]) /\ s \in flow'[g].sections
    BY <1>1, <1>6, <2>2
  <2>3. s \in OwedToColumn => s \in OwedToColumn'
    BY <2>1 DEF OwedToColumn, OwesColumn
  <2>4. s \in OwedToFile => s \in OwedToFile'
    BY <2>2 DEF OwedToFile, OwesFile, world
  <2> QED BY <2>3, <2>4
<1>7. ColumnKept' /\ FileKept'
  <2>1. ColumnKept'
    BY <1>2, <1>6 DEF Inv, ColumnKept
  <2>2. FileKept'
    BY <1>2, <1>6 DEF Inv, FileKept, world
  <2> QED BY <2>1, <2>2
<1> QED BY <1>2, <1>4, <1>5, <1>7 DEF Inv, Stays

LEMMA ArriveInv ==
    ASSUME IInv, Inv, NEW f \in Flows, Arrive(f)
    PROVE  Inv' /\ Stays
<1>1. PICK x : x = [Idle EXCEPT !.pc = "read", !.bot = row]
  OBVIOUS
<1>2. x.pc = "read" /\ x.bot = row /\ flow' = [flow EXCEPT ![f] = x]
  BY <1>1 DEF Arrive, Idle
<1>3. FlowOK /\ flow[f] = Idle
  BY PartsOfIInv DEF Arrive
<1>4. flow'[f] = x /\ \A g \in Flows \ {f} : flow'[g] = flow[g]
  BY <1>2, <1>3 DEF FlowOK
<1>5. Company'
  <2>1. \A g \in Flows \ {f} : flow[g] = Idle \/ IsSync(flow[g])
    BY DEF Arrive, Alone, IsSync
  <2>2. \A g \in Flows \ {f} : flow'[g].pc # "idle" => IsSync(flow'[g])
    BY <1>4, <2>1, IdleKnows
  <2>3. Company
    BY DEF Inv
  <2>4. SUFFICES ASSUME NEW g \in Flows, NEW h \in Flows, g # h, flow'[g].pc # "idle",
                        flow'[h].pc # "idle"
                 PROVE  \/ IsSync(flow'[g]) /\ flow'[h].pc = "read"
                        \/ IsSync(flow'[h]) /\ flow'[g].pc = "read"
                        \/ /\ IsSync(flow'[g]) /\ IsSync(flow'[h])
                           /\ flow'[g].sections \cap flow'[h].sections = {}
    BY DEF Company, IsSync
  <2>5. CASE g = f \/ h = f
    BY <1>2, <1>4, <2>2, <2>4, <2>5
  <2>6. CASE g # f /\ h # f
    BY <1>4, <2>3, <2>4, <2>6 DEF Company
  <2> QED BY <2>5, <2>6
<1>6. Knows(x) /\ Holds(x)
  BY <1>2, KnowsAt, HoldsAt DEF Arrive, Settled, Holding
<1>7. ~OwesColumn(flow[f]) /\ ~OwesFile(flow[f])
  BY <1>3, IdleKnows
<1> QED BY <1>2, <1>3, <1>5, <1>6, <1>7, FlowOnly DEF Arrive, world, pods

\* A request that is done, or that fails before it has changed anything.
LEMMA EndsInv ==
    ASSUME FlowOK, Inv, NEW f \in Flows, Done(f), UNCHANGED world, lost \subseteq lost',
           \/ flow[f].pc \in {"read", "channelWrite", "rawWrite"}
           \/ flow[f].sections \subseteq lost'
    PROVE  Inv' /\ Stays
<1>1. flow' = [flow EXCEPT ![f] = Idle]
  BY DEF Done
<1>2. Company'
  BY <1>1, CompanyNext, IdleKnows
<1>3. CASE flow[f].pc \in {"read", "channelWrite", "rawWrite"}
  BY <1>1, <1>2, <1>3, FlowOnly, IdleKnows, OwesAt
<1>4. CASE flow[f].sections \subseteq lost'
  BY <1>1, <1>2, <1>4, FlowOnly, IdleKnows
<1> QED BY <1>3, <1>4

LEMMA TouchBotInv ==
    ASSUME IInv, Inv, NEW f \in Flows, TouchBot(f)
    PROVE  Inv' /\ Stays
<1>1. flow[f].pc = "read" /\ Bot(f) = row
  BY Handled DEF TouchBot
<1> QED BY <1>1, EndsInv, PartsOfIInv DEF TouchBot, world, pods

\* Errors that are logged: what the step carried is lost.
LEMMA FailsInv ==
    ASSUME IInv, Inv, NEW f \in Flows, WaitExpires(f) \/ CallFails(f) \/ EditFails(f)
    PROVE  Inv' /\ Stays
<1>1. CASE WaitExpires(f) \/ CallFails(f)
  BY <1>1, EndsInv, PartsOfIInv DEF WaitExpires, CallFails, GiveUp, world, pods
<1>2. CASE EditFails(f)
  BY <1>2, EndsInv, PartsOfIInv DEF EditFails, world, pods
<1> QED BY <1>1, <1>2

LEMMA ReloadBotInv ==
    ASSUME IInv, Inv, NEW f \in Flows, ReloadBot(f)
    PROVE  Inv' /\ Stays
<1>1. FlowOK /\ flow[f] \in Flow /\ row.cfg \in Config
  BY FlowFields, ColumnType, PartsOfIInv
<1>2. PICK c : c = [Typed(row.cfg) EXCEPT !.auth = flow[f].cfg.auth]
  OBVIOUS
<1>3. c.auth = flow[f].cfg.auth /\ \A s \in Sections \ {"auth"} : c[s] = row.cfg[s]
  BY <1>1, <1>2, TypedSections DEF Typed, Config, Sections
<1>4. PICK x : x = [flow[f] EXCEPT !.pc = "resave", !.bot = row, !.cfg = c]
  OBVIOUS
<1>5. /\ x.pc = "resave" /\ x.bot = row /\ x.cfg = c /\ x.sections = flow[f].sections
      /\ x.more = flow[f].more
  BY <1>1, <1>4 DEF Flow
<1>6. flow' = [flow EXCEPT ![f] = x]
  BY <1>1, <1>2, <1>4 DEF ReloadBot, FlowOK
<1>7. flow[f].pc = "reload" /\ Knows(flow[f])
  BY FlowInv DEF ReloadBot, At
<1>8. Knows(x) /\ Holds(x)
  BY <1>3, <1>5, <1>7, KnowsAt, HoldsAt DEF Holding
<1>9. Company'
  BY <1>1, <1>6, <1>7, MainAlone, CompanyNext DEF IsSync
<1>10. \A s \in flow[f].sections \ lost' :
          /\ OwesColumn(flow[f]) => OwesColumn(x) /\ s \in x.sections
          /\ OwesFile(flow[f]) => OwesFile(x) /\ s \in x.sections
  BY <1>5, <1>7, OwesAt
<1> QED BY <1>1, <1>6, <1>8, <1>9, <1>10, FlowOnly DEF ReloadBot, world, pods

\* A failed save of the token: the reset goes on, or ends.
LEMMA SaveTokenFailsInv ==
    ASSUME IInv, Inv, NEW f \in Flows, SaveTokenFails(f)
    PROVE  Inv' /\ Stays
<1>1. FlowOK /\ flow[f] \in Flow
  BY FlowFields, PartsOfIInv
<1>2. flow[f].pc = "resave" /\ Knows(flow[f]) /\ flow[f].sections = {"auth"}
  BY FlowInv, KnowsAt DEF SaveTokenFails, At
<1>3. UNCHANGED world /\ lost' = lost \cup {"auth"} /\ Redeploys(f)
  BY DEF SaveTokenFails, world, pods
<1>4. CASE ~flow[f].more
  BY <1>1, <1>2, <1>3, <1>4, EndsInv DEF Redeploys
<1>5. CASE flow[f].more
  <2>1. PICK x : x = [flow[f] EXCEPT !.pc = "redeploy"]
    OBVIOUS
  <2>2. /\ x.pc = "redeploy" /\ x.bot = flow[f].bot /\ x.cfg = flow[f].cfg
        /\ x.sections = flow[f].sections /\ x.more
    BY <1>1, <1>5, <2>1 DEF Flow
  <2>3. flow' = [flow EXCEPT ![f] = x]
    BY <1>1, <1>3, <1>5, <2>1 DEF Redeploys, FlowOK
  <2>4. /\ asked.auth = issued /\ file # Absent /\ pod # "pending"
        /\ flow[f].bot.token = row.token
        /\ \A s \in Sections \ {"auth"} : flow[f].cfg[s] = row.cfg[s]
    BY <1>2, <1>5, KnowsAt
  <2>5. Knows(x) /\ Holds(x)
    BY <1>2, <1>5, <2>2, <2>4, KnowsAt, HoldsAt DEF Holding
  <2>6. Company'
    BY <1>1, <1>2, <2>3, MainAlone, CompanyNext DEF IsSync
  <2> QED BY <1>1, <1>2, <1>3, <2>3, <2>5, <2>6, FlowOnly
<1> QED BY <1>4, <1>5

\* A request that has found the bot running and its pod settled finds in the file
\* what is not lost, and nothing there that a start would undo.
LEMMA RunningFile ==
    ASSUME IInv, Inv, NEW f \in Flows, NEW op, Handles(f, op, Sections), Running(f)
    PROVE  /\ file # Absent /\ InFile = Matching(file, asked)
           /\ Kept \subseteq InFile /\ Stale \cap InFile = {}
<1>1. /\ flow[f].pc = "read" /\ pod # "pending" /\ row.status = "running"
      /\ file # Absent /\ Solo(f)
  BY Handled DEF Sections
<1>2. \A s \in Sections \ lost : s \in InFile
  BY <1>1, SoloOwes, OwesAt
<1>3. Stale \cap InFile = {}
  BY <1>1 DEF Inv, Undone
<1> QED BY <1>1, <1>2, <1>3 DEF Kept, InFile

LEMMA EditChannelsInv ==
    ASSUME IInv, Inv, NEW f \in Flows, NEW op, ReadFile(f, op), NEW a, NEW c \in Config,
           EditChannels(f, a, c), \A s \in Sections \ {"channels"} : c[s] = file[s],
           a \in c.channels => c.channels = file.channels \cup {a},
           a \notin c.channels => c.channels = file.channels \ {a}
    PROVE  Inv' /\ Stays
<1>1. PICK x : x = [Idle EXCEPT !.pc = "channelWrite", !.sections = {"channels"},
                                !.account = a, !.cfg = c]
  OBVIOUS
<1>2. x.pc = "channelWrite" /\ x.sections = {"channels"} /\ x.account = a /\ x.cfg = c
  BY <1>1 DEF Idle
<1>3. /\ FlowOK /\ flow' = [flow EXCEPT ![f] = x] /\ UNCHANGED world /\ lost' = lost
  BY <1>1, PartsOfIInv DEF EditChannels, world, pods
<1>4. /\ flow[f].pc = "read" /\ pod # "pending" /\ row.status = "running" /\ Solo(f)
      /\ file # Absent /\ InFile = Matching(file, asked)
      /\ Kept \subseteq InFile /\ Stale \cap InFile = {}
  BY Handled, RunningFile DEF ReadFile, Sections
<1>5. Knows(x)
  BY <1>2, <1>4, KnowsAt
<1>6. \A s \in Sections \ {"channels"} :
         s \in Matching(c, asked) <=> s \in Matching(file, asked)
  BY SameSection
<1>7. "channels" \in Kept => c.channels = WithAccount(x)
  BY <1>2, <1>4, MatchingBy DEF WithAccount
<1>8. Holds(x)
  <2>1. Changing(x) = {"channels"}
    BY <1>2, ChangingAt
  <2>2. Kept \subseteq Sections /\ Stale \subseteq Sections
    BY <1>4, MatchingBy DEF Stale
  <2>3. Kept \subseteq Changing(x) \cup Matching(c, asked)
    BY <1>4, <1>6, <2>1, <2>2
  <2>4. Stale \cap Matching(c, asked) \subseteq Changing(x)
    BY <1>4, <1>6, <2>1, <2>2
  <2> QED BY <1>2, <1>4, <1>7, <2>3, <2>4, HoldsAt DEF Holding
<1>9. Company' /\ ~OwesColumn(flow[f]) /\ ~OwesFile(flow[f])
  BY <1>3, <1>4, CompanyNext, OwesAt
<1> QED BY <1>3, <1>5, <1>8, <1>9, FlowOnly

LEMMA ChannelInv ==
    ASSUME IInv, Inv, NEW f \in Flows, NEW a \in Accounts,
           AddChannelToBot(f, a) \/ RemoveChannelFromBot(f, a)
    PROVE  Inv' /\ Stays
<1>1. OnFile = file /\ file \in Config
  BY ReadyFile, OnFileType, PartsOfIInv
     DEF AddChannelToBot, RemoveChannelFromBot, ReadFile
<1>2. CASE AddChannelToBot(f, a)
  <2>1. PICK c : c = [file EXCEPT !.channels = file.channels \cup {a}]
    OBVIOUS
  <2>2. /\ c \in Config /\ c.channels = file.channels \cup {a}
        /\ \A s \in Sections \ {"channels"} : c[s] = file[s]
    BY <1>1, <2>1 DEF Config, Sections
  <2>3. EditChannels(f, a, c) /\ ReadFile(f, "addChannel")
    BY <1>1, <1>2, <2>1 DEF AddChannelToBot, Config
  <2> QED BY <2>2, <2>3, EditChannelsInv
<1>3. CASE RemoveChannelFromBot(f, a)
  <2>1. PICK c : c = [file EXCEPT !.channels = file.channels \ {a}]
    OBVIOUS
  <2>2. /\ c \in Config /\ c.channels = file.channels \ {a}
        /\ \A s \in Sections \ {"channels"} : c[s] = file[s]
    BY <1>1, <2>1 DEF Config, Sections
  <2>3. EditChannels(f, a, c) /\ ReadFile(f, "removeChannel")
    BY <1>1, <1>3, <2>1 DEF RemoveChannelFromBot, Config
  <2> QED BY <2>2, <2>3, EditChannelsInv
<1> QED BY <1>2, <1>3

LEMMA EditRawInv ==
    ASSUME IInv, Inv, NEW f \in Flows, NEW op, Handles(f, op, Sections), Running(f),
           NEW c \in Config, NEW sections \in SUBSET Sections, EditRaw(f, c, sections),
           \A s \in Sections \ sections : c[s] = file[s]
    PROVE  Inv' /\ Stays
<1>1. PICK x : x = [Idle EXCEPT !.pc = "rawWrite", !.cfg = c, !.sections = sections]
  OBVIOUS
<1>2. x.pc = "rawWrite" /\ x.sections = sections /\ x.cfg = c
  BY <1>1 DEF Idle
<1>3. /\ FlowOK /\ flow' = [flow EXCEPT ![f] = x] /\ UNCHANGED world /\ lost' = lost
  BY <1>1, PartsOfIInv DEF EditRaw, world, pods
<1>4. /\ flow[f].pc = "read" /\ pod # "pending" /\ row.status = "running" /\ Solo(f)
      /\ file # Absent /\ InFile = Matching(file, asked)
      /\ Kept \subseteq InFile /\ Stale \cap InFile = {}
  BY Handled, RunningFile DEF Sections
<1>5. Knows(x)
  BY <1>2, <1>4, KnowsAt
<1>6. \A s \in Sections \ sections : s \in Matching(c, asked) <=> s \in Matching(file, asked)
  BY SameSection
<1>7. Holds(x)
  <2>1. Changing(x) = sections
    BY <1>2, ChangingAt
  <2>2. Kept \subseteq Sections /\ Stale \subseteq Sections
    BY <1>4, MatchingBy DEF Stale
  <2>3. Kept \subseteq Changing(x) \cup Matching(c, asked)
    BY <1>4, <1>6, <2>1, <2>2
  <2>4. Stale \cap Matching(c, asked) \subseteq Changing(x)
    BY <1>4, <1>6, <2>1, <2>2
  <2> QED BY <1>2, <1>4, <2>3, <2>4, HoldsAt DEF Holding
<1>8. Company' /\ ~OwesColumn(flow[f]) /\ ~OwesFile(flow[f])
  BY <1>3, <1>4, CompanyNext, OwesAt
<1> QED BY <1>3, <1>5, <1>7, <1>8, FlowOnly

LEMMA RawInv ==
    ASSUME IInv, Inv, NEW f \in Flows, NEW c \in Inputs, RawMerge(f, c) \/ RawReplace(f, c)
    PROVE  Inv' /\ Stays
<1>1. c \in Config
  BY ConstantsOK
<1>2. CASE RawMerge(f, c)
  <2>1. OnFile = file /\ file \in Config
    BY <1>2, ReadyFile, OnFileType, PartsOfIInv DEF RawMerge, ReadFile
  <2>2. RawSections(c) \in SUBSET Sections
    BY ZenonT(20) DEF RawSections
  <2>3. MergeMap(file, c) \in Config
    BY <1>1, <2>1, MergeMapType
  <2>4. \A s \in Sections \ RawSections(c) : MergeMap(file, c)[s] = file[s]
    BY <1>1, <2>1, MergeMapSections
  <2> QED BY <1>2, <2>1, <2>2, <2>3, <2>4, EditRawInv DEF RawMerge, ReadFile
<1>3. CASE RawReplace(f, c)
  BY <1>1, <1>3, SetTypes, EditRawInv DEF RawReplace
<1> QED BY <1>2, <1>3

LEMMA GetBotInv ==
    ASSUME IInv, Inv, NEW f \in Flows, GetBot(f)
    PROVE  Inv' /\ Stays
<1>1. PICK x : x = [Idle EXCEPT !.pc = "pull", !.sections = {}, !.more = FALSE]
  OBVIOUS
<1>2. x.pc = "pull" /\ x.sections = {}
  BY <1>1 DEF Idle
<1>3. FlowOK /\ flow' = [flow EXCEPT ![f] = x] /\ UNCHANGED world /\ lost' = lost
  BY <1>1, PartsOfIInv DEF GetBot, Carry, world, pods
<1>4. flow[f].pc = "read" /\ pod # "pending" /\ row.status = "running" /\ Solo(f)
  BY Handled DEF GetBot, ReadFile, Sections
<1>5. Knows(x) /\ Holds(x)
  BY <1>2, <1>4, KnowsAt, HoldsAt DEF Holding
<1>6. Company' /\ ~OwesColumn(flow[f]) /\ ~OwesFile(flow[f])
  BY <1>3, <1>4, CompanyNext, OwesAt
<1> QED BY <1>3, <1>5, <1>6, FlowOnly

LEMMA SectionsReadInv ==
    ASSUME IInv, Inv, NEW f \in Flows, SectionsRead(f)
    PROVE  Inv' /\ Stays
<1>1. FlowOK /\ flow[f] \in Flow
  BY FlowFields, PartsOfIInv
<1>2. PICK c : c = Typed(row.cfg)
  OBVIOUS
<1>3. PICK x : x = [flow[f] EXCEPT !.pc = "patch", !.cfg = c]
  OBVIOUS
<1>4. /\ x.pc = "patch" /\ x.cfg = c /\ x.sections = flow[f].sections
      /\ x.more <=> flow[f].more
  BY <1>1, <1>3 DEF Flow
<1>5. flow[f].pc = "sections" /\ Knows(flow[f])
  BY FlowInv DEF SectionsRead, At
<1>6. /\ x.sections # {} /\ x.sections \subseteq {"models", "agents"}
      /\ row.status = "running" /\ pod # "pending"
      /\ \A s \in x.sections : row.cfg[s] # Absent
  BY <1>4, <1>5, KnowsAt
<1>7. \A s \in x.sections : c[s] = row.cfg[s]
  BY <1>2, <1>6, TypedSections, ColumnType, PartsOfIInv DEF Sections
<1>8. Knows(x) /\ Holds(x)
  BY <1>4, <1>6, <1>7, KnowsAt, HoldsAt DEF Holding
<1>9. Solo(f) \/ (IsSync(flow[f]) /\ IsSync(x))
  BY <1>4, <1>5, MainAlone DEF IsSync
<1>10. ~OwesColumn(flow[f]) /\ OwesFile(x)
  BY <1>4, <1>5, OwesAt
<1>11. flow' = [flow EXCEPT ![f] = x] /\ UNCHANGED world /\ lost' = lost
  BY <1>1, <1>2, <1>3 DEF SectionsRead, Hold, FlowOK, world, pods
<1>12. Company'
  BY <1>1, <1>4, <1>8, <1>9, <1>10, <1>11, CompanyNext
<1> QED BY <1>1, <1>4, <1>8, <1>9, <1>10, <1>11, <1>12, FlowOnly

LEMMA FullReadInv ==
    ASSUME IInv, Inv, NEW f \in Flows, FullRead(f)
    PROVE  Inv' /\ Stays
<1>1. FlowOK /\ flow[f] \in Flow
  BY FlowFields, PartsOfIInv
<1>2. PICK x : x = [flow[f] EXCEPT !.pc = "fullWrite", !.cfg = Column]
  OBVIOUS
<1>3. x.pc = "fullWrite" /\ x.cfg = Column /\ x.sections = flow[f].sections
  BY <1>1, <1>2 DEF Flow
<1>4. flow[f].pc = "full"
  BY DEF FullRead, At
<1>5. Knows(x) /\ Holds(x) /\ ~OwesColumn(flow[f]) /\ OwesFile(x)
  BY <1>3, <1>4, KnowsAt, HoldsAt, OwesAt DEF Holding
<1>6. Solo(f)
  BY <1>4, MainAlone DEF IsSync
<1>7. flow' = [flow EXCEPT ![f] = x] /\ UNCHANGED world /\ lost' = lost
  BY <1>1, <1>2 DEF FullRead, Hold, FlowOK, world, pods
<1>8. Company'
  BY <1>1, <1>3, <1>5, <1>6, <1>7, CompanyNext
<1> QED BY <1>1, <1>3, <1>5, <1>6, <1>7, <1>8, FlowOnly

\* The row, section by section, in the column that stands for it.
LEMMA ColumnFits ==
    ASSUME ColumnOK, NEW s \in Sections \ {"auth"}
    PROVE  s \in InColumn <=> s \in Matching(row.cfg, asked)
<1>1. Column[s] = row.cfg[s]
  BY GatewayAuthSections, ColumnType DEF Column
<1> QED BY <1>1, SameSection DEF InColumn

\* A merge of the row over a file: the models of the row, and of the other sections
\* what was in the file and in the row.
LEMMA MergedHolds ==
    ASSUME IInv, Inv, NEW f \in Flows, flow[f].pc = "merge", Ready, NEW c \in Config,
           NEW x, x.pc = "mergeWrite",
           x.cfg = MergeConfigForModels(c, ConvertToK8sConfig(Bot(f))),
           flow[f].sections \subseteq x.sections,
           \A s \in Sections \ {"models"} : s \in InFile => s \in x.sections \cup Matching(c, asked)
    PROVE  Holds(x)
<1>1. Bot(f).cfg = row.cfg /\ cmd.kind = "ifAbsent" /\ Solo(f)
  BY FlowInv, KnowsAt, MainAlone DEF Bot, IsSync
<1>2. ColumnOK /\ Bot(f) \in Row /\ asked \in Wishes
  BY FlowFields, PartsOfIInv DEF AskedOK, Wishes
<1>3. file # Absent /\ Stale = {}
  BY <1>1, ReadyFile DEF Stale
<1>4. \A s \in Kept : s \in Sections /\ s \in InColumn
  BY <1>1, SoloOwes, OwesAt, MatchingBy DEF Kept, InColumn
<1>5. \A s \in Kept : s = "models" \/ s \in InFile \/ s \in flow[f].sections
  BY <1>1, <1>3, SoloOwes DEF Kept
<1>6. \A s \in Sections \ {"auth"} : s \in InColumn => s \in Matching(Bot(f).cfg, asked)
  BY <1>1, <1>2, ColumnFits
<1>7. Changing(x) = x.sections \ {"models"}
  BY ChangingAt
<1>8. Kept \subseteq Changing(x) \cup Matching(x.cfg, asked)
  <2>1. SUFFICES ASSUME NEW s \in Kept, s \notin x.sections \ {"models"}
                 PROVE  s \in Matching(x.cfg, asked)
    BY <1>7
  <2>2. CASE s = "models"
    <3>1. "models" \in Matching(Bot(f).cfg, asked)
      BY <1>4, <1>6, <2>2 DEF Sections
    <3> QED BY <1>2, <2>2, <3>1, MergeFits
  <2>3. CASE s # "models"
    <3>1. s \in Sections \ {"models"} /\ s \in Matching(c, asked)
      BY <1>4, <1>5, <2>1, <2>3
    <3>2. s = "channels" => s \in Matching(Bot(f).cfg, asked)
      BY <1>4, <1>6
    <3> QED BY <1>2, <3>1, <3>2, MergeFits
  <2> QED BY <2>2, <2>3
<1> QED BY <1>3, <1>8, HoldsAt DEF Holding

LEMMA MergeReadInv ==
    ASSUME IInv, Inv, NEW f \in Flows, MergeRead(f)
    PROVE  Inv' /\ Stays
<1>1. FlowOK /\ flow[f] \in Flow
  BY FlowFields, PartsOfIInv
<1>2. PICK c : c = MergeConfigForModels(OnFile, ConvertToK8sConfig(Bot(f)))
  OBVIOUS
<1>3. PICK x : x = [flow[f] EXCEPT !.pc = "mergeWrite", !.cfg = c]
  OBVIOUS
<1>4. /\ x.pc = "mergeWrite" /\ x.cfg = c /\ x.bot = flow[f].bot
      /\ x.sections = flow[f].sections
  BY <1>1, <1>3 DEF Flow
<1>5. flow[f].pc = "merge" /\ Ready
  BY DEF MergeRead, At
<1>6. flow[f].bot.cfg = row.cfg /\ flow[f].bot.token = row.token /\ cmd.kind = "ifAbsent"
  BY <1>5, FlowInv, KnowsAt
<1>7. Knows(x)
  BY <1>4, <1>6, KnowsAt
<1>8. Holds(x)
  <2>1. OnFile \in Config /\ OnFile = file /\ file # Absent
    BY <1>5, ReadyFile, OnFileType, PartsOfIInv
  <2>2. InFile = Matching(OnFile, asked)
    BY <2>1 DEF InFile
  <2> QED BY <1>2, <1>4, <1>5, <2>1, <2>2, MergedHolds
<1>9. Solo(f) /\ ~OwesColumn(flow[f]) /\ OwesFile(x)
  BY <1>4, <1>5, MainAlone, OwesAt DEF IsSync
<1>10. flow' = [flow EXCEPT ![f] = x] /\ UNCHANGED world /\ lost' = lost
  BY <1>1, <1>2, <1>3 DEF MergeRead, Hold, FlowOK, world, pods
<1>11. Company'
  BY <1>1, <1>4, <1>7, <1>8, <1>9, <1>10, CompanyNext
<1> QED BY <1>1, <1>4, <1>7, <1>8, <1>9, <1>10, <1>11, FlowOnly

\* After an empty file was merged the flow answers for every section.
LEMMA MergeReadFailsInv ==
    ASSUME IInv, Inv, NEW f \in Flows, MergeReadFails(f)
    PROVE  Inv' /\ Stays
<1>1. FlowOK /\ flow[f] \in Flow
  BY FlowFields, PartsOfIInv
<1>2. PICK c : c = MergeConfigForModels(EmptyConfig, ConvertToK8sConfig(Bot(f)))
  OBVIOUS
<1>3. PICK x : x = [flow[f] EXCEPT !.pc = "mergeWrite", !.sections = Sections, !.cfg = c]
  OBVIOUS
<1>4. x.pc = "mergeWrite" /\ x.cfg = c /\ x.bot = flow[f].bot /\ x.sections = Sections
  BY <1>1, <1>3 DEF Flow
<1>5. flow' = [flow EXCEPT ![f] = x] /\ UNCHANGED world /\ lost' = lost
  BY <1>1, <1>2, <1>3 DEF MergeReadFails, FlowOK, world, pods
<1>6. flow[f].pc = "merge" /\ Ready /\ flow[f].sections \subseteq Sections
  BY <1>1 DEF MergeReadFails, At, Flow
<1>7. flow[f].bot.cfg = row.cfg /\ flow[f].bot.token = row.token /\ cmd.kind = "ifAbsent"
  BY <1>6, FlowInv, KnowsAt
<1>8. Knows(x)
  BY <1>4, <1>7, KnowsAt
<1>9. Holds(x)
  BY <1>2, <1>4, <1>6, EmptyConfigType, MergedHolds
<1>10. Company' /\ ~OwesColumn(flow[f]) /\ OwesFile(x)
  BY <1>1, <1>4, <1>5, <1>6, MainAlone, CompanyNext, OwesAt DEF IsSync
<1> QED BY <1>1, <1>4, <1>5, <1>6, <1>8, <1>9, <1>10, FlowOnly

LEMMA PullReadInv ==
    ASSUME IInv, Inv, NEW f \in Flows, PullRead(f)
    PROVE  Inv' /\ Stays
<1>1. FlowOK /\ flow[f] \in Flow
  BY FlowFields, PartsOfIInv
<1>2. PICK c : c = Typed(OnFile)
  OBVIOUS
<1>3. PICK x : x = [flow[f] EXCEPT !.pc = "pullRow", !.cfg = c]
  OBVIOUS
<1>4. x.pc = "pullRow" /\ x.cfg = c /\ x.sections = flow[f].sections
  BY <1>1, <1>3 DEF Flow
<1>5. flow[f].pc = "pull" /\ Ready
  BY DEF PullRead, At
<1>6. Solo(f) /\ Knows(flow[f]) /\ OwesColumn(x) /\ ~OwesFile(flow[f])
  BY <1>4, <1>5, FlowInv, MainAlone, OwesAt DEF IsSync
<1>7. /\ flow[f].sections \subseteq {"channels"} /\ row.status = "running"
      /\ pod # "pending"
  BY <1>5, <1>6, KnowsAt
<1>8. Knows(x)
  BY <1>4, <1>7, KnowsAt
<1>9. Holds(x)
  <2>1. file \in Config /\ OnFile = file /\ file # Absent /\ InFile = Matching(file, asked)
    BY <1>5, ReadyFile, OnFileType, PartsOfIInv DEF InFile
  <2>2. \A s \in Sections : s \in Matching(c, asked) <=> s \in InFile
    BY <1>2, <2>1, TypedMatching
  <2>3. \A s \in Kept : s \in Sections /\ s \in InFile
    BY <1>6, <1>7, <2>1, SoloOwes, MatchingBy DEF Kept
  <2>4. Stale \subseteq Sections /\ Stale \cap InFile = {}
    BY <1>7 DEF Inv, Undone, Stale
  <2>5. /\ Kept \subseteq Changing(x) \cup Matching(c, asked)
        /\ Stale \cap Matching(c, asked) \subseteq Changing(x)
    BY <2>2, <2>3, <2>4
  <2> QED BY <1>4, <2>1, <2>5, HoldsAt DEF Holding
<1>10. flow' = [flow EXCEPT ![f] = x] /\ UNCHANGED world /\ lost' = lost
  BY <1>1, <1>2, <1>3 DEF PullRead, Hold, FlowOK, world, pods
<1>11. Company'
  BY <1>1, <1>4, <1>6, <1>8, <1>9, <1>10, CompanyNext
<1> QED BY <1>1, <1>4, <1>6, <1>8, <1>9, <1>10, <1>11, FlowOnly

LEMMA PullRowInv ==
    ASSUME IInv, Inv, NEW f \in Flows, PullRow(f)
    PROVE  Inv' /\ Stays
<1>1. FlowOK /\ flow[f] \in Flow
  BY FlowFields, PartsOfIInv
<1>2. PICK x : x = [flow[f] EXCEPT !.pc = "pullSave", !.bot = row]
  OBVIOUS
<1>3. /\ x.pc = "pullSave" /\ x.bot = row /\ x.cfg = flow[f].cfg
      /\ x.sections = flow[f].sections
  BY <1>1, <1>2 DEF Flow
<1>4. flow' = [flow EXCEPT ![f] = x] /\ UNCHANGED world /\ lost' = lost
  BY <1>1, <1>2 DEF PullRow, FlowOK, world, pods
<1>5. flow[f].pc = "pullRow" /\ Knows(flow[f]) /\ Holds(flow[f])
  BY FlowInv DEF PullRow, At
<1>6. /\ flow[f].sections \subseteq {"channels"} /\ row.status = "running"
      /\ pod # "pending"
  BY <1>5, KnowsAt
<1>7. Knows(x)
  BY <1>3, <1>6, KnowsAt
<1>8. Holds(x)
  BY <1>3, <1>5, HoldsAt, ChangingAt DEF Holding
<1>9. Company' /\ OwesColumn(x) /\ ~OwesFile(flow[f])
  BY <1>1, <1>3, <1>4, <1>5, MainAlone, CompanyNext, OwesAt DEF IsSync
<1> QED BY <1>1, <1>3, <1>4, <1>7, <1>8, <1>9, FlowOnly

(***************************************************************************)
(* Steps of a flow that is alone                                           *)
(***************************************************************************)
LEMMA ColumnAuth ==
    ASSUME ColumnOK
    PROVE  "auth" \in InColumn <=>
              asked.auth = IF row.cfg.auth = Password THEN Password ELSE row.token
<1>1. Column.auth = IF row.cfg.auth = Password THEN Password ELSE row.token
  BY GatewayAuthSections, ColumnType DEF Column, Sections
<1>2. "auth" \in InColumn <=> Column.auth = asked.auth
  BY MatchingBy DEF InColumn
<1> QED BY <1>1, <1>2

LEMMA ColumnNext ==
    ASSUME ColumnOK'
    PROVE  /\ \A s \in Sections \ {"auth"} : s \in InColumn' <=> s \in Matching(row'.cfg, asked')
           /\ "auth" \in InColumn' <=>
                 asked'.auth = IF row'.cfg.auth = Password THEN Password ELSE row'.token
<1>1. row'.cfg \in Config
  BY DEF ColumnOK, Row
<1>2. /\ \A s \in Sections \ {"auth"} : Column'[s] = row'.cfg[s]
      /\ Column'.auth = IF row'.cfg.auth = Password THEN Password ELSE row'.token
  BY <1>1, GatewayAuthSections DEF Column, Sections
<1>3. \A s \in Sections \ {"auth"} : s \in InColumn' <=> s \in Matching(row'.cfg, asked')
  BY <1>2, SameSection DEF InColumn
<1>4. "auth" \in InColumn' <=> Column'.auth = asked'.auth
  BY MatchingBy DEF InColumn
<1> QED BY <1>2, <1>3, <1>4

LEMMA SameColumn ==
    ASSUME row' = row, asked' = asked
    PROVE  InColumn' = InColumn /\ Column' = Column
BY DEF InColumn, Column

LEMMA SameFile ==
    ASSUME file' = file, asked' = asked
    PROVE  InFile' = InFile
BY DEF InFile

LEMMA Touched ==
    ASSUME PodOK, NEW sections, Touch(sections)
    PROVE  /\ cmd'.kind = cmd.kind /\ cmd'.cfg = cmd.cfg
           /\ cmd'.touched = cmd.touched \cup sections
BY DEF PodOK, Touch, Command

LEMMA Saved ==
    ASSUME ColumnOK, NEW c, Save(row, c)
    PROVE  row'.status = row.status /\ row'.token = row.token /\ row'.cfg = c
BY DEF ColumnOK, Save, Row

\* Whatever was asked for with a configuration is in it.
LEMMA AskedByFits ==
    ASSUME NEW c \in Config, NEW s \in Sections \ {"auth"}
    PROVE  s \in Matching(c, AskedBy(c))
<1>1. PICK a : a = AskedBy(c)
  OBVIOUS
<1>2. a.models = ProvidersOf(c) /\ a.agents = c.agents /\ a.channels = c.channels
  BY <1>1 DEF AskedBy
<1>3. ModelsFit(ProvidersOf(c), ProvidersOf(c))
  BY DEF ModelsFit
<1> QED BY <1>1, <1>2, <1>3, MatchingBy DEF Sections

LEMMA PutConfigInv ==
    ASSUME IInv, IInv', Inv, NEW f \in Flows, NEW c \in Inputs, PutConfig(f, c)
    PROVE  Inv' /\ Stays
<1>1. FlowOK /\ ColumnOK /\ PodOK /\ issued \in Nat /\ ColumnOK' /\ c \in Config
  BY PartsOfIInv, PartsOfIInvNext, ConstantsOK DEF TokensOK
<1>2. /\ flow[f].pc = "read" /\ Bot(f) = row /\ pod # "pending" /\ Solo(f)
      /\ Running(f) <=> row.status = "running"
      /\ Running(f) => file # Absent
  BY Handled DEF PutConfig, Sections
<1>3. /\ Touch(Sections) /\ Save(row, c) /\ asked' = AskedBy(c)
      /\ file' = file /\ pod' = pod /\ old' = old /\ issued' = issued
  BY <1>2 DEF PutConfig
<1>4. /\ row'.status = row.status /\ row'.token = row.token /\ row'.cfg = c
      /\ cmd'.kind = cmd.kind /\ Sections \subseteq cmd'.touched
  BY <1>1, <1>3, Saved, Touched
<1>5. asked'.auth = IF c.auth = Password THEN Password ELSE issued
  BY <1>3 DEF AskedBy
<1>6. Tokens' /\ HasDeployment'
  BY <1>3, <1>4, <1>5 DEF Inv, Tokens, HasDeployment
<1>7. \A s \in Sections : s \in InColumn'
  <2>1. \A s \in Sections \ {"auth"} : s \in InColumn'
    BY <1>1, <1>3, <1>4, AskedByFits, ColumnNext
  <2>2. "auth" \in InColumn'
    BY <1>1, <1>4, <1>5, <1>6, ColumnNext DEF Inv, Tokens
  <2> QED BY <2>1, <2>2
<1>8. Stale' = {}
  BY <1>4 DEF Stale
<1>9. Undone'
  BY <1>8 DEF Undone
<1>10. ~Running(f) => /\ c.auth = Password => "auth" \in lost'
                      /\ file # Absent => Sections \ {"models"} \subseteq lost'
  BY DEF PutConfig, Locked
<1>11. Unwritten'
  <2>1. asked'.auth = Password => c.auth = Password
    BY <1>1, <1>5, DataOK
  <2> QED BY <1>2, <1>3, <1>4, <1>10, <2>1 DEF Inv, Unwritten
<1>12. Stays
  <2>1. \A s \in InFile : asked'[s] = asked[s] => s \in InFile'
    BY <1>3, SameSection, MatchingBy DEF InFile
  <2>2. lost \subseteq lost'
    BY DEF PutConfig
  <2> QED BY <1>7, <2>1, <2>2, MatchingBy DEF Stays, InColumn
<1>13. CASE Running(f)
  <2>1. PICK x : x = [Idle EXCEPT !.pc = "full", !.sections = Sections, !.more = FALSE]
    OBVIOUS
  <2>2. x.pc = "full" /\ x.sections = Sections
    BY <2>1 DEF Idle
  <2>3. flow' = [flow EXCEPT ![f] = x]
    BY <1>13, <2>1 DEF PutConfig, Carry
  <2>4. Knows(x)' /\ Holds(x)' /\ OwesFile(x)
    BY <2>2, KnowsAtNext, HoldsAt, OwesAt DEF Holding
  <2> QED BY <1>1, <1>2, <1>6, <1>7, <1>9, <1>11, <1>12, <2>2, <2>3, <2>4, SoloNext
<1>14. CASE ~Running(f)
  <2>1. flow' = [flow EXCEPT ![f] = Idle]
    BY <1>14 DEF PutConfig, Done
  <2>2. Knows(Idle)' /\ Holds(Idle)'
    BY IdleKnows, KnowsAtNext, HoldsAt DEF Holding
  <2> QED BY <1>1, <1>2, <1>3, <1>4, <1>6, <1>7, <1>9, <1>10, <1>11, <1>12,
            <1>14, <2>1, <2>2, SoloNext
<1> QED BY <1>13, <1>14

LEMMA ResetInv ==
    ASSUME IInv, IInv', Inv, NEW f \in Flows, ResetBotAccessToken(f)
    PROVE  Inv' /\ Stays
<1>1. FlowOK /\ ColumnOK /\ PodOK /\ issued \in Nat /\ ColumnOK' /\ issued' \in Nat /\ AskedOK
  BY PartsOfIInv, PartsOfIInvNext DEF TokensOK
<1>2. /\ flow[f].pc = "read" /\ Bot(f) = row /\ pod # "pending" /\ Solo(f)
      /\ Running(f) <=> row.status = "running"
      /\ Running(f) => file # Absent
  BY Handled DEF ResetBotAccessToken, Sections
<1>3. PICK n : n = issued + 1
  OBVIOUS
<1>4. /\ Touch({"auth"}) /\ issued' = n
      /\ row' = [row EXCEPT !.token = n] /\ asked' = [asked EXCEPT !.auth = n]
      /\ file' = file /\ pod' = pod /\ old' = old
  BY <1>3 DEF ResetBotAccessToken
<1>5. /\ row'.status = row.status /\ row'.token = n /\ row'.cfg = row.cfg
      /\ cmd'.kind = cmd.kind /\ cmd'.cfg = cmd.cfg
      /\ cmd'.touched = cmd.touched \cup {"auth"}
  BY <1>1, <1>4, Touched DEF ColumnOK, Row
<1>6. asked'.auth = n /\ \A s \in Sections \ {"auth"} : asked'[s] = asked[s]
  BY <1>1, <1>4 DEF AskedOK, Sections
<1>7. PICK x : x = [Idle EXCEPT !.pc = "reload", !.more = Running(f), !.cfg.auth = n,
                                !.sections = {"auth"}]
  OBVIOUS
<1>8. /\ x.pc = "reload" /\ x.sections = {"auth"} /\ x.cfg.auth = n
      /\ x.more <=> Running(f)
  BY <1>7 DEF Idle, EmptyConfig
<1>9. flow' = [flow EXCEPT ![f] = x]
  BY <1>3, <1>7 DEF ResetBotAccessToken
<1>10. /\ lost \subseteq lost'
       /\ ~Running(f) /\ file # Absent => "auth" \in lost'
  BY DEF ResetBotAccessToken
<1>11. Tokens' /\ HasDeployment'
  BY <1>4, <1>5, <1>6 DEF Inv, Tokens, HasDeployment
<1>12. Unwritten'
  <2>1. asked'.auth # Password
    BY <1>1, <1>4, <1>6, DataOK
  <2> QED BY <1>2, <1>4, <1>5, <2>1 DEF Inv, Unwritten
<1>13. \A s \in Sections \ {"auth"} : /\ s \in InColumn' <=> s \in InColumn
                                      /\ s \in InFile' <=> s \in InFile
                                      /\ s \in Stale' <=> s \in Stale
  <2>1. TAKE s \in Sections \ {"auth"}
  <2>2. s \in InColumn' <=> s \in InColumn
    BY <1>1, <1>5, <1>6, ColumnFits, ColumnNext, SameSection
  <2>3. s \in InFile' <=> s \in InFile
    BY <1>4, <1>6, SameSection DEF InFile
  <2>4. s \in Matching(cmd'.cfg, asked') <=> s \in Matching(cmd.cfg, asked)
    BY <1>5, <1>6, SameSection
  <2> QED BY <1>5, <2>2, <2>3, <2>4 DEF Stale
<1>14. Undone'
  <2>1. "auth" \notin Stale' /\ Stale' \subseteq Sections
    BY <1>5 DEF Stale
  <2>2. Undone
    BY DEF Inv
  <2> QED BY <1>2, <1>4, <1>10, <1>13, <2>1, <2>2 DEF Undone
<1>15. Knows(x)' /\ Holds(x)' /\ OwesColumn(x) /\ (OwesFile(x) <=> Running(f))
  BY <1>2, <1>4, <1>6, <1>8, KnowsAtNext, HoldsAt, OwesAt DEF Holding
<1>16. ASSUME NEW s \in Sections, s \notin lost'
       PROVE  /\ s \in InColumn' \/ (OwesColumn(x) /\ s \in x.sections)
              /\ file' # Absent =>
                    \/ s \in InFile'
                    \/ OwesFile(x) /\ s \in x.sections
                    \/ row'.status # "running" /\ s = "models"
                    \/ cmd'.kind = "always" /\ pod' = "pending"
  <2>1. CASE s = "auth"
    BY <1>4, <1>8, <1>10, <1>15, <1>16, <2>1
  <2>2. CASE s # "auth"
    BY <1>2, <1>4, <1>5, <1>10, <1>13, <1>16, <2>2, SoloOwes, OwesAt
  <2> QED BY <2>1, <2>2
<1>17. Stays
  <2>1. asked'.auth # asked.auth
    BY <1>1, <1>3, <1>6, DataOK DEF Inv, Tokens
  <2> QED BY <1>10, <1>13, <2>1, MatchingBy DEF Stays, InColumn
<1> QED BY <1>1, <1>2, <1>9, <1>11, <1>12, <1>14, <1>15, <1>16, <1>17, SoloNext

\* A new start command knows what the row knew, and its token.
LEMMA DeployedAs ==
    ASSUME AskedOK, NEW bot \in Row, NEW kind, Deploy(bot, kind)
    PROVE  /\ cmd'.kind = kind /\ cmd'.touched = {} /\ cmd'.cfg.auth = bot.token
           /\ \A s \in Sections \ {"auth"} :
                 s \in Matching(bot.cfg, asked) => s \in Matching(cmd'.cfg, asked)
           /\ pod' = "pending" /\ old' = Ready
<1>1. PICK c \in BuildOpenClawConfig(ConvertToK8sConfig(bot)) :
         Rollout([kind |-> kind, cfg |-> c, touched |-> {}])
  BY DEF Deploy
<1>2. asked \in Wishes
  BY DEF AskedOK, Wishes
<1>3. c.auth = bot.token /\ \A s \in Sections \ {"auth"} :
         s \in Matching(bot.cfg, asked) => s \in Matching(c, asked)
  BY <1>2, CommandFits
<1> QED BY <1>1, <1>3 DEF Rollout

LEMMA SaveTokenInv ==
    ASSUME IInv, IInv', Inv, NEW f \in Flows, SaveToken(f)
    PROVE  Inv' /\ Stays
<1>1. FlowOK /\ flow[f] \in Flow /\ ColumnOK /\ ColumnOK' /\ issued \in Nat
  BY FlowFields, PartsOfIInv, PartsOfIInvNext DEF TokensOK
<1>2. flow[f].pc = "resave" /\ Knows(flow[f]) /\ Solo(f)
  BY FlowInv, MainAlone DEF SaveToken, At, IsSync
<1>3. /\ flow[f].sections = {"auth"} /\ asked.auth = issued
      /\ flow[f].more => file # Absent
      /\ flow[f].cfg.auth = issued /\ pod # "pending" /\ Bot(f) = row
      /\ \A s \in Sections \ {"auth"} : flow[f].cfg[s] = row.cfg[s]
  BY <1>2, KnowsAt DEF Bot
<1>4. /\ Save(row, flow[f].cfg) /\ Redeploys(f)
      /\ UNCHANGED <<file, cmd, pod, old, issued, asked, lost>>
  BY <1>3 DEF SaveToken, pods
<1>5. row'.status = row.status /\ row'.token = row.token /\ row'.cfg = flow[f].cfg
  BY <1>1, <1>4, Saved
<1>6. Tokens' /\ HasDeployment' /\ Unwritten'
  BY <1>4, <1>5 DEF Inv, Tokens, HasDeployment, Unwritten
<1>7. InFile' = InFile /\ Stale' = Stale
  BY <1>4 DEF InFile, Stale
<1>8. \A s \in Sections \ {"auth"} : s \in InColumn' <=> s \in InColumn
  BY <1>1, <1>3, <1>4, <1>5, ColumnFits, ColumnNext, SameSection
<1>9. "auth" \in InColumn'
  <2>1. issued # Password /\ row.token = issued
    BY <1>1, DataOK DEF Inv, Tokens
  <2> QED BY <1>1, <1>3, <1>4, <1>5, <2>1, ColumnNext
<1>10. Undone'
  <2>1. Undone /\ Stale \subseteq Sections
    BY DEF Inv, Stale
  <2> QED BY <1>4, <1>7, <1>8, <2>1 DEF Undone
<1>11. ASSUME NEW s \in Sections, s \notin lost'
       PROVE  /\ s \in InColumn'
              /\ file' # Absent =>
                    \/ s \in InFile'
                    \/ flow[f].more /\ s = "auth"
                    \/ row'.status # "running" /\ s = "models"
                    \/ cmd'.kind = "always" /\ pod' = "pending"
  BY <1>2, <1>3, <1>4, <1>5, <1>7, <1>8, <1>9, <1>11, SoloOwes, OwesAt
<1>12. Stays
  BY <1>4, <1>7, <1>8, <1>9, MatchingBy DEF Stays, InColumn
<1>13. CASE ~flow[f].more
  <2>1. flow' = [flow EXCEPT ![f] = Idle]
    BY <1>4, <1>13 DEF Redeploys, Done
  <2>2. Knows(Idle)' /\ Holds(Idle)'
    BY IdleKnows, KnowsAtNext, HoldsAt DEF Holding
  <2> QED BY <1>1, <1>2, <1>6, <1>10, <1>11, <1>12, <1>13, <2>1, <2>2, SoloNext
<1>14. CASE flow[f].more
  <2>1. PICK x : x = [flow[f] EXCEPT !.pc = "redeploy"]
    OBVIOUS
  <2>2. /\ x.pc = "redeploy" /\ x.bot = row /\ x.cfg = flow[f].cfg
        /\ x.sections = {"auth"} /\ x.more
    BY <1>1, <1>3, <1>14, <2>1 DEF Flow, Bot
  <2>3. flow' = [flow EXCEPT ![f] = x]
    BY <1>1, <1>4, <1>14, <2>1 DEF Redeploys, FlowOK
  <2>4. \A s \in Sections \ {"auth"} : x.cfg[s] = row'.cfg[s]
    BY <1>5, <2>2
  <2>5. Knows(x)' /\ Holds(x)' /\ OwesFile(x)
    BY <1>3, <1>4, <1>5, <1>14, <2>2, <2>4, KnowsAtNext, HoldsAt, OwesAt DEF Holding
  <2> QED BY <1>1, <1>2, <1>6, <1>10, <1>11, <1>12, <2>2, <2>3, <2>5, SoloNext
<1> QED BY <1>13, <1>14

\* The new command has the new token; what it overwrites with something else was
\* lost before.
LEMMA RedeployInv ==
    ASSUME IInv, IInv', Inv, NEW f \in Flows, UpdateDeploymentConfig(f)
    PROVE  Inv' /\ Stays
<1>1. /\ FlowOK /\ flow[f] \in Flow /\ Bot(f) \in Row /\ flow[f].cfg \in Config
      /\ ColumnOK /\ AskedOK
  BY FlowFields, PartsOfIInv
<1>2. flow[f].pc = "redeploy" /\ Knows(flow[f]) /\ Solo(f)
  BY FlowInv, MainAlone DEF UpdateDeploymentConfig, At, IsSync
<1>3. /\ asked.auth = issued /\ file # Absent /\ Bot(f).token = row.token
      /\ \A s \in Sections \ {"auth"} : flow[f].cfg[s] = row.cfg[s]
  BY <1>2, KnowsAt DEF Bot
<1>4. PICK bot : bot = [Bot(f) EXCEPT !.cfg = flow[f].cfg]
  OBVIOUS
<1>5. bot \in Row /\ bot.token = row.token /\ bot.cfg = flow[f].cfg
  BY <1>1, <1>3, <1>4 DEF Row
<1>6. Deploy(bot, "always") /\ flow' = [flow EXCEPT ![f] = Idle]
      /\ UNCHANGED <<row, file, issued, asked, lost>>
  BY <1>4 DEF UpdateDeploymentConfig, Done
<1>7. /\ cmd'.kind = "always" /\ cmd'.touched = {} /\ cmd'.cfg.auth = row.token
      /\ \A s \in Sections \ {"auth"} :
            s \in Matching(flow[f].cfg, asked) => s \in Matching(cmd'.cfg, asked)
      /\ pod' = "pending"
  BY <1>1, <1>5, <1>6, DeployedAs
<1>8. Tokens' /\ HasDeployment' /\ Unwritten' /\ row.token = issued
  BY <1>3, <1>6, <1>7 DEF Inv, Tokens, HasDeployment, Unwritten
<1>9. InColumn' = InColumn /\ InFile' = InFile
  BY <1>6, SameColumn, SameFile
<1>10. \A s \in Stale' : s \in Sections /\ s # "auth" /\ s \notin InColumn
  <2>1. TAKE s \in Stale'
  <2>2. s \in Sections /\ s \notin Matching(cmd'.cfg, asked)
    BY <1>6 DEF Stale
  <2>3. s # "auth"
    BY <1>3, <1>7, <1>8, <2>2, MatchingBy
  <2> QED BY <1>1, <1>3, <1>7, <2>2, <2>3, ColumnFits, SameSection
<1>11. \A s \in Sections \ lost : s \in InColumn
  BY <1>2, SoloOwes, OwesAt
<1>12. Undone'
  BY <1>6, <1>7, <1>9, <1>10, <1>11 DEF Undone
<1>13. Knows(Idle)' /\ Holds(Idle)'
  BY IdleKnows, KnowsAtNext, HoldsAt DEF Holding
<1> QED BY <1>1, <1>2, <1>6, <1>7, <1>8, <1>9, <1>11, <1>12, <1>13, SoloNext DEF Stays

\* A start: the command is built from the row, and the flow carries the models of
\* a bot that was not running.
LEMMA LaunchInv ==
    ASSUME IInv, IInv', Inv, NEW f \in Flows, NEW op, Handles(f, op, Sections),
           NEW status, SetStatus(status), NEW pc, NEW sections, Launch(f, pc, sections),
           pc = "merge" \/ (pc = "await" /\ "models" \in sections),
           row.status # "running" => "models" \in sections
    PROVE  Inv' /\ Stays
<1>1. /\ FlowOK /\ flow[f] \in Flow /\ ColumnOK /\ ColumnOK' /\ AskedOK /\ issued \in Nat
  BY FlowFields, PartsOfIInv, PartsOfIInvNext DEF TokensOK
<1>2. /\ flow[f].pc = "read" /\ Bot(f) = row /\ pod # "pending" /\ Solo(f)
  BY Handled DEF Sections
<1>3. /\ Deploy(row, "ifAbsent") /\ UNCHANGED <<file, issued, asked, lost>>
      /\ row' = [row EXCEPT !.status = status]
  BY <1>2 DEF Launch, SetStatus
<1>4. row'.token = row.token /\ row'.cfg = row.cfg
  BY <1>1, <1>3 DEF ColumnOK, Row
<1>5. PICK x : x = [flow[f] EXCEPT !.pc = pc, !.sections = sections]
  OBVIOUS
<1>6. x.pc = pc /\ x.sections = sections /\ x.bot = row
  BY <1>1, <1>2, <1>5 DEF Flow, Bot
<1>7. flow' = [flow EXCEPT ![f] = x]
  BY <1>1, <1>5 DEF Launch, FlowOK
<1>8. /\ cmd'.kind = "ifAbsent" /\ cmd'.touched = {} /\ cmd'.cfg.auth = row.token
      /\ \A s \in Sections \ {"auth"} :
            s \in Matching(row.cfg, asked) => s \in Matching(cmd'.cfg, asked)
      /\ pod' = "pending" /\ old' = Ready
  BY <1>1, <1>3, DeployedAs DEF ColumnOK
<1>9. Tokens' /\ HasDeployment'
  BY <1>3, <1>4, <1>8 DEF Inv, Tokens, HasDeployment
<1>10. /\ \A s \in Sections : s \in InColumn' <=> s \in InColumn
       /\ InFile' = InFile /\ Stale' = {}
  <2>1. Column' = Column
    BY <1>4 DEF Column
  <2> QED BY <1>3, <1>8, <2>1 DEF InColumn, InFile, Stale
<1>11. \A s \in Sections \ lost : s \in InColumn
  BY <1>2, SoloOwes, OwesAt
<1>12. Unwritten'
  <2>1. SUFFICES ASSUME file = Absent PROVE Unwritten'
    BY <1>3 DEF Unwritten
  <2>2. /\ ~Ready
        /\ asked.auth = Password => "auth" \in lost
    BY <1>2, <2>1 DEF Inv, Unwritten, Ready
  <2>3. \A s \in Sections \ lost : s \in Matching(cmd'.cfg, asked)
    <3>1. TAKE s \in Sections \ lost
    <3>2. CASE s = "auth"
      <4>1. asked.auth = row.token
        BY <2>2, <3>2, <1>11 DEF Inv, Tokens, Unwritten
      <4> QED BY <1>8, <3>2, <4>1, MatchingBy
    <3>3. CASE s # "auth"
      BY <1>1, <1>8, <1>11, <3>3, ColumnFits
    <3> QED BY <3>2, <3>3
  <2> QED BY <1>3, <1>8, <2>2, <2>3 DEF Unwritten
<1>13. Undone'
  BY <1>10 DEF Undone
<1>14. Knows(x)' /\ Holds(x)' /\ OwesFile(x)
  BY <1>4, <1>6, <1>8, KnowsAtNext, HoldsAt, OwesAt DEF Holding
<1>15. ASSUME NEW s \in Sections, s \notin lost'
       PROVE  /\ s \in InColumn'
              /\ file' # Absent => s \in InFile' \/ s \in x.sections
  BY <1>2, <1>3, <1>6, <1>10, <1>11, <1>15, SoloOwes, OwesAt
<1>16. Stays
  BY <1>3, <1>10, MatchingBy DEF Stays, InColumn
<1> QED BY <1>1, <1>2, <1>7, <1>9, <1>12, <1>13, <1>14, <1>15, <1>16, SoloNext

LEMMA StartsInv ==
    ASSUME IInv, IInv', Inv, NEW f \in Flows, StartBot(f) \/ AdminStartBot(f) \/ RestartBot(f)
    PROVE  Inv' /\ Stays
<1>1. CASE StartBot(f)
  BY <1>1, LaunchInv DEF StartBot
<1>2. CASE AdminStartBot(f)
  BY <1>2, LaunchInv DEF AdminStartBot
<1>3. CASE RestartBot(f)
  <2>1. row.status = "running"
    BY <1>3, Handled DEF RestartBot
  <2> QED BY <1>3, <2>1, LaunchInv DEF RestartBot
<1> QED BY <1>1, <1>2, <1>3

LEMMA AwaitPodInv ==
    ASSUME IInv, IInv', Inv, NEW f \in Flows, AwaitPod(f)
    PROVE  Inv' /\ Stays
<1>1. FlowOK /\ flow[f] \in Flow /\ ColumnOK /\ PodOK
  BY FlowFields, PartsOfIInv
<1>2. flow[f].pc = "await" /\ Knows(flow[f]) /\ Solo(f)
  BY FlowInv, MainAlone DEF AwaitPod, At, IsSync
<1>3. /\ flow[f].bot.cfg = row.cfg /\ flow[f].bot.token = row.token
      /\ cmd.kind = "ifAbsent" /\ "models" \in flow[f].sections
  BY <1>2, KnowsAt
<1>4. UNCHANGED <<file, cmd, pod, old, issued, asked>> /\ lost \subseteq lost'
  BY DEF AwaitPod, pods
<1>5. row'.token = row.token /\ row'.cfg = row.cfg
  BY <1>1 DEF AwaitPod, SetStatus, ColumnOK, Row
<1>6. InColumn' = InColumn /\ InFile' = InFile /\ Stale' = {}
  <2>1. Column' = Column
    BY <1>5 DEF Column
  <2> QED BY <1>3, <1>4, <2>1 DEF InColumn, InFile, Stale
<1>7. Tokens' /\ HasDeployment' /\ Unwritten' /\ Undone'
  <2>1. pod # "none"
    BY <1>3 DEF Inv, HasDeployment
  <2>2. Tokens' /\ HasDeployment' /\ Undone'
    BY <1>4, <1>5, <1>6, <2>1 DEF Inv, Tokens, HasDeployment, Undone
  <2>3. Unwritten'
    BY <1>4 DEF Inv, Unwritten
  <2> QED BY <2>2, <2>3
<1>8. ASSUME NEW s \in Sections, s \notin lost'
      PROVE  /\ s \in InColumn'
             /\ file' # Absent => s \in InFile' \/ s \in flow[f].sections
  BY <1>2, <1>3, <1>4, <1>6, <1>8, SoloOwes, OwesAt
<1>9. Stays
  BY <1>4, <1>6 DEF Stays
<1>10. CASE flow' = [flow EXCEPT ![f].pc = "merge"]
  <2>1. PICK x : x = [flow[f] EXCEPT !.pc = "merge"]
    OBVIOUS
  <2>2. x.pc = "merge" /\ x.bot = flow[f].bot /\ x.sections = flow[f].sections
    BY <1>1, <2>1 DEF Flow
  <2>3. flow' = [flow EXCEPT ![f] = x]
    BY <1>1, <1>10, <2>1 DEF FlowOK
  <2>4. Knows(x)' /\ Holds(x)' /\ OwesFile(x)
    BY <1>3, <1>4, <1>5, <2>2, KnowsAtNext, HoldsAt, OwesAt DEF Holding
  <2> QED BY <1>1, <1>2, <1>7, <1>8, <1>9, <2>2, <2>3, <2>4, SoloNext
<1>11. CASE Done(f) /\ flow[f].sections \subseteq lost'
  <2>1. flow' = [flow EXCEPT ![f] = Idle]
    BY <1>11 DEF Done
  <2>2. Knows(Idle)' /\ Holds(Idle)'
    BY IdleKnows, KnowsAtNext, HoldsAt DEF Holding
  <2> QED BY <1>1, <1>2, <1>7, <1>8, <1>9, <1>11, <2>1, <2>2, SoloNext
<1> QED BY <1>10, <1>11 DEF AwaitPod

LEMMA StopBotInv ==
    ASSUME IInv, IInv', Inv, NEW f \in Flows, StopBot(f)
    PROVE  Inv' /\ Stays
<1>1. FlowOK /\ ColumnOK
  BY PartsOfIInv
<1>2. /\ flow[f].pc = "read" /\ pod # "pending" /\ Solo(f) /\ row.status = "running"
  BY Handled DEF StopBot, Sections
<1>3. /\ cmd' = NoCommand /\ pod' = "none" /\ old' = FALSE
      /\ flow' = [flow EXCEPT ![f] = Idle] /\ row' = [row EXCEPT !.status = "stopped"]
      /\ UNCHANGED <<file, issued, asked, lost>>
  BY DEF StopBot, Done, SetStatus
<1>4. /\ row'.token = row.token /\ row'.cfg = row.cfg /\ row'.status = "stopped"
      /\ cmd'.kind = "none"
  BY <1>1, <1>3 DEF ColumnOK, Row, NoCommand
<1>5. InColumn' = InColumn /\ InFile' = InFile /\ Stale' = {}
  <2>1. Column' = Column
    BY <1>4 DEF Column
  <2> QED BY <1>3, <1>4, <2>1 DEF InColumn, InFile, Stale
<1>6. Tokens' /\ HasDeployment' /\ Unwritten' /\ Undone'
  BY <1>3, <1>4, <1>5 DEF Inv, Tokens, HasDeployment, Unwritten, Undone
<1>7. Knows(Idle)' /\ Holds(Idle)'
  BY IdleKnows, KnowsAtNext, HoldsAt DEF Holding
<1>8. ASSUME NEW s \in Sections, s \notin lost'
      PROVE  s \in InColumn' /\ (file' # Absent => s \in InFile')
  BY <1>2, <1>3, <1>5, <1>8, SoloOwes, OwesAt
<1>9. Stays
  BY <1>3, <1>5 DEF Stays
<1> QED BY <1>1, <1>2, <1>3, <1>6, <1>7, <1>8, <1>9, SoloNext

LEMMA UpgradeBotInv ==
    ASSUME IInv, IInv', Inv, NEW f \in Flows, UpgradeBot(f)
    PROVE  Inv' /\ Stays
<1>1. FlowOK
  BY PartsOfIInv
<1>2. /\ flow[f].pc = "read" /\ pod # "pending" /\ Solo(f) /\ row.status = "running"
      /\ file # Absent
  BY Handled DEF UpgradeBot, Sections
<1>3. /\ cmd' = cmd /\ pod' = "pending" /\ UNCHANGED <<row, file, issued, asked, lost>>
  BY DEF UpgradeBot, Rollout
<1>4. PICK x : x = [Idle EXCEPT !.pc = "full", !.sections = {}, !.more = FALSE]
  OBVIOUS
<1>5. x.pc = "full" /\ flow' = [flow EXCEPT ![f] = x]
  BY <1>4 DEF UpgradeBot, Carry, Idle
<1>6. InColumn' = InColumn /\ InFile' = InFile /\ Stale' = Stale
  BY <1>3 DEF InColumn, Column, InFile, Stale
<1>7. Tokens' /\ HasDeployment' /\ Unwritten' /\ Undone'
  BY <1>2, <1>3, <1>6 DEF Inv, Tokens, HasDeployment, Unwritten, Undone
<1>8. Knows(x)' /\ Holds(x)'
  BY <1>5, KnowsAtNext, HoldsAt DEF Holding
<1>9. ASSUME NEW s \in Sections, s \notin lost'
      PROVE  s \in InColumn' /\ (file' # Absent => s \in InFile')
  BY <1>2, <1>3, <1>6, <1>9, SoloOwes, OwesAt
<1>10. Stays
  BY <1>3, <1>6 DEF Stays
<1> QED BY <1>1, <1>2, <1>5, <1>7, <1>8, <1>9, <1>10, SoloNext

\* The whole row is written from a copy of the file, which has what is not lost
\* and nothing of what a start would undo.
LEMMA PullSaveInv ==
    ASSUME IInv, IInv', Inv, NEW f \in Flows, PullSave(f)
    PROVE  Inv' /\ Stays
<1>1. FlowOK /\ ColumnOK /\ ColumnOK' /\ issued \in Nat
  BY PartsOfIInv, PartsOfIInvNext DEF TokensOK
<1>2. flow[f].pc = "pullSave" /\ Knows(flow[f]) /\ Holds(flow[f]) /\ Solo(f)
  BY FlowInv, MainAlone DEF PullSave, At, IsSync
<1>3. Bot(f) = row /\ pod # "pending" /\ row.status = "running"
  BY <1>2, KnowsAt DEF Bot
<1>4. /\ file # Absent /\ Kept \subseteq Matching(flow[f].cfg, asked)
      /\ Stale \cap Matching(flow[f].cfg, asked) = {}
  BY <1>2, HoldsAt, ChangingAt DEF Holding
<1>5. /\ Save(row, flow[f].cfg) /\ flow' = [flow EXCEPT ![f] = Idle]
      /\ UNCHANGED <<file, cmd, pod, old, issued, asked, lost>>
  BY <1>3 DEF PullSave, Done, pods
<1>6. row'.status = row.status /\ row'.token = row.token /\ row'.cfg = flow[f].cfg
  BY <1>1, <1>5, Saved
<1>7. InFile' = InFile /\ Stale' = Stale
  BY <1>5 DEF InFile, Stale
<1>8. \A s \in Sections \ {"auth"} : s \in InColumn' <=> s \in Matching(flow[f].cfg, asked)
  BY <1>1, <1>5, <1>6, ColumnNext
<1>9. "auth" \in Matching(flow[f].cfg, asked) => "auth" \in InColumn'
  <2>1. "auth" \in Matching(flow[f].cfg, asked) <=> flow[f].cfg.auth = asked.auth
    BY MatchingBy
  <2>2. row.token = issued /\ asked.auth \in {issued, Password}
    BY DEF Inv, Tokens
  <2> QED BY <1>1, <1>5, <1>6, <2>1, <2>2, ColumnNext
<1>10. Tokens' /\ HasDeployment' /\ Unwritten'
  BY <1>5, <1>6 DEF Inv, Tokens, HasDeployment, Unwritten
<1>11. Undone'
  <2>1. Undone /\ Stale \subseteq Sections
    BY DEF Inv, Stale
  <2> QED BY <1>4, <1>5, <1>7, <1>8, <2>1 DEF Undone
<1>12. Knows(Idle)' /\ Holds(Idle)'
  BY IdleKnows, KnowsAtNext, HoldsAt DEF Holding
<1>13. ASSUME NEW s \in Sections, s \notin lost'
       PROVE  s \in InColumn' /\ (file' # Absent => s \in InFile')
  <2>1. s \in Kept
    BY <1>5, <1>13 DEF Kept
  <2>2. s \in InColumn'
    BY <1>4, <1>8, <1>9, <2>1
  <2> QED BY <1>2, <1>3, <1>5, <1>7, <1>13, <2>2, SoloOwes, OwesAt
<1>14. Stays
  BY <1>4, <1>5, <1>13, MatchingBy DEF Stays, InColumn
<1> QED BY <1>1, <1>2, <1>5, <1>10, <1>11, <1>12, <1>13, <1>14, SoloNext

(***************************************************************************)
(* Writes of the file                                                      *)
(***************************************************************************)
LEMMA Written ==
    ASSUME NEW c \in Config, NEW harmed, WriteFile(c, harmed), row' = row
    PROVE  /\ file' = c /\ file' # Absent /\ InFile' = Matching(c, asked')
           /\ lost' = (lost \cup harmed) \ (InFile' \cap InColumn')
<1>1. file' = c /\ c # Absent
  BY AbsentOK DEF WriteFile
<1>2. InFile' = Matching(c, asked') /\ InColumn' = Matching(Column, asked')
  BY <1>1 DEF InFile, InColumn, Column
<1> QED BY <1>1, <1>2 DEF WriteFile

\* A section that a start would undo stays lost when the file is written, if it is
\* in no place.
LEMMA UndoneWhenWritten ==
    ASSUME Undone, NEW c \in Config, NEW harmed, WriteFile(c, harmed), row' = row,
           Stale' \subseteq Stale, \A s \in Stale' : s \notin InColumn' /\ s \notin InFile'
    PROVE  Undone'
BY Written DEF Undone

LEMMA UnwrittenWhenWritten ==
    ASSUME NEW c \in Config, NEW harmed, WriteFile(c, harmed), row' = row
    PROVE  Unwritten'
BY Written DEF Unwritten

LEMMA WriteChannelsInv ==
    ASSUME IInv, IInv', Inv, NEW f \in Flows, WriteChannels(f)
    PROVE  Inv' /\ Stays
<1>1. FlowOK /\ ColumnOK /\ PodOK /\ AskedOK /\ flow[f].cfg \in Config /\ ColumnOK'
  BY FlowFields, PartsOfIInv, PartsOfIInvNext
<1>2. flow[f].pc = "channelWrite" /\ Knows(flow[f]) /\ Holds(flow[f]) /\ Solo(f)
  BY FlowInv, MainAlone DEF WriteChannels, At, IsSync
<1>3. row.status = "running" /\ pod # "pending"
  BY <1>2, KnowsAt
<1>4. PICK c \in Config : c = flow[f].cfg
  BY <1>1
<1>5. /\ Kept \subseteq {"channels"} \cup Matching(c, asked)
      /\ Stale \cap Matching(c, asked) \subseteq {"channels"}
      /\ "channels" \in Kept => c.channels = WithAccount(flow[f])
  BY <1>2, <1>4, HoldsAt, ChangingAt DEF Holding
<1>6. PICK cs : cs = IF flow[f].account \in c.channels THEN asked.channels \cup {flow[f].account}
                     ELSE asked.channels \ {flow[f].account}
  OBVIOUS
<1>7. /\ asked' = [asked EXCEPT !.channels = cs] /\ WriteFile(c, {}) /\ Touch({"channels"})
      /\ UNCHANGED <<row, pod, old, issued>>
  BY <1>1, <1>4, <1>6 DEF WriteChannels, AskedOK
<1>8. asked'.channels = cs /\ \A s \in Sections \ {"channels"} : asked'[s] = asked[s]
  BY <1>1, <1>7 DEF AskedOK, Sections
<1>9. /\ cmd'.kind = cmd.kind /\ cmd'.cfg = cmd.cfg
      /\ cmd'.touched = cmd.touched \cup {"channels"}
  BY <1>1, <1>7, Touched
<1>10. PICK x : x = [Idle EXCEPT !.pc = "pull", !.sections = {"channels"}, !.more = FALSE]
  OBVIOUS
<1>11. x.pc = "pull" /\ x.sections = {"channels"} /\ flow' = [flow EXCEPT ![f] = x]
  BY <1>10 DEF WriteChannels, Carry, Idle
<1>12. /\ file' = c /\ file' # Absent /\ InFile' = Matching(c, asked')
       /\ lost' = lost \ (InFile' \cap InColumn')
  BY <1>7, Written
<1>13. \A s \in Sections \ {"channels"} : /\ s \in InColumn' <=> s \in InColumn
                                          /\ s \in InFile' <=> s \in Matching(c, asked)
                                          /\ s \in Stale' => s \in Stale
  <2>1. TAKE s \in Sections \ {"channels"}
  <2>2. s \in InColumn' <=> s \in InColumn
    <3>1. Column' = Column
      BY <1>7 DEF Column
    <3> QED BY <1>8, <3>1, SameSection DEF InColumn
  <2>3. s \in InFile' <=> s \in Matching(c, asked)
    BY <1>8, <1>12, SameSection
  <2>4. s \in Matching(cmd'.cfg, asked') <=> s \in Matching(cmd.cfg, asked)
    BY <1>8, <1>9, SameSection
  <2> QED BY <1>9, <2>2, <2>3, <2>4 DEF Stale
<1>14. "channels" \in Kept => "channels" \in InFile'
  BY <1>5, <1>6, <1>8, <1>12, MatchingBy DEF WithAccount
<1>15. Tokens' /\ HasDeployment' /\ Unwritten'
  <2>1. asked'.auth = asked.auth
    BY <1>8 DEF Sections
  <2> QED BY <1>7, <1>9, <2>1, UnwrittenWhenWritten DEF Inv, Tokens, HasDeployment
<1>16. Undone'
  <2>1. Stale' \subseteq Sections \ {"channels"}
    BY <1>9 DEF Stale
  <2>2. Stale' \subseteq Stale
    BY <1>13, <2>1
  <2>3. \A s \in Stale' : s \notin InColumn' /\ s \notin InFile'
    BY <1>5, <1>13, <2>1, <2>2 DEF Inv, Undone
  <2> QED BY <1>7, <2>2, <2>3, UndoneWhenWritten DEF Inv
<1>17. Knows(x)' /\ Holds(x)' /\ OwesColumn(x)
  BY <1>3, <1>7, <1>11, KnowsAtNext, HoldsAt, OwesAt DEF Holding
<1>18. ASSUME NEW s \in Sections, s \notin lost'
       PROVE  /\ s \in InColumn' \/ s = "channels"
              /\ s \in InFile'
  <2>1. CASE s \in InFile' \cap InColumn'
    BY <2>1
  <2>2. CASE s \notin lost
    <3>1. s \in Kept /\ s \in InColumn
      BY <1>2, <2>2, SoloOwes, OwesAt DEF Kept
    <3> QED BY <1>5, <1>13, <1>14, <3>1
  <2> QED BY <1>12, <1>18, <2>1, <2>2
<1>19. Stays
  <2>1. asked'.channels = asked.channels /\ "channels" \in InColumn => "channels" \in InColumn'
    <3>1. Column' = Column
      BY <1>7 DEF Column
    <3> QED BY <3>1, SameSection DEF InColumn, Sections
  <2>2. InColumn \subseteq Sections
    BY MatchingBy DEF InColumn
  <2> QED BY <1>12, <1>13, <1>18, <2>1, <2>2 DEF Stays
<1> QED BY <1>1, <1>2, <1>11, <1>15, <1>16, <1>17, <1>18, <1>19, SoloNext

\* The other writers of the file: they change nothing that was asked for, and the
\* sections they harm are lost.
LEMMA FileWriteInv ==
    ASSUME IInv, IInv', Inv, NEW f \in Flows, Solo(f), ~OwesColumn(flow[f]),
           NEW c \in Config, NEW harmed, NEW sections, WriteFile(c, harmed), Done(f),
           UNCHANGED <<row, pod, old, issued, asked>>,
           cmd' = cmd \/ (Touch(sections) /\ harmed = sections),
           \A s \in Sections : s \notin lost \cup harmed => s \in Matching(c, asked),
           \A s \in Stale' : s \notin Matching(c, asked)
    PROVE  Inv' /\ Stays
<1>1. FlowOK /\ PodOK
  BY PartsOfIInv
<1>2. flow' = [flow EXCEPT ![f] = Idle]
  BY DEF Done
<1>3. /\ cmd'.kind = cmd.kind /\ cmd'.cfg = cmd.cfg /\ cmd.touched \subseteq cmd'.touched
  BY <1>1, Touched
<1>4. InColumn' = InColumn
  BY SameColumn
<1>5. /\ file' = c /\ file' # Absent /\ InFile' = Matching(c, asked)
      /\ lost' = (lost \cup harmed) \ (InFile' \cap InColumn')
  BY Written
<1>6. Stale' \subseteq Stale
  BY <1>3 DEF Stale
<1>7. Tokens' /\ HasDeployment' /\ Unwritten'
  BY <1>3, UnwrittenWhenWritten DEF Inv, Tokens, HasDeployment
<1>8. Undone'
  <2>1. \A s \in Stale' : s \notin InColumn' /\ s \notin InFile'
    BY <1>4, <1>5, <1>6 DEF Inv, Undone
  <2> QED BY <1>6, <2>1, UndoneWhenWritten DEF Inv
<1>9. Knows(Idle)' /\ Holds(Idle)'
  BY IdleKnows, KnowsAtNext, HoldsAt DEF Holding
<1>10. ASSUME NEW s \in Sections, s \notin lost'
       PROVE  s \in InColumn' /\ s \in InFile'
  <2>1. CASE s \notin lost \cup harmed
    BY <1>4, <1>5, <2>1, SoloOwes
  <2> QED BY <1>5, <1>10, <2>1
<1>11. Stays
  BY <1>5, <1>10, MatchingBy DEF Stays, InColumn
<1> QED BY <1>1, <1>2, <1>7, <1>8, <1>9, <1>10, <1>11, SoloNext

LEMMA WriteBotConfigInv ==
    ASSUME IInv, IInv', Inv, NEW f \in Flows, WriteBotConfig(f)
    PROVE  Inv' /\ Stays
<1>1. PodOK /\ flow[f].cfg \in Config
  BY FlowFields, PartsOfIInv
<1>2. flow[f].pc = "rawWrite" /\ Holds(flow[f]) /\ Solo(f)
  BY FlowInv, MainAlone DEF WriteBotConfig, At, IsSync
<1>3. PICK c \in Config : c = flow[f].cfg
  BY <1>1
<1>4. PICK sections : sections = flow[f].sections
  OBVIOUS
<1>5. /\ Kept \subseteq sections \cup Matching(c, asked)
      /\ Stale \cap Matching(c, asked) \subseteq sections
  BY <1>2, <1>3, <1>4, HoldsAt, ChangingAt DEF Holding
<1>6. /\ WriteFile(c, sections) /\ Touch(sections) /\ Done(f)
      /\ UNCHANGED <<row, pod, old, issued, asked>>
  BY <1>3, <1>4 DEF WriteBotConfig
<1>7. /\ cmd'.kind = cmd.kind /\ cmd'.cfg = cmd.cfg
      /\ cmd'.touched = cmd.touched \cup sections
  BY <1>1, <1>6, Touched
<1>8. \A s \in Stale' : s \in Stale /\ s \notin sections
  BY <1>6, <1>7 DEF Stale
<1>9. \A s \in Stale' : s \notin Matching(c, asked)
  BY <1>5, <1>8
<1>10. \A s \in Sections : s \notin lost \cup sections => s \in Matching(c, asked)
  BY <1>5 DEF Kept
<1>11. ~OwesColumn(flow[f])
  BY <1>2, OwesAt
<1> QED BY <1>2, <1>6, <1>9, <1>10, <1>11, FileWriteInv

LEMMA FullWriteInv ==
    ASSUME IInv, IInv', Inv, NEW f \in Flows, FullWrite(f)
    PROVE  Inv' /\ Stays
<1>1. flow[f].pc = "fullWrite" /\ Knows(flow[f]) /\ Solo(f) /\ Column \in Config
  BY FlowInv, MainAlone, ColumnType, PartsOfIInv DEF FullWrite, At, IsSync
<1>2. PICK c \in Config : c = Column
  BY <1>1
<1>3. /\ WriteFile(c, {}) /\ Done(f) /\ UNCHANGED <<row, cmd, pod, old, issued, asked>>
  BY <1>1, <1>2, KnowsAt DEF FullWrite, pods
<1>4. Matching(c, asked) = InColumn
  BY <1>2 DEF InColumn
<1>5. ~OwesColumn(flow[f])
  BY <1>1, OwesAt
<1>6. \A s \in Sections : s \notin lost \cup {} => s \in Matching(c, asked)
  BY <1>1, <1>4, <1>5, SoloOwes
<1>7. \A s \in Stale' : s \notin Matching(c, asked)
  <2>1. Stale' = Stale
    BY <1>3 DEF Stale
  <2> QED BY <1>4, <2>1 DEF Inv, Undone
<1> QED BY <1>1, <1>3, <1>5, <1>6, <1>7, FileWriteInv

LEMMA MergeWriteInv ==
    ASSUME IInv, IInv', Inv, NEW f \in Flows, MergeWrite(f)
    PROVE  Inv' /\ Stays
<1>1. flow[f].cfg \in Config
  BY FlowFields, PartsOfIInv
<1>2. flow[f].pc = "mergeWrite" /\ Knows(flow[f]) /\ Holds(flow[f]) /\ Solo(f)
  BY FlowInv, MainAlone DEF MergeWrite, At, IsSync
<1>3. PICK c \in Config : c = flow[f].cfg
  BY <1>1
<1>4. PICK harmed : harmed = flow[f].sections \ {"models"}
  OBVIOUS
<1>5. Kept \subseteq harmed \cup Matching(c, asked) /\ cmd.kind = "ifAbsent"
  BY <1>2, <1>3, <1>4, HoldsAt, ChangingAt, KnowsAt DEF Holding
<1>6. /\ WriteFile(c, harmed) /\ Done(f) /\ UNCHANGED <<row, cmd, pod, old, issued, asked>>
  BY <1>3, <1>4 DEF MergeWrite, pods
<1>7. \A s \in Sections : s \notin lost \cup harmed => s \in Matching(c, asked)
  BY <1>5 DEF Kept
<1>8. Stale' = {}
  BY <1>5, <1>6 DEF Stale
<1>9. ~OwesColumn(flow[f])
  BY <1>2, OwesAt
<1> QED BY <1>2, <1>6, <1>7, <1>8, <1>9, FileWriteInv

(***************************************************************************)
(* Steps beside the section syncs of earlier requests                      *)
(***************************************************************************)
LEMMA Beside ==
    ASSUME Inv, NEW f \in Flows, NEW g \in Flows \ {f}
    PROVE  /\ flow[f].pc \in SyncSteps => flow[g].pc \in {"idle", "read"} \cup SyncSteps
           /\ flow[f].pc = "read" => flow[g].pc = "idle" \/ IsSync(flow[g])
<1>1. /\ flow[f].pc # "idle" /\ flow[g].pc # "idle" =>
            \/ IsSync(flow[f]) /\ flow[g].pc = "read"
            \/ IsSync(flow[g]) /\ flow[f].pc = "read"
            \/ IsSync(flow[f]) /\ IsSync(flow[g])
  BY DEF Inv, Company
<1>2. /\ IsSync(flow[f]) => flow[f].pc \in SyncSteps
      /\ IsSync(flow[g]) => flow[g].pc \in SyncSteps
      /\ "idle" \notin SyncSteps /\ "read" \notin SyncSteps
  BY DEF IsSync, SyncSteps
<1> QED BY <1>1, <1>2

\* A section of the file after a sync is that of the row, or what it was.
LEMMA SectionsPatchInv ==
    ASSUME IInv, IInv', Inv, NEW f \in Flows, SectionsPatch(f)
    PROVE  Inv' /\ Stays
<1>1. /\ FlowOK /\ ColumnOK /\ flow[f].cfg \in Config /\ row.cfg \in Config
      /\ OnFile \in Config /\ flow[f].more \in BOOLEAN
  BY FlowFields, ColumnType, OnFileType, PartsOfIInv DEF FlowOK, Flow
<1>2. flow[f].pc = "patch" /\ Knows(flow[f]) /\ Ready
  BY FlowInv DEF SectionsPatch, At
<1>3. PICK sections : sections = flow[f].sections
  OBVIOUS
<1>4. /\ sections # {} /\ sections \subseteq {"models", "agents"} /\ row.status = "running"
      /\ pod # "pending" /\ \A s \in sections : flow[f].cfg[s] = row.cfg[s] /\ row.cfg[s] # Absent
  BY <1>2, <1>3, KnowsAt
<1>5. file # Absent /\ OnFile = file /\ InFile = Matching(file, asked)
  BY <1>2, ReadyFile DEF InFile
<1>6. PICK c : c = AssignSections(file, flow[f].cfg, sections)
  OBVIOUS
<1>7. c \in Config /\ WriteFile(c, {}) /\ UNCHANGED <<row, cmd, pod, old, issued, asked>>
  BY <1>1, <1>3, <1>5, <1>6, AssignType DEF SectionsPatch, pods
<1>8. /\ file' = c /\ file' # Absent /\ InFile' = Matching(c, asked)
      /\ lost' = lost \ (InFile' \cap InColumn')
  BY <1>7, Written
<1>9. InColumn' = InColumn /\ Column' = Column /\ Stale' = Stale
  BY <1>7, SameColumn DEF Stale
<1>10. \A s \in Sections : /\ s \in sections => (s \in InFile' <=> s \in InColumn)
                           /\ s \notin sections => (s \in InFile' <=> s \in InFile)
  <2>1. TAKE s \in Sections
  <2>2. CASE s \in sections
    <3>1. c[s] = row.cfg[s] /\ s # "auth"
      BY <1>1, <1>4, <1>5, <1>6, <2>2, AssignedSections
    <3> QED BY <1>1, <1>8, <2>2, <3>1, SameSection, ColumnFits
  <2>3. CASE s \notin sections
    <3>1. c[s] = file[s]
      BY <1>1, <1>5, <1>6, <2>3, AssignedSections
    <3> QED BY <1>5, <1>8, <2>3, <3>1, SameSection
  <2> QED BY <2>2, <2>3
<1>11. Tokens' /\ HasDeployment' /\ Unwritten'
  BY <1>7, UnwrittenWhenWritten DEF Inv, Tokens, HasDeployment
<1>12. Undone'
  <2>1. Undone /\ Stale \subseteq Sections
    BY DEF Inv, Stale
  <2>2. \A s \in Stale' : s \notin InColumn' /\ s \notin InFile'
    BY <1>4, <1>9, <1>10, <2>1 DEF Undone
  <2> QED BY <1>7, <1>9, <2>1, <2>2, UndoneWhenWritten
<1>13. PICK x : x = IF flow[f].more
                       THEN [Idle EXCEPT !.pc = "pull", !.sections = {}, !.more = FALSE] ELSE Idle
  OBVIOUS
<1>14. /\ flow' = [flow EXCEPT ![f] = x]
       /\ x = Idle \/ (flow[f].more /\ x.pc = "pull" /\ x.sections = {})
  BY <1>1, <1>13 DEF SectionsPatch, Carry, Done, Idle
<1>15. Company'
  <2>1. flow[f].more => Solo(f)
    BY <1>2, MainAlone DEF IsSync
  <2> QED BY <1>1, <1>14, <2>1, CompanyNext, IdleKnows
<1>16. flow'[f] = x /\ \A g \in Flows \ {f} : flow'[g] = flow[g]
  BY <1>1, <1>14 DEF FlowOK
<1>17. \A g \in Flows : Knows(flow[g])' /\ Holds(flow[g])'
  <2>1. SUFFICES ASSUME NEW g \in Flows PROVE Knows(flow[g])' /\ Holds(flow[g])'
    OBVIOUS
  <2>2. PICK y : y = flow'[g]
    OBVIOUS
  <2>3. Knows(y)' /\ Holds(y)'
    <3>1. CASE g = f
      <4>1. CASE x = Idle
        BY <1>16, <2>2, <3>1, <4>1, IdleKnows, KnowsAtNext, HoldsAt DEF Holding
      <4>2. CASE x.pc = "pull" /\ x.sections = {}
        BY <1>4, <1>7, <1>16, <2>2, <3>1, <4>2, KnowsAtNext, HoldsAt DEF Holding
      <4> QED BY <1>14, <4>1, <4>2
    <3>2. CASE g # f
      <4>1. Knows(y) /\ y.pc \in {"idle", "read"} \cup SyncSteps
        BY <1>2, <1>16, <2>2, <3>2, FlowInv, Beside DEF SyncSteps
      <4>2. Knows(y)'
        BY <1>7, <1>8, <1>9, <4>1 DEF Knows
      <4> QED BY <4>1, <4>2, HoldsAt DEF Holding, SyncSteps
    <3> QED BY <3>1, <3>2
  <2> QED BY <2>2, <2>3 DEF Knows, Holds
<1>18. ColumnKept'
  <2>1. \A g \in Flows : ~OwesColumn(flow[g])
    BY <1>2, Beside, OwesAt DEF SyncSteps
  <2>2. \A s \in Sections \ lost : s \in InColumn
    BY <2>1 DEF Inv, ColumnKept, OwedToColumn
  <2> QED BY <1>8, <1>9, <2>2 DEF ColumnKept
<1>19. FileKept'
  <2>1. SUFFICES ASSUME NEW s \in Sections, s \notin lost'
                 PROVE  s \in InFile' \/ s \in OwedToFile'
    BY DEF FileKept
  <2>2. CASE s \in InFile' \cap InColumn'
    BY <2>2
  <2>3. CASE s \notin lost /\ s \in sections
    <3>1. \A g \in Flows : ~OwesColumn(flow[g])
      BY <1>2, Beside, OwesAt DEF SyncSteps
    <3>2. s \in InColumn
      BY <2>3, <3>1 DEF Inv, ColumnKept, OwedToColumn
    <3> QED BY <1>10, <2>3, <3>2
  <2>4. CASE s \notin lost /\ s \notin sections
    <3>1. \/ s \in InFile
          \/ \E g \in Flows : OwesFile(flow[g]) /\ s \in flow[g].sections
      BY <1>4, <1>5, <2>4 DEF Inv, FileKept, OwedToFile
    <3>2. ASSUME NEW g \in Flows, OwesFile(flow[g]), s \in flow[g].sections
          PROVE  s \in OwedToFile'
      <4>1. OwesFile(flow'[g]) /\ s \in flow'[g].sections
        BY <1>3, <1>16, <2>4, <3>2
      <4> QED BY <4>1 DEF OwedToFile, OwesFile
    <3> QED BY <1>10, <2>4, <3>1, <3>2
  <2> QED BY <1>8, <2>1, <2>2, <2>3, <2>4
<1>20. Stays
  BY <1>8, <1>9, <1>10, MatchingBy DEF Stays, InColumn
<1> QED BY <1>11, <1>12, <1>15, <1>17, <1>18, <1>19, <1>20 DEF Inv

\* Sections of the row change as what is asked for does, and nothing else.
Edits(c, sections) ==
    /\ \A s \in Sections \ sections : c[s] = row.cfg[s] /\ asked'[s] = asked[s]
    /\ \A s \in sections : /\ c[s] # Absent
                           /\ s \in Matching(row.cfg, asked) => s \in Matching(c, asked')

\* One edit of the column, and a sync that carries it if the bot is running.
LEMMA EditSectionsInv ==
    ASSUME IInv, IInv', Inv, NEW f \in Flows, NEW op, NEW sections, Handles(f, op, sections),
           sections # {}, sections \subseteq {"models", "agents"},
           NEW c, NEW more \in BOOLEAN, EditSections(f, c, sections, more),
           more => sections = {"models", "agents"}, Edits(c, sections)
    PROVE  Inv' /\ Stays
<1>0. /\ \A s \in Sections \ sections : c[s] = row.cfg[s] /\ asked'[s] = asked[s]
      /\ \A s \in sections : /\ c[s] # Absent
                             /\ s \in Matching(row.cfg, asked) => s \in Matching(c, asked')
  BY DEF Edits
<1> USE <1>0
<1>1. FlowOK /\ ColumnOK /\ PodOK /\ ColumnOK'
  BY PartsOfIInv, PartsOfIInvNext
<1>2. /\ flow[f].pc = "read" /\ Bot(f) = row /\ pod # "pending"
      /\ Running(f) <=> row.status = "running"
      /\ Running(f) => file # Absent
      /\ more => Solo(f)
  BY Handled
<1>3. /\ Save(row, c) /\ Touch(sections) /\ UNCHANGED <<file, pod, old, issued>>
      /\ lost \subseteq lost'
      /\ ~Running(f) /\ file # Absent => sections \cap {"agents"} \subseteq lost'
  BY <1>2 DEF EditSections
<1>4. /\ row'.status = row.status /\ row'.token = row.token /\ row'.cfg = c
      /\ cmd'.kind = cmd.kind /\ cmd'.cfg = cmd.cfg
      /\ cmd'.touched = cmd.touched \cup sections
  BY <1>1, <1>3, Saved, Touched
<1>5. \A s \in Sections \ sections : /\ s \in InColumn' <=> s \in InColumn
                                     /\ s \in InFile' <=> s \in InFile
                                     /\ s \in Stale' => s \in Stale
  <2>1. TAKE s \in Sections \ sections
  <2>2. s \in InColumn' <=> s \in InColumn
    <3>1. CASE s = "auth"
      BY <1>1, <1>4, <3>1, ColumnAuth, ColumnNext
    <3>2. CASE s # "auth"
      BY <1>1, <1>4, <3>2, ColumnFits, ColumnNext, SameSection
    <3> QED BY <3>1, <3>2
  <2>3. s \in InFile' <=> s \in InFile
    BY <1>3, SameSection DEF InFile
  <2>4. s \in Matching(cmd'.cfg, asked') <=> s \in Matching(cmd.cfg, asked)
    BY <1>4, SameSection
  <2> QED BY <1>4, <2>2, <2>3, <2>4 DEF Stale
<1>6. \A g \in Flows \ {f} : flow[g].pc = "idle" \/ IsSync(flow[g])
  BY <1>2, Beside
<1>7. \A s \in Sections \ lost : s \in InColumn
  <2>1. \A g \in Flows : ~OwesColumn(flow[g])
    BY <1>2, <1>6, OwesAt DEF IsSync
  <2> QED BY <2>1 DEF Inv, ColumnKept, OwedToColumn
<1>8. \A s \in Sections \ lost : s \in InColumn'
  <2>1. TAKE s \in Sections \ lost
  <2>2. CASE s \in sections
    <3>1. s \in Sections \ {"auth"} /\ s \in Matching(row.cfg, asked)
      BY <1>1, <1>7, <2>2, ColumnFits
    <3> QED BY <1>1, <1>4, <2>2, <3>1, ColumnNext
  <2>3. CASE s \notin sections
    BY <1>5, <1>7, <2>3
  <2> QED BY <2>2, <2>3
<1>9. Tokens' /\ HasDeployment' /\ Unwritten'
  <2>1. asked'.auth = asked.auth
    BY DEF Sections
  <2> QED BY <1>2, <1>3, <1>4, <2>1 DEF Inv, Tokens, HasDeployment, Unwritten
<1>10. Undone'
  <2>1. Stale' \subseteq Sections \ sections
    BY <1>4 DEF Stale
  <2>2. Undone
    BY DEF Inv
  <2> QED BY <1>2, <1>3, <1>5, <2>1, <2>2 DEF Undone
<1>11. PICK x : x = IF Running(f)
                       THEN [Idle EXCEPT !.pc = "sections", !.sections = sections, !.more = more]
                       ELSE Idle
  OBVIOUS
<1>12. /\ flow' = [flow EXCEPT ![f] = x]
       /\ Running(f) => x.pc = "sections" /\ x.sections = sections /\ (x.more <=> more)
       /\ ~Running(f) => x = Idle
  BY <1>11 DEF EditSections, Carry, Done, Idle
<1>13. flow'[f] = x /\ \A g \in Flows \ {f} : flow'[g] = flow[g]
  BY <1>1, <1>12 DEF FlowOK
<1>14. \A g \in Flows \ {f} : flow[g].pc # "idle" =>
          IsSync(flow[g]) /\ flow[g].sections \cap sections = {}
  BY <1>6, IdleKnows DEF Handles, Alone
<1>15. Company'
  <2>1. CASE x.pc = "idle" \/ more
    BY <1>1, <1>2, <1>12, <2>1, CompanyNext
  <2>2. CASE x.pc # "idle" /\ ~more
    <3>1. IsSync(x) /\ x.sections = sections
      BY <1>12, <2>2, IdleKnows DEF IsSync
    <3>2. Company
      BY DEF Inv
    <3>3. SUFFICES ASSUME NEW g \in Flows, NEW h \in Flows, g # h, flow'[g].pc # "idle",
                          flow'[h].pc # "idle"
                   PROVE  /\ IsSync(flow'[g]) /\ IsSync(flow'[h])
                          /\ flow'[g].sections \cap flow'[h].sections = {}
      BY DEF Company, IsSync
    <3>4. CASE g = f
      BY <1>13, <1>14, <3>1, <3>3, <3>4
    <3>5. CASE h = f
      BY <1>13, <1>14, <3>1, <3>3, <3>5
    <3>6. CASE g # f /\ h # f
      <4>1. IsSync(flow[g]) /\ IsSync(flow[h])
        BY <1>13, <1>14, <3>3, <3>6
      <4>2. flow[g].pc # "read" /\ flow[h].pc # "read"
        BY <4>1 DEF IsSync
      <4> QED BY <1>13, <3>2, <3>3, <3>6, <4>1, <4>2 DEF Company
    <3> QED BY <3>4, <3>5, <3>6
  <2> QED BY <2>1, <2>2
<1>16. \A g \in Flows : Knows(flow[g])' /\ Holds(flow[g])'
  <2>1. SUFFICES ASSUME NEW g \in Flows PROVE Knows(flow[g])' /\ Holds(flow[g])'
    OBVIOUS
  <2>2. PICK y : y = flow'[g]
    OBVIOUS
  <2>3. Knows(y)' /\ Holds(y)'
    <3>1. CASE y = Idle
      BY <3>1, IdleKnows, KnowsAtNext, HoldsAt DEF Holding
    <3>2. CASE g = f /\ y # Idle
      <4>1. /\ y.pc = "sections" /\ y.sections = sections /\ row'.status = "running"
            /\ pod' # "pending" /\ \A s \in sections : row'.cfg[s] # Absent
        BY <1>2, <1>3, <1>4, <1>12, <1>13, <2>2, <3>2
      <4> QED BY <4>1, KnowsAtNext, HoldsAt DEF Holding
    <3>3. CASE g # f /\ y # Idle
      <4>1. y = flow[g] /\ Knows(y) /\ IsSync(y) /\ y.sections \cap sections = {}
        <5>1. y = flow[g] /\ Knows(y)
          BY <1>13, <2>2, <3>3, FlowInv
        <5>2. flow[g].pc # "idle"
          BY <3>3, <5>1, KnowsAt
        <5> QED BY <1>14, <3>3, <5>1, <5>2
      <4>2. /\ y.sections # {} /\ y.sections \subseteq {"models", "agents"}
            /\ \A s \in y.sections : row.cfg[s] # Absent
            /\ row.status = "running" /\ y.pc \in {"sections", "patch"}
            /\ y.pc = "patch" => \A s \in y.sections : y.cfg[s] = row.cfg[s]
        BY <4>1, KnowsAt DEF IsSync
      <4>3. \A s \in y.sections : row'.cfg[s] = row.cfg[s]
        BY <1>4, <4>1, <4>2 DEF Sections
      <4>4. CASE y.pc = "sections"
        BY <1>2, <1>3, <1>4, <4>2, <4>3, <4>4, KnowsAtNext, HoldsAt DEF Holding
      <4>5. CASE y.pc = "patch"
        BY <1>2, <1>3, <1>4, <4>2, <4>3, <4>5, KnowsAtNext, HoldsAt DEF Holding
      <4> QED BY <4>2, <4>4, <4>5
    <3> QED BY <3>1, <3>2, <3>3
  <2> QED BY <2>2, <2>3 DEF Knows, Holds
<1>17. ColumnKept'
  BY <1>3, <1>8 DEF ColumnKept
<1>18. FileKept'
  <2>1. SUFFICES ASSUME file # Absent, NEW s \in Sections, s \notin lost'
                 PROVE  s \in InFile' \/ s \in OwedToFile'
    BY <1>3 DEF FileKept
  <2>2. CASE s \in sections /\ Running(f)
    <3>1. OwesFile(x) /\ s \in x.sections
      BY <1>12, <2>2, OwesAt
    <3> QED BY <1>13, <3>1 DEF OwedToFile, OwesFile
  <2>3. CASE s = "models" /\ ~Running(f)
    BY <1>2, <1>4, <2>3 DEF OwedToFile
  <2>4. CASE s \notin sections /\ ~(s = "models" /\ ~Running(f))
    <3>1. \/ s \in InFile
          \/ \E g \in Flows : OwesFile(flow[g]) /\ s \in flow[g].sections
      BY <1>2, <1>3, <2>1, <2>4 DEF Inv, FileKept, OwedToFile
    <3>2. ASSUME NEW g \in Flows, OwesFile(flow[g]), s \in flow[g].sections
          PROVE  s \in OwedToFile'
      <4>1. g # f
        BY <1>2, <3>2, OwesAt
      <4>2. OwesFile(flow'[g]) /\ s \in flow'[g].sections
        BY <1>13, <3>2, <4>1
      <4> QED BY <4>2 DEF OwedToFile, OwesFile
    <3> QED BY <1>5, <2>4, <3>1, <3>2
  <2>5. CASE s \in sections /\ s # "models" /\ ~Running(f)
    BY <1>3, <2>1, <2>5
  <2> QED BY <2>2, <2>3, <2>4, <2>5
<1>19. Stays
  <2>1. SUFFICES ASSUME NEW s \in InFile \cap InColumn, asked'[s] = asked[s]
                 PROVE  s \in InFile' \cap InColumn'
    BY <1>3 DEF Stays
  <2>2. s \in Sections
    BY MatchingBy DEF InColumn
  <2>3. s \in InFile'
    BY <1>3, <2>1, <2>2, SameSection DEF InFile
  <2>4. CASE s \in sections
    <3>1. s \in Sections \ {"auth"} /\ s \in Matching(row.cfg, asked)
      BY <1>1, <2>1, <2>2, <2>4, ColumnFits
    <3> QED BY <1>1, <1>4, <2>3, <2>4, <3>1, ColumnNext
  <2>5. CASE s \notin sections
    BY <1>5, <2>1, <2>2, <2>3, <2>5
  <2> QED BY <2>4, <2>5
<1> QED BY <1>9, <1>10, <1>15, <1>16, <1>17, <1>18, <1>19 DEF Inv

\* The models of the row after an edit fit what is then asked for, if they did.
LEMMA ModelsEdited ==
    ASSUME NEW c, NEW d, NEW a, NEW b, NEW m \in ProviderMaps, c.models = m,
           ModelsFit(ProvidersOf(d), a.models) => ModelsFit(m, b.models)
    PROVE  /\ c.models # Absent
           /\ "models" \in Matching(d, a) => "models" \in Matching(c, b)
<1>1. c.models # Absent /\ ProvidersOf(c) = m
  BY AbsentOK DEF ProvidersOf
<1> QED BY <1>1, MatchingBy

LEMMA CopyOfRow ==
    ASSUME IInv, NEW f \in Flows, Bot(f) = row
    PROVE  /\ Copy(f) \in Config /\ ProvidersOf(Copy(f)) = ProvidersOf(row.cfg)
           /\ \A s \in Sections : Copy(f)[s] = row.cfg[s]
           /\ ProvidersOf(row.cfg) \in ProviderMaps /\ asked.models \in ProviderMaps
<1>1. row.cfg \in Config
  BY ColumnType, PartsOfIInv
<1>2. Copy(f) = Typed(row.cfg)
  BY DEF Copy
<1> QED BY <1>1, <1>2, TypedType, TypedSections, ProvidersOfType, PartsOfIInv
        DEF ProvidersOf, AskedOK

LEMMA PutProviderInv ==
    ASSUME IInv, IInv', Inv, NEW f \in Flows, NEW op, Handles(f, op, {"models"}),
           NEW p \in Providers, NEW e \in Entries, PutProvider(f, p, e)
    PROVE  Inv' /\ Stays
<1>1. Bot(f) = row /\ AskedOK
  BY Handled, PartsOfIInv
<1>2. PICK m : m = WithProvider(ProvidersOf(row.cfg), p, e)
  OBVIOUS
<1>3. PICK w : w = WithProvider(asked.models, p, e)
  OBVIOUS
<1>4. m \in ProviderMaps /\ w \in ProviderMaps
  BY <1>1, <1>2, <1>3, CopyOfRow, MapEdits
<1>5. PICK c : c = [Copy(f) EXCEPT !.models = m]
  OBVIOUS
<1>6. c.models = m /\ \A s \in Sections \ {"models"} : c[s] = row.cfg[s]
  BY <1>1, <1>5, CopyOfRow DEF Config, Sections
<1>7. EditSections(f, c, {"models"}, FALSE) /\ asked' = [asked EXCEPT !.models = w]
  BY <1>1, <1>2, <1>3, <1>5, CopyOfRow DEF PutProvider, AskedOK
<1>8. asked'.models = w /\ \A s \in Sections \ {"models"} : asked'[s] = asked[s]
  BY <1>1, <1>7 DEF AskedOK, Sections
<1>9. /\ c.models # Absent
      /\ "models" \in Matching(row.cfg, asked) => "models" \in Matching(c, asked')
  <2>1. ModelsFit(ProvidersOf(row.cfg), asked.models) => ModelsFit(m, asked'.models)
    BY <1>1, <1>2, <1>3, <1>8, CopyOfRow, EditsFit
  <2> QED BY <1>4, <1>6, <2>1, ModelsEdited
<1>10. PICK sections : sections = {"models"}
  OBVIOUS
<1>11. PICK more \in BOOLEAN : more = FALSE
  OBVIOUS
<1>12. /\ Handles(f, op, sections) /\ EditSections(f, c, sections, more)
       /\ sections # {} /\ sections \subseteq {"models", "agents"}
       /\ more => sections = {"models", "agents"}
  BY <1>7, <1>10, <1>11
<1>13. Edits(c, sections)
  BY <1>6, <1>8, <1>9, <1>10 DEF Edits
<1> QED BY <1>12, <1>13, EditSectionsInv

LEMMA DeleteModelProviderInv ==
    ASSUME IInv, IInv', Inv, NEW f \in Flows, NEW p \in Providers, DeleteModelProvider(f, p)
    PROVE  Inv' /\ Stays
<1>1. Bot(f) = row /\ AskedOK
  BY Handled, PartsOfIInv DEF DeleteModelProvider
<1>2. Copy(f).models = ProvidersOf(row.cfg)
  <2>1. p \in DOMAIN ProvidersOf(Copy(f))
    BY DEF DeleteModelProvider
  <2>2. DOMAIN NoProviders = {}
    BY DEF NoProviders
  <2>3. ProvidersOf(Copy(f)) = Copy(f).models
    BY <2>1, <2>2 DEF ProvidersOf
  <2> QED BY <1>1, <2>3, CopyOfRow
<1>3. PICK m : m = WithoutProvider(ProvidersOf(row.cfg), p)
  OBVIOUS
<1>4. PICK w : w = WithoutProvider(asked.models, p)
  OBVIOUS
<1>5. PICK e \in Entries : TRUE
  BY DataOK
<1>6. m \in ProviderMaps /\ w \in ProviderMaps
  BY <1>1, <1>3, <1>4, <1>5, CopyOfRow, MapEdits
<1>7. PICK c : c = [Copy(f) EXCEPT !.models = m]
  OBVIOUS
<1>8. c.models = m /\ \A s \in Sections \ {"models"} : c[s] = row.cfg[s]
  BY <1>1, <1>7, CopyOfRow DEF Config, Sections
<1>9. Copy(f) \in Config
  BY <1>1, CopyOfRow
<1>10. EditSections(f, c, {"models"}, FALSE) /\ asked' = [asked EXCEPT !.models = w]
  BY <1>1, <1>2, <1>3, <1>4, <1>7, <1>9 DEF DeleteModelProvider, Config, AskedOK
<1>11. asked'.models = w /\ \A s \in Sections \ {"models"} : asked'[s] = asked[s]
  BY <1>1, <1>10 DEF AskedOK, Sections
<1>12. /\ c.models # Absent
       /\ "models" \in Matching(row.cfg, asked) => "models" \in Matching(c, asked')
  <2>1. ModelsFit(ProvidersOf(row.cfg), asked.models) => ModelsFit(m, asked'.models)
    BY <1>1, <1>3, <1>4, <1>5, <1>11, CopyOfRow, EditsFit
  <2> QED BY <1>6, <1>8, <2>1, ModelsEdited
<1>13. Handles(f, "delete", {"models"})
  BY DEF DeleteModelProvider
<1>14. PICK sections : sections = {"models"}
  OBVIOUS
<1>15. PICK more \in BOOLEAN : more = FALSE
  OBVIOUS
<1>16. /\ Handles(f, "delete", sections) /\ EditSections(f, c, sections, more)
       /\ sections # {} /\ sections \subseteq {"models", "agents"}
       /\ more => sections = {"models", "agents"}
  BY <1>10, <1>13, <1>14, <1>15
<1>17. Edits(c, sections)
  BY <1>8, <1>11, <1>12, <1>14 DEF Edits
<1> QED BY <1>16, <1>17, EditSectionsInv

LEMMA SetAgentDefaultsInv ==
    ASSUME IInv, IInv', Inv, NEW f \in Flows, NEW p \in Providers, SetAgentDefaults(f, p)
    PROVE  Inv' /\ Stays
<1>1. Bot(f) = row /\ AskedOK
  BY Handled, PartsOfIInv DEF SetAgentDefaults
<1>2. PICK c : c = [Copy(f) EXCEPT !.agents = p]
  OBVIOUS
<1>3. c.agents = p /\ \A s \in Sections \ {"agents"} : c[s] = row.cfg[s]
  BY <1>1, <1>2, CopyOfRow DEF Config, Sections
<1>4. /\ EditSections(f, c, {"agents"}, FALSE) /\ asked' = [asked EXCEPT !.agents = p]
      /\ Handles(f, "defaults", {"agents"})
  BY <1>2 DEF SetAgentDefaults
<1>5. asked'.agents = p /\ \A s \in Sections \ {"agents"} : asked'[s] = asked[s]
  BY <1>1, <1>4 DEF AskedOK, Sections
<1>6. c.agents # Absent /\ "agents" \in Matching(c, asked')
  BY <1>3, <1>5, DataOK, MatchingBy
<1>7. PICK sections : sections = {"agents"}
  OBVIOUS
<1>8. PICK more \in BOOLEAN : more = FALSE
  OBVIOUS
<1>9. /\ Handles(f, "defaults", sections) /\ EditSections(f, c, sections, more)
      /\ sections # {} /\ sections \subseteq {"models", "agents"}
      /\ more => sections = {"models", "agents"}
  BY <1>4, <1>7, <1>8
<1>10. Edits(c, sections)
  BY <1>3, <1>5, <1>6, <1>7 DEF Edits
<1> QED BY <1>9, <1>10, EditSectionsInv

LEMMA AdminSetBotProviderInv ==
    ASSUME IInv, IInv', Inv, NEW f \in Flows, NEW p \in Providers, NEW e \in Entries,
           AdminSetBotProvider(f, p, e)
    PROVE  Inv' /\ Stays
<1>1. Bot(f) = row /\ AskedOK
  BY Handled, PartsOfIInv DEF AdminSetBotProvider
<1>2. PICK m : m = WithProvider(ProvidersOf(row.cfg), p, e)
  OBVIOUS
<1>3. PICK w : w = WithProvider(asked.models, p, e)
  OBVIOUS
<1>4. m \in ProviderMaps /\ w \in ProviderMaps
  BY <1>1, <1>2, <1>3, CopyOfRow, MapEdits
<1>5. PICK c : c = [Copy(f) EXCEPT !.agents = p, !.models = m]
  OBVIOUS
<1>6. /\ c.models = m /\ c.agents = p
      /\ \A s \in Sections \ {"models", "agents"} : c[s] = row.cfg[s]
  BY <1>1, <1>5, CopyOfRow DEF Config, Sections
<1>7. /\ EditSections(f, c, {"models", "agents"}, TRUE)
      /\ asked' = [asked EXCEPT !.models = w, !.agents = p]
      /\ Handles(f, "setProvider", {"models", "agents"})
  BY <1>1, <1>2, <1>3, <1>5, CopyOfRow DEF AdminSetBotProvider, AskedOK
<1>8. /\ asked'.models = w /\ asked'.agents = p
      /\ \A s \in Sections \ {"models", "agents"} : asked'[s] = asked[s]
  BY <1>1, <1>7 DEF AskedOK, Sections
<1>9. /\ c.models # Absent
      /\ "models" \in Matching(row.cfg, asked) => "models" \in Matching(c, asked')
  <2>1. ModelsFit(ProvidersOf(row.cfg), asked.models) => ModelsFit(m, asked'.models)
    BY <1>1, <1>2, <1>3, <1>8, CopyOfRow, EditsFit
  <2> QED BY <1>4, <1>6, <2>1, ModelsEdited
<1>10. c.agents # Absent /\ "agents" \in Matching(c, asked')
  BY <1>6, <1>8, DataOK, MatchingBy
<1>11. PICK sections : sections = {"models", "agents"}
  OBVIOUS
<1>12. PICK more \in BOOLEAN : more = TRUE
  OBVIOUS
<1>13. /\ Handles(f, "setProvider", sections) /\ EditSections(f, c, sections, more)
       /\ sections # {} /\ sections \subseteq {"models", "agents"}
       /\ more => sections = {"models", "agents"}
  BY <1>7, <1>11, <1>12
<1>14. Edits(c, sections)
  BY <1>6, <1>8, <1>9, <1>10, <1>11 DEF Edits
<1> QED BY <1>13, <1>14, EditSectionsInv

(***************************************************************************)
(* The pod                                                                 *)
(***************************************************************************)
\* What a start command leaves of the file, of what is lost and of what has to be
\* right in a copy.
LEMMA RanWhat ==
    ASSUME IInv, IInv', Inv, pod \in {"pending", "ready"}, RunCommand,
           UNCHANGED <<row, cmd, asked>>
    PROVE  /\ file' # Absent
           /\ \A s \in Sections \ lost' : s \in lost => s \in InColumn
           /\ file # Absent => Kept' \subseteq Kept
           /\ \A s \in Sections \ lost' :
                 \/ s \in InFile'
                 \/ file # Absent /\ s \notin lost /\ s \notin InFile /\ cmd.kind # "always"
           /\ Stale \subseteq lost' /\ Stale \cap InFile' = {}
<1>1. FileOK /\ PodOK /\ pod # "none"
  BY PartsOfIInv
<1>2. cmd.cfg \in Config /\ cmd.kind \in {"ifAbsent", "always"}
  BY <1>1 DEF PodOK, HasCommand, Command
<1>3. InColumn' = InColumn /\ Unwritten /\ Undone
  BY SameColumn DEF Inv
<1>4. CASE cmd.kind = "always"
  <2>1. file' = cmd.cfg /\ lost' = lost \cup cmd.touched /\ file # Absent
    BY <1>3, <1>4 DEF RunCommand, Unwritten
  <2>2. file' # Absent /\ InFile' = Matching(cmd.cfg, asked)
    BY <1>2, <2>1, AbsentOK DEF InFile
  <2>3. Kept = Sections \ lost /\ Kept' = Sections \ lost'
    BY <1>4 DEF Kept
  <2>4. \A s \in Sections \ lost' : s \in InFile'
    BY <1>3, <1>4, <2>1, <2>2 DEF Undone, Stale
  <2>5. Stale \cap InFile' = {}
    BY <2>2 DEF Stale
  <2> QED BY <1>3, <2>1, <2>2, <2>3, <2>4, <2>5 DEF Undone
<1>5. CASE cmd.kind = "ifAbsent" /\ file = Absent
  <2>1. /\ cmd.touched = {} /\ \A s \in Sections \ lost : s \in Matching(cmd.cfg, asked)
    BY <1>3, <1>5 DEF Unwritten
  <2>2. PICK harmed : harmed = cmd.touched
    OBVIOUS
  <2>3. WriteFile(cmd.cfg, harmed)
    BY <1>5, <2>2 DEF RunCommand
  <2>4. /\ file' # Absent /\ InFile' = Matching(cmd.cfg, asked)
        /\ lost' = lost \ (InFile' \cap InColumn)
    BY <1>2, <1>3, <2>1, <2>2, <2>3, Written
  <2>5. Stale = {}
    BY <1>5 DEF Stale
  <2> QED BY <1>5, <2>1, <2>4, <2>5
<1>6. CASE cmd.kind = "ifAbsent" /\ file # Absent
  <2>1. WriteFile(PatchAtStart(file), {}) /\ file \in Config
    BY <1>1, <1>6 DEF RunCommand, FileOK
  <2>2. PICK c \in Config : c = PatchAtStart(file)
    BY <2>1, PatchType
  <2>3. /\ file' # Absent /\ InFile' = Matching(c, asked)
        /\ lost' = lost \ (InFile' \cap InColumn)
    BY <1>3, <2>1, <2>2, Written
  <2>4. InFile' = InFile
    <3>1. \A s \in Sections : s \in Matching(c, asked) <=> s \in Matching(file, asked)
      BY <2>1, <2>2, TypedMatching
    <3> QED BY <1>6, <2>3, <3>1, MatchingBy DEF InFile
  <2>5. Kept' \subseteq Kept
    BY <1>3, <1>6, <2>3, <2>4 DEF Kept
  <2>6. Stale = {}
    BY <1>6 DEF Stale
  <2> QED BY <1>6, <2>3, <2>4, <2>5, <2>6
<1> QED BY <1>2, <1>4, <1>5, <1>6

LEMMA StartInv ==
    ASSUME IInv, IInv', Inv, pod \in {"pending", "ready"}, pod' = "started", RunCommand,
           UNCHANGED <<row, cmd, old, flow, issued, asked>>
    PROVE  Inv' /\ Stays
<1>1. /\ file' # Absent
      /\ \A s \in Sections \ lost' : s \in lost => s \in InColumn
      /\ file # Absent => Kept' \subseteq Kept
      /\ \A s \in Sections \ lost' :
            \/ s \in InFile'
            \/ file # Absent /\ s \notin lost /\ s \notin InFile /\ cmd.kind # "always"
      /\ Stale \subseteq lost' /\ Stale \cap InFile' = {}
  BY RanWhat
<1>2. InColumn' = InColumn /\ Column' = Column /\ Stale' = Stale
  BY SameColumn DEF Stale
<1>3. Company'
  BY DEF Inv, Company, IsSync
<1>4. Tokens' /\ HasDeployment' /\ Unwritten'
  BY <1>1 DEF Inv, Tokens, HasDeployment, Unwritten
<1>5. Undone'
  BY <1>1, <1>2 DEF Inv, Undone
<1>6. \A f \in Flows : Knows(flow[f])' /\ Holds(flow[f])'
  <2>1. SUFFICES ASSUME NEW f \in Flows PROVE Knows(flow[f])' /\ Holds(flow[f])'
    OBVIOUS
  <2>2. PICK y : y = flow[f]
    OBVIOUS
  <2>3. Knows(y) /\ Holds(y)
    BY <2>2, FlowInv
  <2>4. Knows(y)'
    BY <1>1, <1>2, <2>3 DEF Knows
  <2>5. Holds(y)'
    BY <1>1, <1>2, <2>3 DEF Holds, Changing, WithAccount
  <2> QED BY <2>2, <2>4, <2>5 DEF Knows, Holds
<1>7. ColumnKept'
  <2>1. OwedToColumn' = OwedToColumn
    BY DEF OwedToColumn, OwesColumn
  <2>2. ColumnKept
    BY DEF Inv
  <2> QED BY <1>1, <1>2, <2>1, <2>2 DEF ColumnKept
<1>8. FileKept'
  <2>1. SUFFICES ASSUME NEW s \in Sections, s \notin lost', s \notin InFile'
                 PROVE  s \in OwedToFile'
    BY DEF FileKept
  <2>2. s \in OwedToFile /\ cmd.kind # "always"
    BY <1>1, <2>1 DEF Inv, FileKept
  <2> QED BY <2>2 DEF OwedToFile, OwesFile
<1>9. Stays
  <2>1. InColumn \subseteq Sections /\ lost \subseteq Sections
    BY MatchingBy, PartsOfIInv DEF InColumn, FileOK
  <2> QED BY <1>1, <1>2, <2>1 DEF Stays
<1> QED BY <1>3, <1>4, <1>5, <1>6, <1>7, <1>8, <1>9 DEF Inv

\* A rollout has ended, and the file was written before.
LEMMA PodReadyInv ==
    ASSUME IInv, Inv, PodReady
    PROVE  Inv' /\ Stays
<1>1. /\ pod = "started" /\ pod' = "ready" /\ old' = FALSE
      /\ UNCHANGED <<row, file, cmd, flow, issued, asked, lost>>
  BY DEF PodReady
<1>2. file # Absent
  BY <1>1 DEF Inv, Unwritten
<1>3. InColumn' = InColumn /\ InFile' = InFile /\ Column' = Column /\ Stale' = Stale
  BY <1>1, SameColumn, SameFile DEF Stale
<1>4. Company'
  BY <1>1 DEF Inv, Company, IsSync
<1>5. Tokens' /\ HasDeployment' /\ Unwritten'
  BY <1>1, <1>2 DEF Inv, Tokens, HasDeployment, Unwritten
<1>6. Undone'
  BY <1>1, <1>3 DEF Inv, Undone
<1>7. \A f \in Flows : Knows(flow[f])' /\ Holds(flow[f])'
  <2>1. SUFFICES ASSUME NEW f \in Flows PROVE Knows(flow[f])' /\ Holds(flow[f])'
    OBVIOUS
  <2>2. PICK y : y = flow[f]
    OBVIOUS
  <2>3. Knows(y) /\ Holds(y)
    BY <2>2, FlowInv
  <2>4. Knows(y)'
    BY <1>1, <1>3, <2>3 DEF Knows
  <2>5. Holds(y)'
    BY <1>1, <1>3, <2>3 DEF Holds, Kept, Changing, WithAccount
  <2> QED BY <1>1, <2>2, <2>4, <2>5 DEF Knows, Holds
<1>8. ColumnKept' /\ FileKept'
  <2>1. OwedToColumn' = OwedToColumn /\ OwedToFile' = OwedToFile
    BY <1>1 DEF OwedToColumn, OwesColumn, OwedToFile, OwesFile
  <2> QED BY <1>1, <1>3, <2>1 DEF Inv, ColumnKept, FileKept
<1> QED BY <1>1, <1>3, <1>4, <1>5, <1>6, <1>7, <1>8 DEF Inv, Stays

LEMMA PodInv ==
    ASSUME IInv, IInv', Inv, PodStarts \/ PodReady \/ ContainerRestarts
    PROVE  Inv' /\ Stays
<1>1. CASE PodStarts
  BY <1>1, StartInv DEF PodStarts
<1>2. CASE PodReady
  BY <1>2, PodReadyInv
<1>3. CASE ContainerRestarts
  BY <1>3, StartInv DEF ContainerRestarts
<1> QED BY <1>1, <1>2, <1>3

(***************************************************************************)
(* The theorem                                                             *)
(***************************************************************************)
LEMMA InitInv == Init => Inv
<1> SUFFICES ASSUME Init PROVE Inv
  OBVIOUS
<1>1. PICK c \in Created : /\ row = [status |-> "stopped", token |-> 0, cfg |-> c]
                           /\ asked = AskedBy(c) /\ lost = Locked(c)
  BY DEF Init
<1>2. /\ file = Absent /\ cmd = NoCommand /\ pod = "none" /\ old = FALSE
      /\ flow = [f \in Flows |-> Idle] /\ issued = 0
  BY DEF Init
<1>3. IInv /\ ColumnOK /\ c \in Config
  BY InitIInv, PartsOfIInv, ConstantsOK
<1>4. /\ row.status = "stopped" /\ row.token = 0 /\ row.cfg = c /\ cmd.kind = "none"
      /\ asked.auth = IF c.auth = Password THEN Password ELSE 0
      /\ c.auth = Password => "auth" \in lost
  BY <1>1, <1>2 DEF NoCommand, AskedBy, Locked
<1>5. \A f \in Flows : flow[f] = Idle
  BY <1>2
<1>6. Company /\ \A f \in Flows : Knows(flow[f]) /\ Holds(flow[f])
  BY <1>5, IdleKnows DEF Company
<1>7. Stale = {}
  BY <1>4 DEF Stale
<1>8. Tokens /\ Unwritten /\ Undone /\ HasDeployment
  <2>1. asked.auth = Password => "auth" \in lost
    BY <1>4, DataOK
  <2> QED BY <1>2, <1>4, <1>7, <2>1 DEF Tokens, Unwritten, Undone, HasDeployment
<1>9. \A s \in Sections : s \in InColumn
  <2>1. \A s \in Sections \ {"auth"} : s \in InColumn
    BY <1>1, <1>3, <1>4, AskedByFits, ColumnFits
  <2>2. "auth" \in InColumn
    BY <1>3, <1>4, ColumnAuth
  <2> QED BY <2>1, <2>2
<1>10. ColumnKept /\ FileKept
  BY <1>2, <1>9 DEF ColumnKept, FileKept
<1> QED BY <1>6, <1>8, <1>10 DEF Inv

LEMMA RequestInv ==
    ASSUME IInv, IInv', Inv, NEW f \in Flows, Request(f)
    PROVE  Inv' /\ Stays
<1>1. CASE \E p \in Providers, e \in Entries :
              \/ AddModelProvider(f, p, e)
              \/ UpdateModelProvider(f, p, e)
              \/ AdminSetBotProvider(f, p, e)
  BY <1>1, PutProviderInv, AdminSetBotProviderInv
     DEF AddModelProvider, UpdateModelProvider
<1>2. CASE \E p \in Providers : DeleteModelProvider(f, p) \/ SetAgentDefaults(f, p)
  BY <1>2, DeleteModelProviderInv, SetAgentDefaultsInv
<1>3. CASE \E c \in Inputs : PutConfig(f, c) \/ RawMerge(f, c) \/ RawReplace(f, c)
  BY <1>3, PutConfigInv, RawInv
<1>4. CASE \E a \in Accounts : AddChannelToBot(f, a) \/ RemoveChannelFromBot(f, a)
  BY <1>4, ChannelInv
<1>5. CASE Arrive(f) \/ TouchBot(f) \/ ResetBotAccessToken(f)
  BY <1>5, ArriveInv, TouchBotInv, ResetInv
<1>6. CASE \/ GetBot(f) \/ StartBot(f) \/ AdminStartBot(f) \/ RestartBot(f)
           \/ StopBot(f) \/ UpgradeBot(f)
  BY <1>6, GetBotInv, StartsInv, StopBotInv, UpgradeBotInv
<1> QED BY <1>1, <1>2, <1>3, <1>4, <1>5, <1>6 DEF Request

LEMMA TailInv ==
    ASSUME IInv, IInv', Inv, NEW f \in Flows, Tail(f)
    PROVE  Inv' /\ Stays
<1>1. CASE \/ ReloadBot(f) \/ SaveToken(f) \/ SaveTokenFails(f)
           \/ UpdateDeploymentConfig(f) \/ AwaitPod(f)
  BY <1>1, ReloadBotInv, SaveTokenInv, SaveTokenFailsInv, RedeployInv, AwaitPodInv
<1>2. CASE \/ WriteChannels(f) \/ WriteBotConfig(f) \/ SectionsPatch(f) \/ FullWrite(f)
           \/ MergeWrite(f)
  BY <1>2, WriteChannelsInv, WriteBotConfigInv, SectionsPatchInv, FullWriteInv, MergeWriteInv
<1>3. CASE \/ SectionsRead(f) \/ FullRead(f) \/ MergeRead(f) \/ MergeReadFails(f)
           \/ PullRead(f) \/ PullRow(f) \/ PullSave(f)
  BY <1>3, SectionsReadInv, FullReadInv, MergeReadInv, MergeReadFailsInv, PullReadInv,
     PullRowInv, PullSaveInv
<1>4. CASE WaitExpires(f) \/ CallFails(f) \/ EditFails(f)
  BY <1>4, FailsInv
<1> QED BY <1>1, <1>2, <1>3, <1>4 DEF Tail

LEMMA IdleStepInv ==
    ASSUME Inv, UNCHANGED vars
    PROVE  Inv' /\ Stays
<1>1. UNCHANGED <<row, file, cmd, pod, old, flow, issued, asked, lost>>
  BY DEF vars
<1>2. InColumn' = InColumn /\ InFile' = InFile /\ Column' = Column
  BY <1>1, SameColumn, SameFile
<1>3. Stale' = Stale
  BY <1>1 DEF Stale
<1>4. Company'
  BY <1>1 DEF Inv, Company, IsSync
<1>5. Tokens' /\ HasDeployment' /\ Unwritten'
  BY <1>1 DEF Inv, Tokens, HasDeployment, Unwritten
<1>6. Undone'
  BY <1>1, <1>2, <1>3 DEF Inv, Undone
<1>7. \A f \in Flows : Knows(flow[f])' /\ Holds(flow[f])'
  <2>1. SUFFICES ASSUME NEW f \in Flows PROVE Knows(flow[f])' /\ Holds(flow[f])'
    OBVIOUS
  <2>2. PICK y : y = flow[f]
    OBVIOUS
  <2>3. Knows(y) /\ Holds(y)
    BY <2>2 DEF Inv
  <2>4. Knows(y)'
    BY <1>1, <1>2, <2>3 DEF Knows
  <2>5. Holds(y)'
    BY <1>1, <1>2, <1>3, <2>3 DEF Holds, Kept, Changing, WithAccount
  <2> QED BY <1>1, <2>2, <2>4, <2>5 DEF Knows, Holds
<1>8. ColumnKept' /\ FileKept'
  <2>1. OwedToColumn' = OwedToColumn /\ OwedToFile' = OwedToFile
    BY <1>1 DEF OwedToColumn, OwesColumn, OwedToFile, OwesFile
  <2> QED BY <1>1, <1>2, <2>1 DEF Inv, ColumnKept, FileKept
<1> QED BY <1>1, <1>2, <1>4, <1>5, <1>6, <1>7, <1>8 DEF Inv, Stays

LEMMA NextInv == IInv /\ IInv' /\ Inv /\ [Next]_vars => Inv' /\ Stays
<1> SUFFICES ASSUME IInv, IInv', Inv, [Next]_vars PROVE Inv' /\ Stays
  OBVIOUS
<1>1. CASE UNCHANGED vars
  BY <1>1, IdleStepInv
<1>2. CASE \E f \in Flows : Request(f) \/ Tail(f)
  BY <1>2, RequestInv, TailInv
<1>3. CASE PodStarts \/ PodReady \/ ContainerRestarts
  BY <1>3, PodInv
<1> QED BY <1>1, <1>2, <1>3 DEF Next

\* What a section still lacks in the column or in the file is lost, or some flow,
\* start or container is going to bring it, at every point of every request
\* (bot_model.go, config_sync.go, channel.go, deployment.go).
THEOREM InvHolds == Spec => []Inv
<1> QED BY InitIInv, NextIInv, InitInv, NextInv, PTL DEF Spec

LEMMA InvInForce == IInv /\ Inv => InForce
<1> SUFFICES ASSUME IInv, Inv, Quiet, row.status = "running", pod = "ready", ~old,
                    NEW s \in Sections \ lost
             PROVE  s \in Matching(file, asked) \cap Matching(Column, asked)
  BY DEF InForce, AtRest
<1>1. \A f \in Flows : ~OwesColumn(flow[f]) /\ ~OwesFile(flow[f])
  BY IdleKnows DEF Quiet
<1>2. file # Absent
  BY DEF Inv, Unwritten
<1>3. s \in InColumn
  BY <1>1 DEF Inv, ColumnKept, OwedToColumn
<1>4. s \in InFile
  BY <1>1, <1>2 DEF Inv, FileKept, OwedToFile
<1> QED BY <1>2, <1>3, <1>4 DEF InColumn, InFile

\* A running bot at rest has in its file and in its row what clients were told is
\* configured, section by section, except where a step failed or where the code
\* has no step that carries the section (config_sync.go, bot_model.go,
\* channel.go, deployment.go).
THEOREM InForceHolds == Spec => []InForce
<1> QED BY InitIInv, NextIInv, InitInv, NextInv, InvInForce, PTL DEF Spec

(***************************************************************************)
(* The contract                                                            *)
(***************************************************************************)
LEMMA ContractInit == Init => Contract!Init
<1> SUFFICES ASSUME Init PROVE Contract!Init
  OBVIOUS
<1>1. IInv /\ row.status = "stopped"
  BY InitIInv DEF Init
<1>2. lost \subseteq Sections /\ InColumn \subseteq Sections
  BY <1>1, PartsOfIInv, MatchingBy DEF FileOK, InColumn
<1> QED BY <1>1, <1>2 DEF Contract!Init, Contract!Brought, AtRest

LEMMA ContractStep ==
    IInv /\ IInv' /\ Inv /\ Inv' /\ InForce' /\ [Next]_vars
        => [Contract!Next]_<<asked, InFile \cap InColumn, lost, AtRest>>
<1> SUFFICES ASSUME IInv, IInv', Inv, Inv', InForce', [Next]_vars
             PROVE  Contract!Next
  OBVIOUS
<1>1. Stays
  BY NextInv
<1>2. Contract!Brought'
  <2>1. AtRest' => file' # Absent
    BY DEF Inv, Unwritten, AtRest
  <2> QED BY <2>1 DEF InForce, InFile, InColumn, Contract!Brought
<1>3. InColumn \subseteq Sections
  BY MatchingBy DEF InColumn
<1>4. CASE asked' = asked
  BY <1>1, <1>2, <1>4 DEF Contract!Next, Contract!Work, Contract!Stay, Stays
<1>5. CASE asked' # asked
  BY <1>1, <1>2, <1>3, <1>5 DEF Contract!Next, Contract!Ask, Contract!Stay, Stays
<1> QED BY <1>4, <1>5

\* What is in force stays in force at every step of every sync, pull, merge and
\* start, until it is asked for anew or lost: ConfigSync implements ConfigContract
\* (config_sync.go, botconfig.go, deployment.go).
THEOREM KeepsContractHolds == Spec => KeepsContract
<1>1. Spec => [](IInv /\ Inv)
  BY InitIInv, NextIInv, InitInv, NextInv, PTL DEF Spec
<1> QED BY <1>1, ContractInit, ContractStep, InForceHolds, PTL
        DEF Spec, KeepsContract, Contract!Spec
================================================================================
