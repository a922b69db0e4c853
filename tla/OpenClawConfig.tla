--------------------------- MODULE OpenClawConfig ---------------------------
(***************************************************************************)
(* The configuration of a bot as data: openclaw.json in the pod and the    *)
(* config column of the row, with every conversion and merge that          *)
(* service/k8s and handler/api/v1 apply to them.                           *)
(*                                                                         *)
(* A configuration keeps what the code tells apart: the models section     *)
(* (provider name -> entry, or no such section), the default model, the    *)
(* accounts of the channels, gateway.auth, and the keys that the Go types  *)
(* do not have.  An entry stands for its normal form: the defaults that    *)
(* buildProvidersMap fills in do not make it another entry.                *)
(***************************************************************************)
EXTENDS Naturals

CONSTANTS
    Providers,  \* provider names
    Entries,    \* what can be configured for a provider
    Anthropic,  \* the provider written when there is none
    Stock,      \* its entry: the public endpoint and no key
    Accounts,   \* accounts of channels: <<channel, account>>
    Absent,     \* a section that is not there, a file that does not exist
    Password    \* gateway.auth in mode "password"

ASSUME DataOK ==
    /\ Anthropic \in Providers
    /\ Stock \in Entries
    /\ Absent \notin Providers \cup Nat \cup {Password}
    /\ Password \notin Nat

ProviderMaps == UNION {[S -> Entries] : S \in SUBSET Providers}
NoProviders  == [p \in {} |-> Stock]

\* A default model is named by the provider that serves it.  A token is the
\* number of the reset that made it.
Config == [models   : {Absent} \cup ProviderMaps,
           agents   : {Absent} \cup Providers,
           channels : SUBSET Accounts,
           auth     : {Absent, Password} \cup Nat,
           extra    : SUBSET {"http", "other"}]

\* What is absent is told from what is there.
ASSUME AbsentOK == Absent \notin ProviderMaps /\ Absent \notin Config

EmptyConfig == [models |-> Absent, agents |-> Absent, channels |-> {},
                auth |-> Absent, extra |-> {}]

\* What the Go types keep of a JSON object: keys they do not declare are gone,
\* among them gateway.http.
Typed(c) == [c EXCEPT !.extra = {}]

ProvidersOf(c) == IF c.models = Absent THEN NoProviders ELSE c.models

\* The channel section with that of the request laid over it, channel by channel.
OverlayChannels(old, new) == {a \in old : \A n \in new : n[1] # a[1]} \cup new

(***************************************************************************)
(* What goes into a Deployment                                             *)
(***************************************************************************)
ConvertToK8sConfig(bot) ==
    LET c == Typed(bot.cfg) IN
    [token |-> bot.token, providers |-> ProvidersOf(c),
     agents |-> c.agents, channels |-> c.channels]

BuildProvidersMap(k) ==
    IF DOMAIN k.providers = {} THEN [p \in {Anthropic} |-> Stock] ELSE k.providers

\* The first of the providers, which Go ranges over in any order.
GetDefaultModelFromConfig(k) ==
    IF k.agents # Absent THEN {k.agents}
    ELSE IF DOMAIN k.providers # {} THEN DOMAIN k.providers
    ELSE {Anthropic}

BuildOpenClawConfig(k) ==
    {[models |-> BuildProvidersMap(k), agents |-> m, channels |-> k.channels,
      auth |-> k.token, extra |-> {"http"}] : m \in GetDefaultModelFromConfig(k)}

(***************************************************************************)
(* What is done to a file that exists                                      *)
(***************************************************************************)
\* Mutant: the token of the row takes the place of whatever auth the file has.
MergeConfigAndAuth(existing, k) ==
    [existing EXCEPT !.models   = BuildProvidersMap(k),
                     !.channels = OverlayChannels(@, k.channels),
                     !.auth     = k.token,
                     !.extra    = @ \cup {"http"}]

\* Every caller passes setDefaultModel = FALSE, and then the default model of
\* the file is never touched, whether there is one or not.
MergeConfigForModels(existing, k) ==
    [existing EXCEPT !.models   = BuildProvidersMap(k),
                     !.channels = OverlayChannels(@, k.channels),
                     !.auth     = IF @ = Absent THEN k.token ELSE @,
                     !.extra    = @ \cup {"http"}]

\* Mutant: every section of the row is carried, not those that were named.
AssignWhole(c, patch, sections) ==
    [c EXCEPT !.models = IF patch.models # Absent THEN patch.models ELSE @,
              !.agents = IF patch.agents # Absent THEN patch.agents ELSE @]

\* Object.assign in the pod: the sections of the patch and nothing else.
AssignSections(c, patch, sections) ==
    [c EXCEPT !.models = IF "models" \in sections /\ patch.models # Absent
                            THEN patch.models ELSE @,
              !.agents = IF "agents" \in sections /\ patch.agents # Absent
                            THEN patch.agents ELSE @]

\* gateway.auth as SyncConfigToPod sets it before it writes the whole file.
WithGatewayAuth(c, token) ==
    [Typed(c) EXCEPT !.auth = IF @ = Password THEN @ ELSE token]

\* mergeMap: top-level keys of the input replace those of the file.
MergeMap(dst, src) ==
    [models   |-> IF src.models = Absent THEN dst.models ELSE src.models,
     agents   |-> IF src.agents = Absent THEN dst.agents ELSE src.agents,
     channels |-> IF src.channels = {} THEN dst.channels ELSE src.channels,
     auth     |-> IF src.auth = Absent THEN dst.auth ELSE src.auth,
     extra    |-> IF src.auth = Absent THEN dst.extra \cup src.extra
                  ELSE (dst.extra \ {"http"}) \cup src.extra]

\* The node script of the start command on a file that it found.
PatchAtStart(c) ==
    IF c.auth = Absent THEN c ELSE [c EXCEPT !.extra = @ \cup {"http"}]
=============================================================================
