----------------------------- MODULE RolloutProofs -----------------------------
(***************************************************************************)
(* Proofs about the changes of Deployments, for any number of handlers,    *)
(* bots, images and tokens, and any limit of upgrades at once.             *)
(***************************************************************************)
EXTENDS Rollout, FiniteSetTheorems, TLAPS

(***************************************************************************)
(* Type correctness, and the values in the channel sem                     *)
(***************************************************************************)
\* The goroutines between the two ends of their deferred functions.
Holding == {b \in Bots : worker[b].pc \in {"look", "getImage", "putImage", "release"}}

Typed == TypeOK /\ slots = Cardinality(Holding)

\* What was got of a Deployment nobody wrote since is what the Deployment is.
Current ==
    /\ dep = meant
    /\ \A r \in Requests :
          req[r].pc \in {"putToken", "putImage"} /\ req[r].current =>
             Present(req[r].bot) /\ req[r].got = dep[req[r].bot]
    /\ \A b \in Bots :
          worker[b].pc = "putImage" /\ worker[b].current =>
             Present(b) /\ worker[b].got = dep[b]

\* What outdates a request or a goroutine leaves everything else of it.
LEMMA StaleRequest ==
    ASSUME NEW x \in Request
    PROVE  /\ Stale(x) \in Request
           /\ Stale(x).pc = x.pc
           /\ x.pc # "idle" => Stale(x).bot = x.bot
           /\ x.pc \in TokenSteps => /\ Stale(x).token = x.token
                                     /\ Stale(x).alone <=> x.alone
           /\ x.pc \in {"putToken", "putImage"} => ~Stale(x).current
<1>1. CASE x.pc = "putToken"
  <2>1. x \in [pc : {"putToken"}, bot : Bots, token : Token, alone : BOOLEAN,
               got : Deployment, current : BOOLEAN]
    BY <1>1 DEF Request, Idle
  <2> QED BY <1>1, <2>1 DEF Request, Stale
<1>2. CASE x.pc = "putImage"
  <2>1. x \in [pc : {"putImage"}, bot : Bots, image : Images,
               got : Deployment, current : BOOLEAN]
    BY <1>2 DEF Request, Idle
  <2> QED BY <1>2, <2>1 DEF Request, Stale, TokenSteps
<1>3. CASE x.pc \notin {"putToken", "putImage"}
  BY <1>3 DEF Stale
<1> QED BY <1>1, <1>2, <1>3

LEMMA StaleWorker ==
    ASSUME NEW x \in Worker
    PROVE  /\ Stale(x) \in Worker
           /\ Stale(x).pc = x.pc
           /\ x.pc = "putImage" => ~Stale(x).current
<1>1. CASE x.pc = "putImage"
  <2>1. x \in [pc : {"putImage"}, got : Deployment, current : BOOLEAN]
    BY <1>1 DEF Worker
  <2> QED BY <1>1, <2>1 DEF Worker, Stale
<1>2. CASE x.pc # "putImage"
  <2>1. x.pc # "putToken"
    BY DEF Worker
  <2> QED BY <1>2, <2>1 DEF Stale
<1> QED BY <1>1, <1>2

\* What the requests have at their steps.
LEMMA RequestFields ==
    ASSUME NEW x \in Request
    PROVE  /\ x.pc # "idle" => x.bot \in Bots
           /\ x.pc \in TokenSteps => x.token \in Token /\ x.alone \in BOOLEAN
           /\ x.pc \in {"getImage", "putImage"} => x.image \in Images
           /\ x.pc \in {"putToken", "putImage"} =>
                 x.got \in Deployment /\ x.current \in BOOLEAN
           /\ x.pc \in TokenSteps \cup {"idle", "getImage", "putImage"}
           /\ x.pc = "idle" => x = Idle
BY DEF Request, Idle, TokenSteps

\* A Deployment of b is written: all requests and goroutines stay what they are.
LEMMA WrittenType ==
    ASSUME Typed, NEW b \in Bots
    PROVE  /\ Outdated(b) \in [Requests -> Request]
           /\ [worker EXCEPT ![b] = Stale(@)] \in [Bots -> Worker]
           /\ \A o \in Requests :
                 /\ Outdated(b)[o].pc = req[o].pc
                 /\ Outdated(b)[o] \in {req[o], Stale(req[o])}
                 /\ req[o].pc # "idle" => Outdated(b)[o].bot = req[o].bot
                 /\ req[o].pc # "idle" /\ req[o].bot = b =>
                       Outdated(b)[o] = Stale(req[o])
                 /\ req[o].pc # "idle" /\ req[o].bot # b => Outdated(b)[o] = req[o]
           /\ \A c \in Bots : [worker EXCEPT ![b] = Stale(@)][c].pc = worker[c].pc
<1>1. \A o \in Requests : req[o] \in Request
  BY DEF Typed, TypeOK
<1>2. \A c \in Bots : worker[c] \in Worker
  BY DEF Typed, TypeOK
<1>3. ASSUME NEW o \in Requests
      PROVE  Outdated(b)[o] = IF req[o] # Idle /\ req[o].bot = b THEN Stale(req[o]) ELSE req[o]
  BY DEF Outdated
<1>4. Outdated(b) \in [Requests -> Request]
  BY <1>1, StaleRequest DEF Outdated
<1>5. [worker EXCEPT ![b] = Stale(@)] \in [Bots -> Worker]
  BY <1>2, StaleWorker DEF Typed, TypeOK
<1>6. ASSUME NEW o \in Requests
      PROVE  /\ Outdated(b)[o].pc = req[o].pc
             /\ Outdated(b)[o] \in {req[o], Stale(req[o])}
             /\ req[o].pc # "idle" => Outdated(b)[o].bot = req[o].bot
             /\ req[o].pc # "idle" /\ req[o].bot = b => Outdated(b)[o] = Stale(req[o])
             /\ req[o].pc # "idle" /\ req[o].bot # b => Outdated(b)[o] = req[o]
  <2>1. req[o].pc # "idle" => req[o] # Idle
    BY DEF Idle
  <2> QED BY <1>1, <1>3, <2>1, StaleRequest
<1>7. \A c \in Bots : [worker EXCEPT ![b] = Stale(@)][c].pc = worker[c].pc
  BY <1>2, StaleWorker DEF Typed, TypeOK
<1> QED BY <1>4, <1>5, <1>6, <1>7

\* A request is typed as long as what it becomes is.
LEMMA SetRequest ==
    ASSUME Typed, NEW r \in Requests, NEW x \in Request, req' = [req EXCEPT ![r] = x]
    PROVE  req' \in [Requests -> Request]
BY DEF Typed, TypeOK

LEMMA IdleType == Idle \in Request /\ Idle.pc = "idle"
BY DEF Idle, Request

\* The beginning of a change of a token.
LEMMA BeginType ==
    ASSUME Typed, NEW r \in Requests, NEW pc \in {"restart", "start", "reload"},
           NEW b \in Bots, NEW new \in Token, Begin(r, pc, b, new)
    PROVE  /\ req' \in [Requests -> Request]
           /\ req'[r].pc = pc /\ req'[r].bot = b /\ req'[r].token = new
           /\ req'[r].alone => \A o \in Requests \ {r} : ~Changes(o, b)
           /\ \A o \in Requests \ {r} :
                 /\ req'[o].pc = req[o].pc
                 /\ Changes(o, b) => ~req'[o].alone /\ req'[o].bot = b
                 /\ req[o].pc = "putToken" => /\ req'[o].got = req[o].got
                                              /\ req'[o].bot = req[o].bot
                                              /\ req'[o].current <=> req[o].current
                 /\ ~Changes(o, b) => req'[o] = req[o]
<1> DEFINE others == {o \in Requests \ {r} : Changes(o, b)}
<1>1. PICK c \in BOOLEAN : c = (others = {})
  OBVIOUS
<1>2. req' = [o \in Requests |->
                 IF o = r THEN [pc |-> pc, bot |-> b, token |-> new, alone |-> c]
                 ELSE IF o \in others THEN [req[o] EXCEPT !.alone = FALSE] ELSE req[o]]
  BY <1>1 DEF Begin
<1>3. /\ req'[r] \in Request /\ req'[r].pc = pc /\ req'[r].bot = b /\ req'[r].token = new
      /\ req'[r].alone => c
  <2>1. req'[r] = [pc |-> pc, bot |-> b, token |-> new, alone |-> c]
    BY <1>2
  <2> HIDE DEF others
  <2> QED BY <2>1 DEF Request
<1>4. ASSUME NEW o \in Requests \ {r}
      PROVE  /\ req'[o] \in Request
             /\ req'[o].pc = req[o].pc
             /\ Changes(o, b) => ~req'[o].alone /\ req'[o].bot = b
             /\ req[o].pc = "putToken" => /\ req'[o].got = req[o].got
                                          /\ req'[o].bot = req[o].bot
                                          /\ req'[o].current <=> req[o].current
             /\ ~Changes(o, b) => req'[o] = req[o]
  <2>1. req[o] \in Request
    BY DEF Typed, TypeOK
  <2>2. CASE ~Changes(o, b)
    BY <1>2, <2>1, <2>2
  <2>3. CASE Changes(o, b)
    <3>1. req'[o] = [req[o] EXCEPT !.alone = FALSE]
      BY <1>2, <2>3
    <3>2. req[o].pc \in TokenSteps /\ req[o].bot = b
      BY <2>3 DEF Changes
    <3>3. CASE req[o].pc = "putToken"
      <4>1. req[o] \in [pc : {"putToken"}, bot : Bots, token : Token, alone : BOOLEAN,
                        got : Deployment, current : BOOLEAN]
        BY <2>1, <3>3 DEF Request, Idle
      <4> QED BY <2>3, <3>1, <3>2, <4>1 DEF Request
    <3>4. CASE req[o].pc # "putToken"
      <4>1. req[o] \in [pc : {"restart", "start", "reload", "save", "getToken"},
                        bot : Bots, token : Token, alone : BOOLEAN]
        BY <2>1, <3>2, <3>4 DEF Request, Idle, TokenSteps
      <4> QED BY <2>3, <3>1, <3>2, <4>1 DEF Request
    <3> QED BY <3>3, <3>4
  <2> QED BY <2>2, <2>3
<1>5. req' \in [Requests -> Request]
  BY <1>2, <1>3, <1>4
<1>6. c => \A o \in Requests \ {r} : ~Changes(o, b)
  BY <1>1
<1> HIDE DEF others
<1> QED BY <1>3, <1>4, <1>5, <1>6

\* Goroutines that are at the same steps hold the same slots.
LEMMA HoldingKept ==
    ASSUME \A b \in Bots : worker'[b].pc = worker[b].pc, Typed, slots' = slots
    PROVE  slots' = Cardinality(Holding')
<1>1. Holding' = Holding
  BY DEF Holding
<1> QED BY <1>1 DEF Typed

\* Slots are taken and given back one by one.
LEMMA HoldingFinite ==
    ASSUME ConstantsOK, Typed
    PROVE  /\ IsFiniteSet(Holding) /\ slots \in Nat
           /\ \A b \in Holding : slots > 0 /\ Cardinality(Holding \ {b}) = slots - 1
           /\ \A b \in Bots \ Holding : Cardinality(Holding \cup {b}) = slots + 1
<1>1. IsFiniteSet(Holding)
  BY FS_Subset DEF ConstantsOK, Holding
<1>2. slots \in Nat /\ slots = Cardinality(Holding)
  BY <1>1, FS_CardinalityType DEF Typed
<1>3. ASSUME NEW b \in Holding
      PROVE  slots > 0 /\ Cardinality(Holding \ {b}) = slots - 1
  <2>1. Cardinality(Holding \ {b}) = Cardinality(Holding) - 1
    BY <1>1, FS_RemoveElement
  <2>2. Cardinality(Holding) # 0
    BY <1>1, <1>3, FS_EmptySet
  <2> QED BY <1>2, <2>1, <2>2
<1>4. ASSUME NEW b \in Bots \ Holding
      PROVE  Cardinality(Holding \cup {b}) = slots + 1
  BY <1>1, <1>2, FS_AddElement
<1> QED BY <1>1, <1>2, <1>3, <1>4

LEMMA TypedInit == ConstantsOK /\ Init => Typed
<1> SUFFICES ASSUME ConstantsOK, Init PROVE Typed
  OBVIOUS
<1>1. Holding = {}
  BY DEF Init, Holding
<1>2. slots = Cardinality(Holding)
  BY <1>1, FS_EmptySet DEF Init
<1>3. dep \in [Bots -> Deployment \cup {Absent}]
  BY DEF Init, Deployment, Token, ConstantsOK
<1>4. batch \in Batch /\ slots \in 0 .. Limit
  BY DEF Init, Batch, ConstantsOK
<1>5. worker \in [Bots -> Worker]
  BY DEF Init, Worker
<1> QED
  BY <1>2, <1>3, <1>4, <1>5, IdleType DEF Init, Typed, TypeOK, Token, ConstantsOK

\* Handlers keep the types.
LEMMA HandlerType ==
    ASSUME ConstantsOK, Typed, Current, NEW r \in Requests,
           \/ \E b \in Asked : \/ ReadRow(r, b) \/ ResetBotAccessToken(r, b)
                               \/ \E image \in Images : UpgradeBot(r, b, image)
           \/ ReplaceDeployment(r) \/ ReplaceFails(r)
           \/ ReloadBot(r) \/ SaveBot(r) \/ GetForToken(r) \/ PutToken(r) \/ ResetEnds(r)
           \/ GetForImage(r) \/ PutImage(r) \/ UpgradeFails(r)
    PROVE  Typed'
<1> DEFINE x == req[r]
<1>1. /\ x \in Request
      /\ \A b \in Bots : token[b] \in Token /\ dep[b] \in Deployment \cup {Absent}
      /\ \A b \in Bots : issued[b] \in Token /\ meant[b] \in Deployment \cup {Absent}
  BY DEF Typed, TypeOK
<1>2. ASSUME UNCHANGED <<batch, worker, slots>>, req' \in [Requests -> Request],
             {token', issued'} \subseteq [Bots -> Token],
             {dep', meant'} \subseteq [Bots -> Deployment \cup {Absent}], sure' \in SUBSET Bots
      PROVE  Typed'
  <2>1. slots' = Cardinality(Holding')
    BY <1>2, HoldingKept
  <2> QED BY <1>2, <2>1 DEF Typed, TypeOK
<1>3. ASSUME NEW b \in Asked, ReadRow(r, b) \/ ResetBotAccessToken(r, b)
      PROVE  Typed'
  <2>1. b \in Bots
    BY DEF ConstantsOK
  <2>2. PICK pc \in {"restart", "start", "reload"} : Begin(r, pc, b, token[b])
    BY <1>3 DEF ReadRow, ResetBotAccessToken
  <2>3. req' \in [Requests -> Request]
    BY <1>1, <2>1, <2>2, BeginType
  <2>4. {token', issued'} \subseteq [Bots -> Token]
    <3>1. CASE ReadRow(r, b)
      BY <3>1 DEF ReadRow, Typed, TypeOK
    <3>2. CASE ResetBotAccessToken(r, b)
      <4>1. issued[b] + 1 \in Token
        BY <1>1, <2>1, <3>2 DEF ResetBotAccessToken, Token, ConstantsOK
      <4>2. issued' = [issued EXCEPT ![b] = issued[b] + 1]
        BY <3>2 DEF ResetBotAccessToken
      <4>3. issued' \in [Bots -> Token] /\ issued'[b] \in Token
        BY <2>1, <4>1, <4>2 DEF Typed, TypeOK
      <4>4. token' = [token EXCEPT ![b] = issued'[b]]
        BY <3>2 DEF ResetBotAccessToken
      <4> QED BY <4>3, <4>4 DEF Typed, TypeOK
    <3> QED BY <1>3, <3>1, <3>2
  <2>5. UNCHANGED <<dep, meant, sure, batch, worker, slots>>
    BY <1>3 DEF ReadRow, ResetBotAccessToken, upgrade
  <2> QED BY <1>2, <2>3, <2>4, <2>5 DEF Typed, TypeOK
<1>4. ASSUME NEW b \in Asked, NEW image \in Images, UpgradeBot(r, b, image)
      PROVE  Typed'
  <2>1. [pc |-> "getImage", bot |-> b, image |-> image] \in Request
    BY DEF Request, ConstantsOK
  <2>2. req' \in [Requests -> Request]
    BY <1>4, <2>1, SetRequest DEF UpgradeBot, Step
  <2> QED BY <1>2, <1>4, <2>2 DEF UpgradeBot, upgrade, Typed, TypeOK
\* A Deployment is written at the end of a request.
<1>5. ASSUME NEW b \in Bots, NEW d \in Deployment, NEW m \in Deployment \cup {Absent},
             dep' = [dep EXCEPT ![b] = d], meant' = [meant EXCEPT ![b] = m],
             req' = [Outdated(b) EXCEPT ![r] = Idle],
             worker' = [worker EXCEPT ![b] = Stale(@)],
             sure' \in SUBSET Bots, UNCHANGED <<token, issued, batch, slots>>
      PROVE  Typed'
  <2>1. /\ req' \in [Requests -> Request]
        /\ worker' \in [Bots -> Worker]
        /\ \A c \in Bots : worker'[c].pc = worker[c].pc
    BY <1>5, WrittenType, IdleType
  <2>2. slots' = Cardinality(Holding')
    BY <1>5, <2>1, HoldingKept
  <2> QED BY <1>5, <2>1, <2>2 DEF Typed, TypeOK
<1>6. ASSUME ReplaceDeployment(r)
      PROVE  Typed'
  <2>1. x.pc \in TokenSteps /\ x.bot \in Bots /\ x.token \in Token
    BY <1>1, <1>6, RequestFields DEF ReplaceDeployment, At, TokenSteps
  <2>2. Spec0(r) \in Deployment
    BY <2>1 DEF Spec0, Deployment, ConstantsOK
  <2>3. sure' \in SUBSET Bots
    BY <1>6, <2>1 DEF ReplaceDeployment, Sure, Typed, TypeOK
  <2> QED BY <1>5, <1>6, <2>1, <2>2, <2>3 DEF ReplaceDeployment
<1>7. ASSUME ReplaceFails(r) \/ ResetEnds(r)
      PROVE  Typed'
  <2>1. x.bot \in Bots
    BY <1>1, <1>7, RequestFields DEF ReplaceFails, ResetEnds
  <2>2. sure' \in SUBSET Bots
    BY <1>7, <2>1 DEF ReplaceFails, ResetEnds, Sure, Typed, TypeOK
  <2>3. req' \in [Requests -> Request]
    BY <1>7, IdleType, SetRequest DEF ReplaceFails, ResetEnds, Step
  <2> QED BY <1>2, <1>7, <2>2, <2>3 DEF ReplaceFails, ResetEnds, upgrade, Typed, TypeOK
<1>8. ASSUME ReloadBot(r)
      PROVE  Typed'
  <2>1. x \in [pc : {"reload"}, bot : Bots, token : Token, alone : BOOLEAN]
    BY <1>1, <1>8 DEF ReloadBot, At, Request, Idle
  <2>2. [x EXCEPT !.pc = "save", !.token = token[x.bot]] \in Request
    BY <1>1, <2>1 DEF Request
  <2>3. req' \in [Requests -> Request]
    BY <1>8, <2>2, SetRequest DEF ReloadBot, Step
  <2> QED BY <1>2, <1>8, <2>3 DEF ReloadBot, upgrade, Typed, TypeOK
<1>9. ASSUME SaveBot(r)
      PROVE  Typed'
  <2>1. x \in [pc : {"save"}, bot : Bots, token : Token, alone : BOOLEAN]
    BY <1>1, <1>9 DEF SaveBot, At, Request, Idle
  <2>2. [x EXCEPT !.pc = "getToken"] \in Request
    BY <2>1 DEF Request
  <2>3. req' \in [Requests -> Request]
    BY <1>9, <2>2, SetRequest DEF SaveBot, Step
  <2>4. token' \in [Bots -> Token]
    BY <1>9, <2>1 DEF SaveBot, Typed, TypeOK
  <2> QED BY <1>2, <1>9, <2>3, <2>4 DEF SaveBot, upgrade, Typed, TypeOK
<1>10. ASSUME GetForToken(r)
       PROVE  Typed'
  <2>1. x \in [pc : {"getToken"}, bot : Bots, token : Token, alone : BOOLEAN]
    BY <1>1, <1>10 DEF GetForToken, At, Request, Idle
  <2>2. dep[x.bot] \in Deployment
    BY <1>1, <1>10, <2>1 DEF GetForToken, Present
  <2>3. [pc |-> "putToken", bot |-> x.bot, token |-> x.token, alone |-> x.alone,
         got |-> dep[x.bot], current |-> TRUE] \in Request
    BY <2>1, <2>2 DEF Request
  <2>4. req' \in [Requests -> Request]
    BY <1>10, <2>3, SetRequest DEF GetForToken, Step
  <2> QED BY <1>2, <1>10, <2>4 DEF GetForToken, upgrade, Typed, TypeOK
<1>11. ASSUME PutToken(r)
       PROVE  Typed'
  <2>1. x.pc = "putToken" /\ x.bot \in Bots /\ x.token \in Token /\ x.got \in Deployment
    BY <1>1, <1>11, RequestFields DEF PutToken, At, TokenSteps
  <2>2. /\ [x.got EXCEPT !.token = x.token] \in Deployment
        /\ [meant[x.bot] EXCEPT !.token = x.token] \in Deployment \cup {Absent}
    BY <1>1, <2>1 DEF Deployment, Absent
  <2>3. sure' \in SUBSET Bots
    BY <1>11, <2>1 DEF PutToken, Sure, Typed, TypeOK
  <2> QED BY <1>5, <1>11, <2>1, <2>2, <2>3 DEF PutToken
<1>12. ASSUME GetForImage(r)
       PROVE  Typed'
  <2>1. x.bot \in Bots /\ x.image \in Images
    BY <1>1, <1>12, RequestFields DEF GetForImage, At
  <2>2. dep[x.bot] \in Deployment
    BY <1>1, <1>12, <2>1 DEF GetForImage, Present
  <2>3. [pc |-> "putImage", bot |-> x.bot, image |-> x.image, got |-> dep[x.bot],
         current |-> TRUE] \in Request
    BY <2>1, <2>2 DEF Request
  <2>4. req' \in [Requests -> Request]
    BY <1>12, <2>3, SetRequest DEF GetForImage, Step
  <2> QED BY <1>2, <1>12, <2>4 DEF GetForImage, upgrade, Typed, TypeOK
<1>13. ASSUME PutImage(r)
       PROVE  Typed'
  <2>1. x.pc = "putImage" /\ x.bot \in Bots /\ x.image \in Images /\ x.got \in Deployment
    BY <1>1, <1>13, RequestFields DEF PutImage, At
  <2>2. meant[x.bot] \in Deployment
    BY <1>1, <1>13, <2>1 DEF PutImage, Accepted, Current, Present
  <2>3. /\ [x.got EXCEPT !.image = x.image] \in Deployment
        /\ [meant[x.bot] EXCEPT !.image = x.image] \in Deployment \cup {Absent}
    BY <2>1, <2>2 DEF Deployment
  <2> QED BY <1>5, <1>13, <2>1, <2>3 DEF PutImage, WithImage, Typed, TypeOK
<1>14. ASSUME UpgradeFails(r)
       PROVE  Typed'
  <2>1. req' \in [Requests -> Request]
    BY <1>14, IdleType, SetRequest DEF UpgradeFails, Step
  <2> QED BY <1>2, <1>14, <2>1 DEF UpgradeFails, upgrade, Typed, TypeOK
<1> QED
  BY <1>3, <1>4, <1>6, <1>7, <1>8, <1>9, <1>10, <1>11, <1>12, <1>13, <1>14

\* The upgrade of all bots and the deletion of a Deployment keep the types.
LEMMA UpgradeType ==
    ASSUME ConstantsOK, Typed, Current,
           \/ \E b \in Bots : DeleteDeployment(b) \/ WorkerStep(b)
           \/ \E image \in Images, listed \in SUBSET Bots : UpgradeAllBots(image, listed)
           \/ UpgradeAnswered
    PROVE  Typed'
<1>1. /\ \A b \in Bots : worker[b] \in Worker /\ dep[b] \in Deployment \cup {Absent}
      /\ batch \in Batch /\ batch.image \in Images
      /\ worker = [b \in Bots |-> worker[b]]
  BY DEF Typed, TypeOK, Batch
<1>2. ASSUME NEW b \in Bots, DeleteDeployment(b)
      PROVE  Typed'
  <2>1. /\ req' \in [Requests -> Request]
        /\ worker' \in [Bots -> Worker]
        /\ \A c \in Bots : worker'[c].pc = worker[c].pc
    BY <1>2, WrittenType DEF DeleteDeployment
  <2>2. slots' = Cardinality(Holding')
    BY <1>2, <2>1, HoldingKept DEF DeleteDeployment
  <2> QED BY <1>2, <2>1, <2>2 DEF DeleteDeployment, Typed, TypeOK
\* A goroutine goes from one step to another with its slot, or without.
<1>3. ASSUME NEW b \in Bots, NEW w \in Worker, worker' = [worker EXCEPT ![b] = w],
             b \in Holding <=> w.pc \in {"look", "getImage", "putImage", "release"},
             UNCHANGED <<token, issued, batch, sure, slots>>,
             req' \in [Requests -> Request],
             {dep', meant'} \subseteq [Bots -> Deployment \cup {Absent}]
      PROVE  Typed'
  <2>1. worker' \in [Bots -> Worker]
    BY <1>3 DEF Typed, TypeOK
  <2>2. Holding' = Holding
    BY <1>1, <1>3 DEF Holding
  <2> QED BY <1>3, <2>1, <2>2 DEF Typed, TypeOK
<1>4. ASSUME NEW b \in Bots, Acquire(b)
      PROVE  Typed'
  <2>1. worker' = [worker EXCEPT ![b] = [pc |-> "look"]]
    BY <1>4 DEF Acquire, Worker1
  <2>2. worker' \in [Bots -> Worker]
    BY <1>1, <2>1 DEF Worker
  <2>3. b \notin Holding /\ Holding' = Holding \cup {b}
    BY <1>1, <1>4, <2>1 DEF Acquire, Works, Holding
  <2>4. slots' = slots + 1 /\ slots' = Cardinality(Holding') /\ slots' \in 0 .. Limit
    BY <1>4, <2>3, HoldingFinite DEF Acquire, ConstantsOK
  <2> QED BY <1>4, <2>2, <2>4 DEF Acquire, Worker1, Typed, TypeOK
<1>5. ASSUME NEW b \in Bots, Look(b)
      PROVE  Typed'
  <2>1. b \in Holding
    BY <1>5 DEF Look, Works, Holding
  <2>2. PICK pc \in {"release", "getImage"} : worker' = [worker EXCEPT ![b] = [pc |-> pc]]
    BY <1>5 DEF Look, Worker1
  <2>3. [pc |-> pc] \in Worker
    BY DEF Worker
  <2> QED BY <1>3, <1>5, <2>1, <2>2, <2>3 DEF Look, Worker1, AsItWas, Typed, TypeOK
<1>6. ASSUME NEW b \in Bots, WorkerGets(b)
      PROVE  Typed'
  <2>1. b \in Holding
    BY <1>6 DEF WorkerGets, Works, Holding
  <2>2. CASE Worker1(b, "release")
    <3>1. [pc |-> "release"] \in Worker
      BY DEF Worker
    <3> QED BY <1>3, <1>6, <2>1, <2>2, <3>1 DEF WorkerGets, Worker1, AsItWas, Typed, TypeOK
  <2>3. CASE ~Worker1(b, "release")
    <3>1. [pc |-> "putImage", got |-> dep[b], current |-> TRUE] \in Worker
      BY <1>1, <1>6, <2>3 DEF WorkerGets, Present, Worker
    <3> QED BY <1>3, <1>6, <2>1, <2>3, <3>1 DEF WorkerGets, AsItWas, Typed, TypeOK
  <2> QED BY <2>2, <2>3
<1>7. ASSUME NEW b \in Bots, WorkerPuts(b)
      PROVE  Typed'
  <2>1. b \in Holding /\ worker[b].pc = "putImage"
    BY <1>7 DEF WorkerPuts, Works, Holding
  <2>2. [pc |-> "release"] \in Worker
    BY DEF Worker
  <2>3. worker[b].got \in Deployment
    BY <1>1, <2>1 DEF Worker
  <2>4. CASE AsItWas
    BY <1>3, <1>7, <2>1, <2>2, <2>4 DEF WorkerPuts, Worker1, AsItWas, Typed, TypeOK
  <2>5. CASE ~AsItWas
    <3>1. meant[b] \in Deployment
      BY <1>1, <1>7, <2>1, <2>5 DEF WorkerPuts, Accepted, Current, Present
    <3>2. /\ [worker[b].got EXCEPT !.image = batch.image] \in Deployment
          /\ [meant[b] EXCEPT !.image = batch.image] \in Deployment
      BY <1>1, <2>3, <3>1 DEF Deployment
    <3>3. {dep', meant'} \subseteq [Bots -> Deployment \cup {Absent}]
      BY <1>7, <2>5, <3>2 DEF WorkerPuts, WithImage, Typed, TypeOK
    <3>4. req' \in [Requests -> Request]
      BY <1>7, <2>5, WrittenType DEF WorkerPuts
    <3> QED BY <1>3, <1>7, <2>1, <2>2, <2>5, <3>3, <3>4 DEF WorkerPuts, Worker1
  <2> QED BY <2>4, <2>5
<1>8. ASSUME NEW b \in Bots, Release(b)
      PROVE  Typed'
  <2>1. worker' = [worker EXCEPT ![b] = [pc |-> "done"]]
    BY <1>8 DEF Release, Worker1
  <2>2. worker' \in [Bots -> Worker]
    BY <1>1, <2>1 DEF Worker
  <2>3. b \in Holding /\ Holding' = Holding \ {b}
    BY <1>1, <1>8, <2>1 DEF Release, Works, Holding
  <2>4. slots' = slots - 1 /\ slots' = Cardinality(Holding') /\ slots > 0
    BY <1>8, <2>3, HoldingFinite DEF Release
  <2>5. slots' \in 0 .. Limit
    BY <2>4 DEF ConstantsOK, Typed, TypeOK
  <2> QED BY <1>8, <2>2, <2>4, <2>5 DEF Release, Worker1, Typed, TypeOK
<1>9. ASSUME NEW image \in Images, NEW listed \in SUBSET Bots, UpgradeAllBots(image, listed)
      PROVE  Typed'
  <2>1. worker' \in [Bots -> Worker] /\ \A b \in Bots : worker'[b].pc \in {"waiting", "done"}
    BY <1>9 DEF UpgradeAllBots, Worker
  <2>2. Holding' = {}
    BY <2>1 DEF Holding
  <2>3. slots' = Cardinality(Holding') /\ slots' \in 0 .. Limit
    BY <1>9, <2>2, FS_EmptySet DEF UpgradeAllBots, ConstantsOK
  <2>4. batch' \in Batch
    BY <1>9 DEF UpgradeAllBots, Batch
  <2> QED BY <1>9, <2>1, <2>3, <2>4 DEF UpgradeAllBots, Typed, TypeOK
<1>10. ASSUME UpgradeAnswered
       PROVE  Typed'
  <2>1. batch' \in Batch /\ Holding' = Holding
    BY <1>10 DEF UpgradeAnswered, Batch, ConstantsOK, Holding
  <2> QED BY <1>10, <2>1 DEF UpgradeAnswered, Typed, TypeOK
<1> QED
  BY <1>2, <1>4, <1>5, <1>6, <1>7, <1>8, <1>9, <1>10 DEF WorkerStep

LEMMA TypedStep == ConstantsOK /\ Typed /\ Current /\ [Next]_vars => Typed'
<1> SUFFICES ASSUME ConstantsOK, Typed, Current, [Next]_vars PROVE Typed'
  OBVIOUS
<1>1. CASE UNCHANGED vars
  BY <1>1 DEF vars, upgrade, Typed, TypeOK, Holding
<1>2. CASE Next
  BY <1>2, HandlerType, UpgradeType DEF Next
<1> QED BY <1>1, <1>2

(***************************************************************************)
(* Writes of what was got before                                           *)
(***************************************************************************)
\* A write of a Deployment outdates what all others got of it.
LEMMA WrittenCurrent ==
    ASSUME Typed, Current, NEW b \in Bots, dep' = meant',
           \A c \in Bots \ {b} : dep'[c] = dep[c],
           \A o \in Requests : req'[o] = Idle \/ req'[o] = Outdated(b)[o],
           \A c \in Bots : \/ worker'[c] = [worker EXCEPT ![b] = Stale(@)][c]
                           \/ worker'[c].pc # "putImage"
    PROVE  Current'
<1>1. ASSUME NEW o \in Requests, req'[o].pc \in {"putToken", "putImage"}, req'[o].current
      PROVE  dep'[req'[o].bot] # Absent /\ req'[o].got = dep'[req'[o].bot]
  <2>1. req'[o] = Outdated(b)[o] /\ req[o] \in Request
    BY <1>1, IdleType DEF Typed, TypeOK
  <2>2. req[o].pc \in {"putToken", "putImage"} /\ req[o].bot \in Bots
    BY <1>1, <2>1, WrittenType, RequestFields
  <2>3. req[o].bot # b
    BY <1>1, <2>1, <2>2, WrittenType, StaleRequest
  <2>4. req'[o] = req[o]
    BY <2>1, <2>2, <2>3, WrittenType
  <2> QED BY <1>1, <2>2, <2>3, <2>4 DEF Current, Present
<1>2. ASSUME NEW c \in Bots, worker'[c].pc = "putImage", worker'[c].current
      PROVE  dep'[c] # Absent /\ worker'[c].got = dep'[c]
  <2>1. worker[c] \in Worker /\ worker' [c] = IF c = b THEN Stale(worker[c]) ELSE worker[c]
    BY <1>2 DEF Typed, TypeOK
  <2>2. c # b
    BY <1>2, <2>1, StaleWorker
  <2> QED BY <1>2, <2>1, <2>2 DEF Current, Present
<1> QED BY <1>1, <1>2 DEF Current, Present

\* Where none is written, what is newly got is what is there.
LEMMA ReadCurrent ==
    ASSUME Typed, Current, dep' = dep, meant' = meant,
           \A o \in Requests :
              \/ req'[o].pc \notin {"putToken", "putImage"}
              \/ req'[o] = req[o]
              \/ /\ req[o].pc = "putToken"
                 /\ req'[o].bot = req[o].bot /\ req'[o].got = req[o].got
                 /\ req'[o].current => req[o].current
              \/ dep[req'[o].bot] # Absent /\ req'[o].got = dep[req'[o].bot],
           \A c \in Bots : \/ worker'[c].pc # "putImage"
                           \/ worker'[c] = worker[c]
                           \/ dep[c] # Absent /\ worker'[c].got = dep[c]
    PROVE  Current'
<1>1. ASSUME NEW o \in Requests, req'[o].pc \in {"putToken", "putImage"}, req'[o].current
      PROVE  dep'[req'[o].bot] # Absent /\ req'[o].got = dep'[req'[o].bot]
  BY <1>1 DEF Current, Present
<1>2. ASSUME NEW c \in Bots, worker'[c].pc = "putImage", worker'[c].current
      PROVE  dep'[c] # Absent /\ worker'[c].got = dep'[c]
  BY <1>2 DEF Current, Present
<1> QED BY <1>1, <1>2 DEF Current, Present

\* The handlers that write a Deployment.
LEMMA HandlerWrites ==
    ASSUME ConstantsOK, Typed, Current, NEW r \in Requests,
           ReplaceDeployment(r) \/ PutToken(r) \/ PutImage(r)
    PROVE  Current'
<1> DEFINE x == req[r]
           b == x.bot
<1>1. x \in Request /\ b \in Bots
  BY RequestFields DEF ReplaceDeployment, PutToken, PutImage, At, Typed, TypeOK
<1>2. /\ req' = [Outdated(b) EXCEPT ![r] = Idle]
      /\ worker' = [worker EXCEPT ![b] = Stale(@)]
  BY DEF ReplaceDeployment, PutToken, PutImage
<1>3. Outdated(b) \in [Requests -> Request]
  BY <1>1, WrittenType
<1>4. \A c \in Bots \ {b} : dep'[c] = dep[c]
  BY <1>1 DEF ReplaceDeployment, PutToken, PutImage, WithImage, Typed, TypeOK
<1>5. dep' = meant'
  <2>1. CASE ReplaceDeployment(r)
    BY <1>1, <2>1 DEF ReplaceDeployment, Current
  <2>2. CASE PutToken(r)
    <3>1. x.got = meant[b]
      BY <1>1, <2>2 DEF PutToken, At, Accepted, Current
    <3> QED BY <1>1, <2>2, <3>1 DEF PutToken, Current
  <2>3. CASE PutImage(r)
    <3>1. x.got = meant[b]
      BY <1>1, <2>3 DEF PutImage, At, Accepted, Current
    <3> QED BY <1>1, <2>3, <3>1 DEF PutImage, WithImage, Current
  <2> QED BY <2>1, <2>2, <2>3
<1>6. \A o \in Requests : req'[o] = Idle \/ req'[o] = Outdated(b)[o]
  BY <1>2, <1>3
<1> QED BY <1>1, <1>2, <1>4, <1>5, <1>6, WrittenCurrent

\* The other steps of the handlers.
LEMMA HandlerReads ==
    ASSUME ConstantsOK, Typed, Current, NEW r \in Requests,
           \/ \E b \in Asked : \/ ReadRow(r, b) \/ ResetBotAccessToken(r, b)
                               \/ \E image \in Images : UpgradeBot(r, b, image)
           \/ ReplaceFails(r) \/ ReloadBot(r) \/ SaveBot(r) \/ GetForToken(r)
           \/ ResetEnds(r) \/ GetForImage(r) \/ UpgradeFails(r)
    PROVE  Current'
<1>1. /\ req[r] \in Request
      /\ UNCHANGED <<dep, meant, worker>>
  BY DEF ReadRow, ResetBotAccessToken, UpgradeBot, ReplaceFails, ReloadBot, SaveBot,
         GetForToken, ResetEnds, GetForImage, UpgradeFails, upgrade, Typed, TypeOK
<1>2. ASSUME NEW b \in Asked, ReadRow(r, b) \/ ResetBotAccessToken(r, b)
      PROVE  Current'
  <2>1. b \in Bots /\ token[b] \in Token
    BY DEF ConstantsOK, Typed, TypeOK
  <2>2. PICK pc \in {"restart", "start", "reload"} : Begin(r, pc, b, token[b])
    BY <1>2 DEF ReadRow, ResetBotAccessToken
  <2>3. ASSUME NEW o \in Requests
        PROVE  \/ req'[o].pc \notin {"putToken", "putImage"}
               \/ req'[o] = req[o]
               \/ /\ req[o].pc = "putToken"
                  /\ req'[o].bot = req[o].bot /\ req'[o].got = req[o].got
                  /\ req'[o].current => req[o].current
    <3>1. CASE o = r
      BY <2>1, <2>2, <3>1, BeginType
    <3>2. CASE o # r
      <4>1. Changes(o, b) => req[o].pc \in TokenSteps
        BY DEF Changes
      <4> QED BY <2>1, <2>2, <3>2, <4>1, BeginType DEF TokenSteps
    <3> QED BY <3>1, <3>2
  <2> QED BY <1>1, <2>3, ReadCurrent
\* All others go to a step of their own.
<1>3. ASSUME NEW y, req' = [req EXCEPT ![r] = y],
             \/ y.pc \notin {"putToken", "putImage"}
             \/ dep[y.bot] # Absent /\ y.got = dep[y.bot]
      PROVE  Current'
  <2>1. \A o \in Requests : req'[o] = IF o = r THEN y ELSE req[o]
    BY <1>3 DEF Typed, TypeOK
  <2> QED BY <1>1, <1>3, <2>1, ReadCurrent
<1>4. ASSUME NEW b \in Asked, NEW image \in Images, UpgradeBot(r, b, image)
      PROVE  Current'
  BY <1>3, <1>4 DEF UpgradeBot, Step
<1>5. ASSUME ReplaceFails(r) \/ ResetEnds(r) \/ UpgradeFails(r)
      PROVE  Current'
  BY <1>3, <1>5, IdleType DEF ReplaceFails, ResetEnds, UpgradeFails, Step
<1>6. ASSUME ReloadBot(r)
      PROVE  Current'
  <2>1. req[r] \in [pc : {"reload"}, bot : Bots, token : Token, alone : BOOLEAN]
    BY <1>1, <1>6 DEF ReloadBot, At, Request, Idle
  <2> QED BY <1>3, <1>6, <2>1 DEF ReloadBot, Step
<1>7. ASSUME SaveBot(r)
      PROVE  Current'
  <2>1. req[r] \in [pc : {"save"}, bot : Bots, token : Token, alone : BOOLEAN]
    BY <1>1, <1>7 DEF SaveBot, At, Request, Idle
  <2> QED BY <1>3, <1>7, <2>1 DEF SaveBot, Step
<1>8. ASSUME GetForToken(r)
      PROVE  Current'
  BY <1>3, <1>8 DEF GetForToken, Step, Present
<1>9. ASSUME GetForImage(r)
      PROVE  Current'
  BY <1>3, <1>9 DEF GetForImage, Step, Present
<1> QED BY <1>2, <1>4, <1>5, <1>6, <1>7, <1>8, <1>9

\* The upgrade of all bots, and the deletion of a Deployment.
LEMMA UpgradeCurrent ==
    ASSUME ConstantsOK, Typed, Current,
           \/ \E b \in Bots : DeleteDeployment(b) \/ WorkerStep(b)
           \/ \E image \in Images, listed \in SUBSET Bots : UpgradeAllBots(image, listed)
           \/ UpgradeAnswered
    PROVE  Current'
<1>1. ASSUME NEW b \in Bots, DeleteDeployment(b)
      PROVE  Current'
  <2>1. dep' = meant' /\ \A c \in Bots \ {b} : dep'[c] = dep[c]
    BY <1>1 DEF DeleteDeployment, Current, Typed, TypeOK
  <2> QED BY <1>1, <2>1, WrittenCurrent DEF DeleteDeployment
\* A goroutine that writes nothing.
<1>2. ASSUME NEW b \in Bots, NEW w, worker' = [worker EXCEPT ![b] = w],
             w.pc # "putImage" \/ (dep[b] # Absent /\ w.got = dep[b]),
             UNCHANGED <<dep, meant, req>>
      PROVE  Current'
  <2>1. \A c \in Bots : worker'[c] = IF c = b THEN w ELSE worker[c]
    BY <1>2 DEF Typed, TypeOK
  <2> QED BY <1>2, <2>1, ReadCurrent
<1>3. ASSUME NEW b \in Bots, Acquire(b) \/ Look(b) \/ Release(b)
      PROVE  Current'
  <2>1. PICK pc \in {"look", "release", "done", "getImage"} :
           worker' = [worker EXCEPT ![b] = [pc |-> pc]]
    BY <1>3 DEF Acquire, Look, Release, Worker1
  <2> QED BY <1>2, <1>3, <2>1 DEF Acquire, Look, Release, AsItWas
<1>4. ASSUME NEW b \in Bots, WorkerGets(b)
      PROVE  Current'
  BY <1>2, <1>4 DEF WorkerGets, Worker1, AsItWas, Present
<1>5. ASSUME NEW b \in Bots, WorkerPuts(b)
      PROVE  Current'
  <2>1. worker[b].pc = "putImage" /\ worker' = [worker EXCEPT ![b] = [pc |-> "release"]]
    BY <1>5 DEF WorkerPuts, Works, Worker1
  <2>2. CASE AsItWas
    BY <1>2, <2>1, <2>2 DEF AsItWas
  <2>3. CASE ~AsItWas
    <3>1. worker[b].got = meant[b] /\ WithImage(b, worker[b].got, batch.image)
      BY <1>5, <2>1, <2>3 DEF WorkerPuts, Accepted, Current
    <3>2. dep' = meant' /\ \A c \in Bots \ {b} : dep'[c] = dep[c]
      BY <3>1 DEF WithImage, Current, Typed, TypeOK
    <3>3. req' = Outdated(b)
      BY <1>5, <2>3 DEF WorkerPuts
    <3>4. \A c \in Bots : \/ worker'[c] = [worker EXCEPT ![b] = Stale(@)][c]
                          \/ worker'[c].pc # "putImage"
      BY <2>1 DEF Typed, TypeOK
    <3> QED BY <3>2, <3>3, <3>4, WrittenCurrent
  <2> QED BY <2>2, <2>3
<1>6. ASSUME NEW image \in Images, NEW listed \in SUBSET Bots, UpgradeAllBots(image, listed)
      PROVE  Current'
  <2>1. \A c \in Bots : worker'[c].pc # "putImage"
    BY <1>6 DEF UpgradeAllBots
  <2> QED BY <1>6, <2>1, ReadCurrent DEF UpgradeAllBots
<1>7. ASSUME UpgradeAnswered
      PROVE  Current'
  BY <1>7, ReadCurrent DEF UpgradeAnswered
<1> QED BY <1>1, <1>3, <1>4, <1>5, <1>6, <1>7 DEF WorkerStep

LEMMA CurrentStep == ConstantsOK /\ Typed /\ Current /\ [Next]_vars => Current'
<1> SUFFICES ASSUME ConstantsOK, Typed, Current, [Next]_vars PROVE Current'
  OBVIOUS
<1>1. CASE UNCHANGED vars
  BY <1>1 DEF vars, upgrade, Current, Present
<1>2. CASE Next
  BY <1>2, HandlerWrites, HandlerReads, UpgradeCurrent DEF Next
<1> QED BY <1>1, <1>2

LEMMA CurrentInit == Init => Current
BY IdleType DEF Init, Current

LEMMA TypedAndCurrent == Spec => [](Typed /\ Current)
<1>1. Init => Typed /\ Current
  BY ConstantsOK, TypedInit, CurrentInit
<1>2. Typed /\ Current /\ [Next]_vars => (Typed /\ Current)'
  BY ConstantsOK, TypedStep, CurrentStep
<1> QED BY <1>1, <1>2, PTL DEF Spec

\* Every reachable state has the declared types; in particular the channel sem of
\* UpgradeAllBots never holds more values than its capacity, and no deferred receive
\* finds it empty.
THEOREM TypeCorrect == Spec => []TypeOK
<1>1. Typed /\ Current => TypeOK
  BY DEF Typed
<1> QED BY <1>1, TypedAndCurrent, PTL

\* Resets of tokens and upgrades of images, which each write all of what they got
\* of a Deployment, never take each other back (UpdateDeploymentConfig,
\* UpdateDeploymentImage).
THEOREM NoLostUpdateHolds == Spec => []NoLostUpdate
<1>1. Typed /\ Current => NoLostUpdate
  BY DEF Current, NoLostUpdate
<1> QED BY <1>1, TypedAndCurrent, PTL

(***************************************************************************)
(* The token of the row and the token of the Deployment                    *)
(***************************************************************************)
\* A change that is alone knows the token of the row, once it has read it.
Alone ==
    \A r \in Requests :
       req[r].pc \in TokenSteps /\ req[r].alone =>
          /\ \A o \in Requests \ {r} : ~Changes(o, req[r].bot)
          /\ req[r].pc # "reload" => req[r].token = token[req[r].bot]

\* Nothing changes the token of b but what deploys the one it found there.
Settled(b) == \A r \in Requests : Changes(r, b) => req[r].pc \in {"restart", "start"}

Deployed == \A b \in sure : dep[b] # Absent /\ Settled(b) => dep[b].token = token[b]

\* Changes that go on, or end, leave the others alone.
LEMMA AloneKept ==
    ASSUME Typed, Alone, token' = token,
           \A o \in Requests : req'[o].pc \in TokenSteps =>
              /\ req'[o].pc = req[o].pc /\ req'[o].bot = req[o].bot
              /\ req'[o].token = req[o].token
              /\ req'[o].alone => req[o].alone
    PROVE  Alone'
BY DEF Alone, Changes

\* What was deployed still is, where no change goes wrong.
LEMMA DeployedKept ==
    ASSUME Typed, Deployed,
           \A b \in sure' :
              /\ b \in sure
              /\ token'[b] = token[b]
              /\ dep'[b] # Absent => dep[b] # Absent /\ dep'[b].token = dep[b].token
              /\ \A r \in Requests : Changes(r, b) =>
                    \/ req[r].pc \in {"restart", "start"}
                    \/ /\ req'[r].bot = b
                       /\ req'[r].pc \in TokenSteps \ {"restart", "start"}
    PROVE  Deployed'
<1> SUFFICES ASSUME NEW b \in sure', dep'[b] # Absent, Settled(b)'
             PROVE  dep'[b].token = token'[b]
  BY DEF Deployed
<1>1. Settled(b)
  BY DEF Settled, Changes
<1> QED BY <1>1 DEF Deployed

\* A change of a token begins.
LEMMA BeginAlone ==
    ASSUME ConstantsOK, Typed, Alone, Deployed, NEW r \in Requests, NEW b \in Asked,
           ReadRow(r, b) \/ ResetBotAccessToken(r, b)
    PROVE  Alone' /\ Deployed'
<1>1. b \in Bots /\ token[b] \in Token /\ req[r].pc = "idle"
  BY DEF ConstantsOK, Typed, TypeOK, ReadRow, ResetBotAccessToken, At
<1>2. PICK pc \in {"restart", "start", "reload"} :
         Begin(r, pc, b, token[b]) /\ (pc # "reload" => ReadRow(r, b))
                                   /\ (pc = "reload" => ResetBotAccessToken(r, b))
  BY DEF ReadRow, ResetBotAccessToken
<1>3. /\ req'[r].pc = pc /\ req'[r].bot = b /\ req'[r].token = token[b]
      /\ req'[r].alone => \A o \in Requests \ {r} : ~Changes(o, b)
      /\ \A o \in Requests \ {r} :
            /\ req'[o].pc = req[o].pc
            /\ Changes(o, b) => ~req'[o].alone /\ req'[o].bot = b
            /\ ~Changes(o, b) => req'[o] = req[o]
  BY <1>1, <1>2, BeginType
<1>4. /\ UNCHANGED <<dep, sure>>
      /\ \A c \in Bots \ {b} : token'[c] = token[c]
      /\ pc # "reload" => token' = token
  <2>1. UNCHANGED <<dep, sure>>
    BY DEF ReadRow, ResetBotAccessToken
  <2>2. pc # "reload" => token' = token
    BY <1>2 DEF ReadRow
  <2>3. ASSUME pc = "reload"
        PROVE  \A c \in Bots \ {b} : token'[c] = token[c]
    BY <1>1, <1>2, <2>3 DEF ResetBotAccessToken, Typed, TypeOK
  <2> QED BY <2>1, <2>2, <2>3
<1>5. ASSUME NEW o \in Requests \ {r}, NEW c
      PROVE  Changes(o, c)' => Changes(o, c)
  BY <1>3, <1>5 DEF Changes
<1>6. Alone'
  <2> SUFFICES ASSUME NEW o \in Requests, req'[o].pc \in TokenSteps, req'[o].alone
               PROVE  /\ \A q \in Requests \ {o} : ~Changes(q, req[o].bot)'
                      /\ req'[o].pc # "reload" => req'[o].token = token'[req'[o].bot]
    BY DEF Alone
  <2>1. CASE o = r
    <3>1. \A q \in Requests \ {r} : ~Changes(q, b)'
      BY <1>3, <1>5, <2>1
    <3>2. pc # "reload" => req'[r].token = token'[b]
      BY <1>3, <1>4
    <3> QED BY <1>3, <2>1, <3>1, <3>2 DEF Changes
  <2>2. CASE o # r
    <3>1. ~Changes(o, b) /\ req'[o] = req[o] /\ req[o] \in Request
      BY <1>3, <2>2 DEF Typed, TypeOK
    <3>2. req[o].bot # b /\ req[o].bot \in Bots
      BY <3>1, RequestFields DEF Changes, TokenSteps
    <3>3. \A q \in Requests \ {o, r} : ~Changes(q, req[o].bot)
      BY <3>1 DEF Alone
    <3>4. ~Changes(r, req[o].bot)'
      BY <1>3, <3>1, <3>2 DEF Changes
    <3>5. token'[req[o].bot] = token[req[o].bot]
      BY <1>4, <3>2
    <3>6. req'[o].pc # "reload" => req'[o].token = token'[req'[o].bot]
      BY <3>1, <3>5 DEF Alone
    <3>7. \A q \in Requests \ {o, r} : ~Changes(q, req[o].bot)'
      BY <1>5, <3>1, <3>3 DEF Changes
    <3> QED BY <3>1, <3>4, <3>6, <3>7 DEF Changes
  <2> QED BY <2>1, <2>2
<1>7. Deployed'
  <2> SUFFICES ASSUME NEW c \in sure', dep'[c] # Absent, Settled(c)'
               PROVE  dep'[c].token = token'[c]
    BY DEF Deployed
  <2>1. c \in Bots /\ c \in sure
    BY <1>4 DEF Typed, TypeOK
  <2>2. c = b => pc # "reload"
    BY <1>3 DEF Settled, Changes, TokenSteps
  <2>3. token'[c] = token[c]
    BY <1>4, <2>1, <2>2
  <2>4. Settled(c)
    <3> SUFFICES ASSUME NEW o \in Requests, Changes(o, c)
                 PROVE  req[o].pc \in {"restart", "start"}
      BY DEF Settled
    <3>1. o # r
      BY <1>1 DEF Changes, TokenSteps
    <3>2. Changes(o, c)'
      BY <1>3, <3>1 DEF Changes
    <3> QED BY <1>3, <3>1, <3>2 DEF Settled
  <2> QED BY <1>4, <2>1, <2>3, <2>4 DEF Deployed
<1> QED BY <1>6, <1>7

\* The other steps of the handlers, which leave the row of the token alone.
LEMMA HandlerDeployed ==
    ASSUME ConstantsOK, Typed, Current, Alone, Deployed, NEW r \in Requests,
           \/ \E b \in Asked, image \in Images : UpgradeBot(r, b, image)
           \/ ReplaceDeployment(r) \/ ReplaceFails(r)
           \/ PutToken(r) \/ ResetEnds(r)
           \/ GetForImage(r) \/ PutImage(r) \/ UpgradeFails(r)
    PROVE  Alone' /\ Deployed'
<1> DEFINE x == req[r]
           b == x.bot
<1>1. x \in Request /\ token' = token
  BY DEF UpgradeBot, ReplaceDeployment, ReplaceFails, PutToken, ResetEnds, GetForImage,
         PutImage, UpgradeFails, Typed, TypeOK
\* Of the other requests, no more than what they got is changed.
<1>2. ASSUME NEW o \in Requests \ {r}
      PROVE  /\ req'[o].pc = req[o].pc
             /\ req[o].pc # "idle" => req'[o].bot = req[o].bot
             /\ req[o].pc \in TokenSteps => req'[o].token = req[o].token
             /\ req[o].pc \in TokenSteps => (req'[o].alone => req[o].alone)
  <2>1. CASE req'[o] = req[o]
    BY <2>1
  <2>2. CASE req'[o] # req[o]
    <3>1. req' = [Outdated(b) EXCEPT ![r] = Idle] /\ b \in Bots
      BY <1>1, <2>2, RequestFields
      DEF UpgradeBot, ReplaceDeployment, ReplaceFails, PutToken, ResetEnds, GetForImage,
          PutImage, UpgradeFails, Step, At, Typed, TypeOK
    <3>2. req'[o] = Outdated(b)[o]
      BY <3>1, WrittenType
    <3>3. req[o] \in Request
      BY DEF Typed, TypeOK
    <3> QED BY <3>1, <3>2, <3>3, WrittenType, StaleRequest
  <2> QED BY <2>1, <2>2
<1>3. req'[r].pc \notin TokenSteps
  <2>1. CASE req'[r] = Idle
    BY <2>1, IdleType DEF TokenSteps
  <2>2. CASE req'[r] # Idle
    <3>1. /\ req \in [Requests -> Request]
          /\ b \in Bots => Outdated(b) \in [Requests -> Request]
      BY WrittenType DEF Typed, TypeOK
    <3>2. PICK y : req' = [req EXCEPT ![r] = y] /\ y.pc \in {"getImage", "putImage"}
      BY <1>1, <2>2, <3>1, RequestFields
      DEF UpgradeBot, ReplaceDeployment, ReplaceFails, PutToken, ResetEnds, GetForImage,
          PutImage, UpgradeFails, Step, At
    <3> QED BY <3>1, <3>2 DEF TokenSteps
  <2> QED BY <2>1, <2>2
<1>4. \A o \in Requests : req'[o].pc \in TokenSteps => o # r
  BY <1>3
<1>5. Alone'
  <2>1. "idle" \notin TokenSteps
    BY DEF TokenSteps
  <2> QED BY <1>1, <1>2, <1>4, <2>1, AloneKept
<1>6. ASSUME NEW o \in Requests \ {r}, NEW c
      PROVE  Changes(o, c)' <=> Changes(o, c)
  BY <1>2 DEF Changes, TokenSteps
\* Bots that this request does not end a change of.
<1>7. ASSUME NEW c \in sure', c \in sure, ~Changes(r, c) \/ x.pc \in {"restart", "start"},
             dep'[c] # Absent => dep[c] # Absent /\ dep'[c].token = dep[c].token,
             dep'[c] # Absent, Settled(c)'
      PROVE  dep'[c].token = token'[c]
  <2>1. Settled(c)
    BY <1>2, <1>6, <1>7 DEF Settled
  <2> QED BY <1>1, <1>7, <2>1 DEF Deployed
<1>8. CASE ReplaceDeployment(r) \/ PutToken(r)
  <2>1. /\ b \in Bots /\ x.pc \in TokenSteps \ {"reload"}
        /\ x.token \in Token /\ x.alone \in BOOLEAN
    BY <1>1, <1>8, RequestFields DEF ReplaceDeployment, PutToken, At, TokenSteps
  <2>2. x.alone => x.token = token[b]
    BY <2>1 DEF Alone
  <2>3. dep'[b].token = x.token
    <3>1. CASE ReplaceDeployment(r)
      <4>1. dep' = [dep EXCEPT ![b] = [image |-> Configured, token |-> x.token]]
        BY <3>1 DEF ReplaceDeployment, Spec0
      <4> QED BY <2>1, <4>1 DEF Typed, TypeOK
    <3>2. CASE PutToken(r)
      <4>1. x.got \in [image : Images, token : Token]
        BY <1>1, <3>2, RequestFields DEF PutToken, At, Deployment
      <4>2. dep' = [dep EXCEPT ![b] = [x.got EXCEPT !.token = x.token]]
        BY <3>2 DEF PutToken
      <4> QED BY <2>1, <4>1, <4>2 DEF Typed, TypeOK
    <3> QED BY <1>8, <3>1, <3>2
  <2>4. \A c \in Bots \ {b} : dep'[c] = dep[c]
    BY <1>8, <2>1 DEF ReplaceDeployment, PutToken, Typed, TypeOK
  <2>5. sure' = IF x.alone THEN sure \cup {b} ELSE sure \ {b}
    BY <1>8 DEF ReplaceDeployment, PutToken, Sure
  <2> SUFFICES ASSUME NEW c \in sure', dep'[c] # Absent, Settled(c)'
               PROVE  dep'[c].token = token'[c]
    BY <1>5 DEF Deployed
  <2>6. CASE c = b
    BY <1>1, <2>2, <2>3, <2>5, <2>6
  <2>7. CASE c # b
    <3>1. c \in sure /\ c \in Bots /\ ~Changes(r, c)
      BY <2>5, <2>7 DEF Changes, Typed, TypeOK
    <3> QED BY <1>7, <2>4, <2>7, <3>1
  <2> QED BY <2>6, <2>7
<1>9. CASE ReplaceFails(r)
  <2>1. dep' = dep /\ sure' \subseteq sure
    BY <1>9 DEF ReplaceFails, Sure
  <2> SUFFICES ASSUME NEW c \in sure', dep'[c] # Absent, Settled(c)'
               PROVE  dep'[c].token = token'[c]
    BY <1>5 DEF Deployed
  <2> QED BY <1>7, <1>9, <2>1 DEF ReplaceFails
<1>10. CASE ResetEnds(r)
  <2>1. dep' = dep /\ sure' = sure \ {b}
    BY <1>10 DEF ResetEnds, Sure
  <2> SUFFICES ASSUME NEW c \in sure', dep'[c] # Absent, Settled(c)'
               PROVE  dep'[c].token = token'[c]
    BY <1>5 DEF Deployed
  <2>2. ~Changes(r, c)
    BY <2>1 DEF Changes
  <2> QED BY <1>7, <2>1, <2>2
<1>11. CASE PutImage(r)
  <2>1. x.pc = "putImage" /\ b \in Bots /\ x.got \in [image : Images, token : Token]
    BY <1>1, <1>11, RequestFields DEF PutImage, At, Deployment
  <2>2. x.got = dep[b] /\ dep[b] # Absent
    BY <1>11, <2>1 DEF PutImage, Accepted, Current, Present
  <2>3. dep' = [dep EXCEPT ![b] = [x.got EXCEPT !.image = x.image]] /\ sure' = sure
    BY <1>11 DEF PutImage, WithImage
  <2>4. \A c \in Bots : dep'[c] # Absent =>
           dep[c] # Absent /\ dep'[c].token = dep[c].token
    BY <2>1, <2>2, <2>3 DEF Typed, TypeOK
  <2>5. \A c \in Bots : ~Changes(r, c)
    BY <2>1 DEF Changes, TokenSteps
  <2> SUFFICES ASSUME NEW c \in sure', dep'[c] # Absent, Settled(c)'
               PROVE  dep'[c].token = token'[c]
    BY <1>5 DEF Deployed
  <2>6. c \in Bots
    BY <2>3 DEF Typed, TypeOK
  <2> QED BY <1>7, <2>3, <2>4, <2>5, <2>6
<1>12. CASE GetForImage(r) \/ UpgradeFails(r)
            \/ \E a \in Asked, image \in Images : UpgradeBot(r, a, image)
  <2>1. dep' = dep /\ sure' = sure /\ x.pc \notin TokenSteps
    BY <1>12 DEF GetForImage, UpgradeFails, UpgradeBot, At, TokenSteps
  <2> SUFFICES ASSUME NEW c \in sure', dep'[c] # Absent, Settled(c)'
               PROVE  dep'[c].token = token'[c]
    BY <1>5 DEF Deployed
  <2>2. ~Changes(r, c)
    BY <2>1 DEF Changes
  <2> QED BY <1>7, <2>1, <2>2
<1> QED BY <1>8, <1>9, <1>10, <1>11, <1>12

\* The steps of a reset of the token between its beginning and its end.
LEMMA ResetDeployed ==
    ASSUME ConstantsOK, Typed, Alone, Deployed, NEW r \in Requests,
           ReloadBot(r) \/ SaveBot(r) \/ GetForToken(r)
    PROVE  Alone' /\ Deployed'
<1> DEFINE x == req[r]
           b == x.bot
<1>1. /\ x \in Request /\ x.pc \in TokenSteps \ {"restart", "start"} /\ b \in Bots
      /\ x.token \in Token
      /\ UNCHANGED <<dep, sure>>
  <2>1. x \in Request /\ x.pc \in TokenSteps \ {"restart", "start"}
    BY DEF ReloadBot, SaveBot, GetForToken, At, TokenSteps, Typed, TypeOK
  <2> QED BY <2>1, RequestFields DEF ReloadBot, SaveBot, GetForToken, TokenSteps
<1>2. /\ \A o \in Requests \ {r} : req'[o] = req[o]
      /\ req'[r].pc \in TokenSteps \ {"restart", "start", "reload"}
      /\ req'[r].bot = b
      /\ req'[r].alone => x.alone
      /\ req'[r].token = IF ReloadBot(r) THEN token[b] ELSE x.token
  <2>1. CASE ReloadBot(r)
    <3>1. x \in [pc : {"reload"}, bot : Bots, token : Token, alone : BOOLEAN]
      BY <1>1, <2>1 DEF ReloadBot, At, Request, Idle
    <3> QED BY <2>1, <3>1 DEF ReloadBot, Step, Typed, TypeOK, TokenSteps
  <2>2. CASE SaveBot(r)
    <3>1. x \in [pc : {"save"}, bot : Bots, token : Token, alone : BOOLEAN]
      BY <1>1, <2>2 DEF SaveBot, At, Request, Idle
    <3>2. ~ReloadBot(r)
      BY <2>2 DEF SaveBot, ReloadBot, At
    <3> QED BY <2>2, <3>1, <3>2 DEF SaveBot, Step, Typed, TypeOK, TokenSteps
  <2>3. CASE GetForToken(r)
    <3>1. ~ReloadBot(r)
      BY <2>3 DEF GetForToken, ReloadBot, At
    <3>2. req' = [req EXCEPT ![r] = [pc |-> "putToken", bot |-> b, token |-> x.token,
                                     alone |-> x.alone, got |-> dep[b],
                                     current |-> TRUE]]
      BY <2>3 DEF GetForToken, Step
    <3> QED BY <3>1, <3>2 DEF Typed, TypeOK, TokenSteps
  <2> QED BY <2>1, <2>2, <2>3
<1>3. \A c \in Bots \ {b} : token'[c] = token[c]
  BY <1>1 DEF ReloadBot, SaveBot, GetForToken, Typed, TypeOK
<1>4. x.alone => req'[r].token = token'[b]
  <2>1. CASE ReloadBot(r)
    BY <1>2, <2>1 DEF ReloadBot
  <2>2. CASE ~ReloadBot(r)
    <3>1. x.alone => x.token = token[b]
      BY <1>1, <2>2 DEF SaveBot, GetForToken, At, Alone
    <3>2. token' = token \/ token' = [token EXCEPT ![b] = x.token]
      BY <2>2 DEF SaveBot, GetForToken
    <3> QED BY <1>1, <1>2, <2>2, <3>1, <3>2 DEF Typed, TypeOK
  <2> QED BY <2>1, <2>2
<1>5. ASSUME NEW o \in Requests, NEW c
      PROVE  Changes(o, c)' <=> Changes(o, c)
  BY <1>1, <1>2 DEF Changes
<1>6. Alone'
  <2> SUFFICES ASSUME NEW o \in Requests, req'[o].pc \in TokenSteps, req'[o].alone
               PROVE  /\ \A q \in Requests \ {o} : ~Changes(q, req[o].bot)'
                      /\ req'[o].pc # "reload" => req'[o].token = token'[req'[o].bot]
    BY DEF Alone
  <2>1. /\ req[o].pc \in TokenSteps /\ req[o].alone /\ req'[o].bot = req[o].bot
        /\ \A q \in Requests \ {o} : ~Changes(q, req[o].bot)
    BY <1>1, <1>2 DEF Alone
  <2>2. \A q \in Requests \ {o} : ~Changes(q, req[o].bot)'
    BY <1>5, <2>1 DEF Changes
  <2>3. req'[o].pc # "reload" => req'[o].token = token'[req'[o].bot]
    <3>1. CASE o = r
      BY <1>2, <1>4, <2>1, <3>1
    <3>2. CASE o # r
      <4>1. req[o].bot # b /\ req[o].bot \in Bots
        BY <1>1, <2>1, <3>2, RequestFields DEF Changes, TokenSteps, Typed, TypeOK
      <4>2. token'[req[o].bot] = token[req[o].bot]
        BY <1>3, <4>1
      <4> QED BY <1>2, <2>1, <3>2, <4>2 DEF Alone
    <3> QED BY <3>1, <3>2
  <2> QED BY <2>2, <2>3
<1>7. Deployed'
  <2> SUFFICES ASSUME NEW c \in sure', dep'[c] # Absent, Settled(c)'
               PROVE  dep'[c].token = token'[c]
    BY DEF Deployed
  <2>1. c # b
    BY <1>2 DEF Settled, Changes
  <2>2. c \in sure /\ c \in Bots /\ token'[c] = token[c]
    BY <1>1, <1>3, <2>1 DEF Typed, TypeOK
  <2>3. Settled(c)
    <3> SUFFICES ASSUME NEW o \in Requests, Changes(o, c)
                 PROVE  req[o].pc \in {"restart", "start"}
      BY DEF Settled
    <3>1. o # r
      BY <2>1 DEF Changes
    <3> QED BY <1>2, <1>5, <3>1 DEF Settled
  <2> QED BY <1>1, <2>2, <2>3 DEF Deployed
<1> QED BY <1>6, <1>7

\* The upgrade of all bots, and the deletion of a Deployment.
LEMMA UpgradeDeployed ==
    ASSUME ConstantsOK, Typed, Current, Alone, Deployed,
           \/ \E b \in Bots : DeleteDeployment(b) \/ WorkerStep(b)
           \/ \E image \in Images, listed \in SUBSET Bots : UpgradeAllBots(image, listed)
           \/ UpgradeAnswered
    PROVE  Alone' /\ Deployed'
<1>1. token' = token /\ sure' = sure
  BY DEF DeleteDeployment, WorkerStep, Acquire, Look, WorkerGets, WorkerPuts, Release,
         Worker1, UpgradeAllBots, UpgradeAnswered
<1>2. req' = req \/ \E b \in Bots : req' = Outdated(b)
  BY DEF DeleteDeployment, WorkerStep, Acquire, Look, WorkerGets, WorkerPuts, Release,
         AsItWas, UpgradeAllBots, UpgradeAnswered
<1>3. ASSUME NEW o \in Requests
      PROVE  /\ req'[o].pc = req[o].pc
             /\ req[o].pc # "idle" => req'[o].bot = req[o].bot
             /\ req[o].pc \in TokenSteps => req'[o].token = req[o].token
             /\ req[o].pc \in TokenSteps => (req'[o].alone => req[o].alone)
  <2>1. req[o] \in Request
    BY DEF Typed, TypeOK
  <2> QED BY <1>2, <2>1, WrittenType, StaleRequest
<1>4. Alone'
  <2>1. "idle" \notin TokenSteps
    BY DEF TokenSteps
  <2> QED BY <1>1, <1>3, <2>1, AloneKept
<1>5. ASSUME NEW c \in Bots
      PROVE  dep'[c] # Absent => dep[c] # Absent /\ dep'[c].token = dep[c].token
  <2>1. CASE dep' = dep
    BY <2>1
  <2>2. ASSUME NEW b \in Bots, DeleteDeployment(b)
        PROVE  dep'[c] # Absent => dep[c] # Absent /\ dep'[c].token = dep[c].token
    BY <2>2 DEF DeleteDeployment, Typed, TypeOK
  <2>3. ASSUME NEW b \in Bots, WorkerPuts(b), dep' # dep
        PROVE  dep'[c] # Absent => dep[c] # Absent /\ dep'[c].token = dep[c].token
    <3>1. worker[b] \in Worker /\ worker[b].pc = "putImage"
      BY <2>3 DEF WorkerPuts, Works, Typed, TypeOK
    <3>2. worker[b].got \in [image : Images, token : Token]
      BY <3>1 DEF Worker, Deployment
    <3>3. worker[b].got = dep[b] /\ dep[b] # Absent
      BY <2>3, <3>1 DEF WorkerPuts, AsItWas, Accepted, Current, Present
    <3>4. dep' = [dep EXCEPT ![b] = [worker[b].got EXCEPT !.image = batch.image]]
      BY <2>3 DEF WorkerPuts, AsItWas, WithImage
    <3> QED BY <3>2, <3>3, <3>4 DEF Typed, TypeOK
  <2> QED
    BY <2>1, <2>2, <2>3 DEF WorkerStep, Acquire, Look, WorkerGets, Release, AsItWas,
                            UpgradeAllBots, UpgradeAnswered
<1>6. Deployed'
  <2> SUFFICES ASSUME NEW c \in sure', dep'[c] # Absent, Settled(c)'
               PROVE  dep'[c].token = token'[c]
    BY DEF Deployed
  <2>1. c \in sure /\ c \in Bots
    BY <1>1 DEF Typed, TypeOK
  <2>2. Settled(c)
    BY <1>3 DEF Settled, Changes, TokenSteps
  <2> QED BY <1>1, <1>5, <2>1, <2>2 DEF Deployed
<1> QED BY <1>4, <1>6

LEMMA DeployedStep ==
    ConstantsOK /\ Typed /\ Current /\ Alone /\ Deployed /\ [Next]_vars =>
       Alone' /\ Deployed'
<1> SUFFICES ASSUME ConstantsOK, Typed, Current, Alone, Deployed, [Next]_vars
             PROVE  Alone' /\ Deployed'
  OBVIOUS
<1>1. CASE UNCHANGED vars
  BY <1>1 DEF vars, upgrade, Alone, Deployed, Settled, Changes
<1>2. CASE Next
  BY <1>2, BeginAlone, HandlerDeployed, ResetDeployed, UpgradeDeployed DEF Next
<1> QED BY <1>1, <1>2

\* A bot whose token nothing is changing is deployed with the token of its row, when
\* the last change of it was alone and did not fail (ResetBotToken, SaveBot, and the
\* handlers that build the Deployment from the row they read).
THEOREM TokenDeployedHolds == Spec => []TokenDeployed
<1>1. Init => Alone /\ Deployed
  <2> SUFFICES ASSUME Init PROVE Alone /\ Deployed
    OBVIOUS
  <2>1. Alone
    BY IdleType DEF Init, Alone, TokenSteps
  <2>2. Deployed
    <3> SUFFICES ASSUME NEW b \in sure, dep[b] # Absent PROVE dep[b].token = token[b]
      BY DEF Deployed
    <3>1. b \in Bots /\ dep[b] \in [image : Images, token : {0}]
      BY DEF Init
    <3> QED BY <3>1 DEF Init
  <2> QED BY <2>1, <2>2
<1>2. (Typed /\ Current) /\ (Alone /\ Deployed) /\ [Next]_vars => (Alone /\ Deployed)'
  BY ConstantsOK, DeployedStep
<1>3. Alone /\ Deployed => TokenDeployed
  BY DEF Deployed, Settled, TokenDeployed, Present
<1> QED BY <1>1, <1>2, <1>3, TypedAndCurrent, PTL DEF Spec
================================================================================
