-------------------------- MODULE DevicePairingProofs --------------------------
(***************************************************************************)
(* Proofs about the devices of a bot, for any number of goroutines,        *)
(* handlers, devices, polls, faults and events.                            *)
(***************************************************************************)
EXTENDS DevicePairing, FiniteSetTheorems, SequenceTheorems, TLAPS

(***************************************************************************)
(* The gateway                                                             *)
(***************************************************************************)
\* A device has a request unless it never asked, and is listed once it was paired.
GatewayTyped ==
    /\ GatewayTypeOK
    /\ \A d \in Devices :
          /\ device[d].is # "unknown" => device[d].request > 0
          /\ device[d].is \in {"paired", "revoked"} => device[d].listed

\* What may become of the devices in one step of anybody: a request that was not
\* pending is never pending later.
Forward ==
    \A d \in Devices :
       /\ device'[d].request >= device[d].request
       /\ device'[d].is = "pending" =>
             \/ device[d].is = "pending" /\ device'[d].request = device[d].request
             \/ device'[d].request > device[d].request
       /\ device[d].is # "unknown" => device'[d].is # "unknown"
       /\ device[d].listed => device'[d].listed

LEMMA DeviceFields ==
    ASSUME GatewayTyped, NEW d \in Devices
    PROVE  /\ device[d] \in Device /\ device[d].request \in 0 .. MaxAsks
           /\ device[d].request \in Nat /\ device[d].is \in Pairing
BY AsksOK DEF GatewayTyped, GatewayTypeOK, Device

LEMMA PendingRequests ==
    ASSUME GatewayTyped
    PROVE  /\ Pending \subseteq Requests
           /\ \A q \in Pending : q.request = device[q.dev].request
           /\ \A d \in Devices : device[d].is = "pending" =>
                 [dev |-> d, request |-> device[d].request] \in Pending
BY AsksOK DEF GatewayTyped, GatewayTypeOK, Device, Pending, Requests

LEMMA SameForward ==
    ASSUME GatewayTyped, device' = device
    PROVE  GatewayTyped' /\ Forward
<1>1. GatewayTyped'
  BY DEF GatewayTyped, GatewayTypeOK
<1>2. Forward
  BY DeviceFields DEF Forward
<1> QED BY <1>1, <1>2

\* One device changes.
LEMMA DeviceForward ==
    ASSUME GatewayTyped, NEW d \in Devices, NEW x \in Device,
           device' = [device EXCEPT ![d] = x],
           x.is # "unknown", x.request > 0, x.request >= device[d].request,
           x.is = "pending" => x.request > device[d].request,
           x.is \in {"paired", "revoked"} => x.listed,
           device[d].listed => x.listed
    PROVE  GatewayTyped' /\ Forward
<1>1. device' \in [Devices -> Device] /\ device'[d] = x
      /\ \A e \in Devices \ {d} : device'[e] = device[e]
  BY DEF GatewayTyped, GatewayTypeOK
<1>2. GatewayTyped'
  BY <1>1 DEF GatewayTyped, GatewayTypeOK
<1>3. Forward
  BY <1>1, DeviceFields DEF Forward
<1> QED BY <1>2, <1>3

LEMMA AskForward ==
    ASSUME GatewayTyped, NEW d \in Devices, Ask(d)
    PROVE  /\ GatewayTyped' /\ Forward
           /\ device'[d].is = "pending" /\ device'[d].request \in 1 .. MaxAsks
<1> DEFINE x == device[d]
<1>1. x \in Device /\ x.request \in 0 .. MaxAsks /\ device \in [Devices -> Device]
  BY DeviceFields DEF GatewayTyped, GatewayTypeOK
<1>2. CASE x.is = "pending" /\ UNCHANGED device
  <2>1. GatewayTyped' /\ Forward
    BY <1>2, SameForward
  <2>2. x.request > 0
    BY <1>2 DEF GatewayTyped
  <2> QED BY <1>1, <1>2, <2>1, <2>2, AsksOK
<1>3. CASE ~(x.is = "pending" /\ UNCHANGED device)
  <2>1. /\ x.is \in {"unknown", "revoked"} /\ x.request < MaxAsks
        /\ device' = [device EXCEPT ![d] = [x EXCEPT !.is = "pending",
                                                    !.request = x.request + 1]]
    BY <1>1, <1>3 DEF Ask
  <2>2. PICK n : n = x.request + 1
    OBVIOUS
  <2>3. n \in 0 .. MaxAsks /\ n \in 1 .. MaxAsks /\ n > x.request /\ n >= x.request /\ n > 0
    BY <1>1, <2>1, <2>2, AsksOK
  <2>4. PICK y : y = [x EXCEPT !.is = "pending", !.request = n]
    OBVIOUS
  <2>5. y \in Device /\ y.is = "pending" /\ y.request = n /\ (x.listed => y.listed)
    BY <1>1, <2>3, <2>4 DEF Device, Pairing
  <2>6. device' = [device EXCEPT ![d] = y]
    BY <2>1, <2>2, <2>4
  <2>7. GatewayTyped' /\ Forward
    BY <2>3, <2>5, <2>6, DeviceForward
  <2>8. device'[d] = y
    BY <1>1, <2>6
  <2> QED BY <2>3, <2>5, <2>7, <2>8
<1> QED BY <1>2, <1>3

LEMMA ApprovedForward ==
    ASSUME GatewayTyped, NEW q \in Requests, CanApprove(q), device' = Approved(q)
    PROVE  /\ GatewayTyped' /\ Forward
           /\ device'[q.dev].is = "paired"
<1> DEFINE d == q.dev
           x == device[d]
<1>1. d \in Devices /\ x \in Device /\ x.request \in 1 .. MaxAsks
  <2>1. d \in Devices /\ x.is = "pending"
    BY DEF CanApprove, Pending
  <2> QED BY <2>1, DeviceFields, AsksOK DEF GatewayTyped
<1>2. device' = [device EXCEPT ![d] = [x EXCEPT !.is = "paired", !.listed = TRUE]]
  BY <1>1 DEF Approved, GatewayTyped, GatewayTypeOK
<1>3. PICK y : y = [x EXCEPT !.is = "paired", !.listed = TRUE]
  OBVIOUS
<1>4. y \in Device /\ y.is = "paired" /\ y.request = x.request /\ y.listed
  BY <1>1, <1>3 DEF Device, Pairing
<1>5. device'[d] = y
  BY <1>1, <1>2, <1>3 DEF GatewayTyped, GatewayTypeOK
<1>6. y.request > 0 /\ y.request >= device[d].request
  BY <1>1, <1>4, AsksOK
<1>7. GatewayTyped' /\ Forward
  BY <1>1, <1>2, <1>3, <1>4, <1>6, DeviceForward
<1> QED BY <1>4, <1>5, <1>7

LEMMA RevokedForward ==
    ASSUME GatewayTyped, NEW d \in Devices, CanRevoke(d), device' = Revoked(d)
    PROVE  GatewayTyped' /\ Forward
<1> DEFINE x == device[d]
<1>1. x \in Device /\ x.request \in 1 .. MaxAsks /\ x.listed
  BY DeviceFields, AsksOK DEF CanRevoke, GatewayTyped
<1>2. PICK y : y = [x EXCEPT !.is = "revoked"]
  OBVIOUS
<1>3. device' = [device EXCEPT ![d] = y]
  BY <1>2 DEF Revoked, GatewayTyped, GatewayTypeOK
<1>4. y \in Device /\ y.is = "revoked" /\ y.request = x.request /\ y.listed
  BY <1>1, <1>2 DEF Device, Pairing
<1>5. y.request > 0 /\ y.request >= device[d].request
  BY <1>1, <1>4, AsksOK
<1> QED BY <1>1, <1>3, <1>4, <1>5, DeviceForward

\* A request that is pending now, of those that were made before, was pending before.
LEMMA PendingBefore ==
    ASSUME GatewayTyped, GatewayTyped', Forward, NEW q \in Requests, q \in Pending',
           q.request <= device[q.dev].request
    PROVE  q \in Pending
<1>1. q.dev \in Devices /\ device'[q.dev].is = "pending" /\ q.request = device'[q.dev].request
      /\ q = [dev |-> q.dev, request |-> device'[q.dev].request]
  BY DEF Pending
<1>2. device[q.dev].request \in Nat /\ q.request \in Nat
  BY <1>1, DeviceFields, AsksOK DEF Requests
<1>3. device[q.dev].is = "pending" /\ device'[q.dev].request = device[q.dev].request
  BY <1>1, <1>2 DEF Forward
<1> QED BY <1>1, <1>3 DEF Pending

(***************************************************************************)
(* The goroutines                                                          *)
(***************************************************************************)
Working == {"sleep", "list", "approve", "redial"}
WorkingJob ==
    [pc : Working, kind : Kinds, left : 0 .. Rounds, todo : SUBSET Requests,
     asked : SUBSET Requests, clean : BOOLEAN]

\* A poller has rounds left until it ends. Whoever waits for the approval of requests
\* waits for old ones, and what is still pending of them is still to be approved.
Sound(x, dv, pending) ==
    x.pc \in Working =>
       /\ x.kind = "poller" => x.left > 0 /\ x.pc # "redial"
       /\ x.pc = "sleep" => x.kind = "poller"
       /\ \A q \in x.asked : q.request <= dv[q.dev].request
       /\ x.pc = "redial" /\ x.clean => x.asked \cap pending = {}
       /\ x.pc = "approve" /\ x.clean => x.asked \cap pending \subseteq x.todo

JobsSound == \A j \in Jobs : Sound(job[j], device, Pending)

Polls(x) == x.pc = "ending" \/ (x.pc \in {"sleep", "list", "approve"} /\ x.kind = "poller")

OneAtMost ==
    /\ \A j, k \in Jobs : Polls(job[j]) /\ Polls(job[k]) => j = k
    /\ activePoller <=> \E j \in Jobs : Polls(job[j])

Approving == ApproveTypeOK /\ JobsSound /\ OneAtMost

LEMMA JobFields ==
    ASSUME NEW x \in Job
    PROVE  /\ x.pc \in Working => x \in WorkingJob
           /\ x.pc = "dial" => x.dev \in Devices
           /\ x.pc \in Working \cup {"free", "spawned", "ending", "dial"}
BY DEF Job, Free, Working, WorkingJob

LEMMA FreeJob ==
    ASSUME NEW dv, NEW pending
    PROVE  /\ Free \in Job /\ [pc |-> "spawned"] \in Job /\ [pc |-> "ending"] \in Job
           /\ Sound(Free, dv, pending) /\ Sound([pc |-> "spawned"], dv, pending)
           /\ Sound([pc |-> "ending"], dv, pending)
           /\ ~Polls(Free) /\ ~Polls([pc |-> "spawned"]) /\ Polls([pc |-> "ending"])
BY DEF Free, Job, Sound, Polls, Working

LEMMA DialJob ==
    ASSUME NEW d \in Devices, NEW t \in BOOLEAN, NEW dv, NEW pending
    PROVE  /\ [pc |-> "dial", dev |-> d, token |-> t] \in Job
           /\ Sound([pc |-> "dial", dev |-> d, token |-> t], dv, pending)
           /\ ~Polls([pc |-> "dial", dev |-> d, token |-> t])
BY DEF Job, Sound, Polls, Working

LEMMA WorkJob ==
    ASSUME NEW kind \in Kinds, NEW left \in 0 .. Rounds, NEW asked \in SUBSET Requests,
           left > 0, NEW dv, NEW pending,
           \A q \in asked : q.request <= dv[q.dev].request
    PROVE  /\ Work(kind, left, asked) \in Job
           /\ Sound(Work(kind, left, asked), dv, pending)
           /\ Polls(Work(kind, left, asked)) <=> kind = "poller"
<1>1. CASE kind = "poller"
  <2>1. Work(kind, left, asked) = [pc |-> "sleep", kind |-> kind, left |-> left,
                                  todo |-> {}, asked |-> asked, clean |-> TRUE]
    BY <1>1 DEF Work
  <2>2. Work(kind, left, asked) \in Job
    BY <2>1 DEF Job
  <2> QED BY <1>1, <2>1, <2>2 DEF Sound, Polls, Working
<1>2. CASE kind # "poller"
  <2>1. Work(kind, left, asked) = [pc |-> "list", kind |-> kind, left |-> left,
                                  todo |-> {}, asked |-> asked, clean |-> TRUE]
    BY <1>2 DEF Work
  <2>2. Work(kind, left, asked) \in Job
    BY <2>1 DEF Job
  <2> QED BY <1>2, <2>1, <2>2 DEF Sound, Polls, Working
<1> QED BY <1>1, <1>2

\* What the caller of AutoApproveAllPending does next.
LEMMA ReturnedJob ==
    ASSUME NEW r \in WorkingJob, r.kind = "poller" => r.left > 0, NEW dv, NEW pending,
           \A q \in r.asked : q.request <= dv[q.dev].request,
           r.clean => r.asked \cap pending = {}
    PROVE  /\ Returned(r) \in Job
           /\ Sound(Returned(r), dv, pending)
           /\ Polls(Returned(r)) <=> r.kind = "poller"
<1>1. r.left \in 0 .. Rounds /\ r.kind \in Kinds
  BY DEF WorkingJob
<1>2. CASE r.kind = "poller" /\ r.left = 1
  <2>1. Returned(r) = [pc |-> "ending"]
    BY <1>2 DEF Returned
  <2> QED BY <1>2, <2>1, FreeJob
<1>3. CASE r.kind = "poller" /\ r.left # 1
  <2>1. Returned(r) = Work("poller", r.left - 1, {})
    BY <1>3 DEF Returned
  <2>2. r.left - 1 \in 0 .. Rounds /\ r.left - 1 > 0 /\ "poller" \in Kinds
    BY <1>1, <1>3, RoundsOK DEF Kinds
  <2> QED BY <1>3, <2>1, <2>2, WorkJob
<1>4. CASE r.kind = "once"
  <2>1. Returned(r) = Free
    BY <1>4 DEF Returned
  <2> QED BY <1>4, <2>1, FreeJob
<1>5. CASE r.kind = "ws"
  <2>1. PICK y : y = [r EXCEPT !.pc = "redial", !.left = 0, !.todo = {}]
    OBVIOUS
  <2>2. 0 \in 0 .. Rounds
    BY RoundsOK
  <2>3. /\ y \in Job /\ y.pc = "redial" /\ y.kind = "ws" /\ y.asked = r.asked
        /\ y.clean => r.clean
    BY <1>5, <2>1, <2>2 DEF WorkingJob, Job
  <2>4. Returned(r) = y
    BY <1>5, <2>1 DEF Returned
  <2> QED BY <1>5, <2>3, <2>4 DEF Sound, Polls, Working
<1> QED BY <1>1, <1>2, <1>3, <1>4, <1>5 DEF Kinds

\* What others do with the devices does not disturb a goroutine.
LEMMA SoundForward ==
    ASSUME GatewayTyped, GatewayTyped', Forward, NEW x \in Job, Sound(x, device, Pending)
    PROVE  Sound(x, device', Pending')
<1> SUFFICES ASSUME x.pc \in Working
             PROVE  Sound(x, device', Pending')
  BY DEF Sound
<1>1. x \in WorkingJob /\ x.asked \subseteq Requests
  BY JobFields DEF WorkingJob
<1>2. ASSUME NEW q \in x.asked
      PROVE  /\ q.request <= device'[q.dev].request
             /\ q \in Pending' => q \in Pending
  <2>1. q.request <= device[q.dev].request /\ q \in Requests
    BY <1>1 DEF Sound
  <2>2. /\ q.request \in Nat /\ q.dev \in Devices
        /\ device[q.dev].request \in Nat /\ device'[q.dev].request \in Nat
        /\ device'[q.dev].request >= device[q.dev].request
    <3>1. q.request \in 1 .. MaxAsks /\ q.dev \in Devices
      BY <2>1 DEF Requests
    <3>2. device'[q.dev] \in Device
      BY <3>1 DEF GatewayTyped, GatewayTypeOK
    <3> QED BY <3>1, <3>2, DeviceFields, AsksOK DEF Forward, Device
  <2>3. q.request <= device'[q.dev].request
    BY <2>1, <2>2
  <2> QED BY <2>1, <2>3, PendingBefore
<1> QED BY <1>2 DEF Sound

\* One goroutine goes on.
LEMMA JobStepApproving ==
    ASSUME GatewayTyped, GatewayTyped', Forward, Approving, NEW j \in Jobs, NEW y \in Job,
           Set(j, y), faults' \in 0 .. MaxFaults, activePoller' = activePoller,
           Sound(y, device', Pending'), Polls(y) <=> Polls(job[j])
    PROVE  Approving'
<1>1. job' \in [Jobs -> Job] /\ job'[j] = y /\ \A k \in Jobs \ {j} : job'[k] = job[k]
  BY DEF Approving, ApproveTypeOK, Set
<1>2. ApproveTypeOK'
  BY <1>1 DEF Approving, ApproveTypeOK
<1>3. ASSUME NEW k \in Jobs
      PROVE  Sound(job'[k], device', Pending')
  <2>1. CASE k = j
    BY <1>1, <2>1
  <2>2. CASE k # j
    <3>1. job[k] \in Job /\ Sound(job[k], device, Pending) /\ job'[k] = job[k]
      BY <1>1, <2>2 DEF Approving, ApproveTypeOK, JobsSound
    <3> QED BY <3>1, SoundForward
  <2> QED BY <2>1, <2>2
<1>4. \A k \in Jobs : Polls(job'[k]) <=> Polls(job[k])
  BY <1>1
<1>5. OneAtMost'
  BY <1>4 DEF Approving, OneAtMost
<1> QED BY <1>2, <1>3, <1>5 DEF Approving, JobsSound

LEMMA FreePolls ==
    ASSUME Approving, NEW j \in Jobs,
           job[j].pc \in {"free", "spawned", "dial", "redial"}
    PROVE  ~Polls(job[j])
BY DEF Polls

LEMMA HttpRequestApproving ==
    ASSUME GatewayTyped, Approving, NEW j \in Jobs, HttpRequest(j)
    PROVE  GatewayTyped' /\ Forward /\ Approving'
<1>1. GatewayTyped' /\ Forward
  BY SameForward DEF HttpRequest
<1>2. /\ faults' \in 0 .. MaxFaults /\ activePoller' = activePoller /\ device' = device
      /\ ~Polls(job[j])
  BY FreePolls DEF HttpRequest, Approving, ApproveTypeOK, Is
<1>3. CASE Set(j, [pc |-> "spawned"])
  BY <1>1, <1>2, <1>3, FreeJob, JobStepApproving
<1>4. CASE Set(j, Work("once", 1, {}))
  <2>1. "once" \in Kinds /\ 1 \in 0 .. Rounds /\ 1 > 0
    BY RoundsOK DEF Kinds
  <2>2. /\ Work("once", 1, {}) \in Job
        /\ Sound(Work("once", 1, {}), device', Pending')
        /\ ~Polls(Work("once", 1, {}))
    BY <2>1, WorkJob
  <2> QED BY <1>1, <1>2, <1>4, <2>2, JobStepApproving
<1> QED BY <1>3, <1>4 DEF HttpRequest

LEMMA WsRequestApproving ==
    ASSUME GatewayTyped, Approving, NEW j \in Jobs, NEW k \in Jobs, NEW d \in Devices,
           WsRequest(j, k, d)
    PROVE  GatewayTyped' /\ Forward /\ Approving'
<1>1. GatewayTyped' /\ Forward
  BY SameForward DEF WsRequest
<1>2. /\ faults' \in 0 .. MaxFaults /\ activePoller' = activePoller
      /\ ~Polls(job[j]) /\ ~Polls(job[k]) /\ j # k
  BY FreePolls DEF WsRequest, Approving, ApproveTypeOK, Is
<1>3. PICK cred \in Credentials :
          job' = [job EXCEPT ![j] = [pc |-> "dial", dev |-> d,
                                     token |-> HasToken(FALSE, cred)],
                             ![k] = IF StartsPoller(FALSE, cred)
                                    THEN [pc |-> "spawned"] ELSE Free]
  BY DEF WsRequest
<1>4. PICK x : x = [pc |-> "dial", dev |-> d, token |-> HasToken(FALSE, cred)]
  OBVIOUS
<1>5. x \in Job /\ Sound(x, device', Pending') /\ ~Polls(x)
  <2>1. HasToken(FALSE, cred) \in BOOLEAN
    BY DEF HasToken
  <2> QED BY <1>4, <2>1, DialJob
<1>6. PICK z : z = IF StartsPoller(FALSE, cred) THEN [pc |-> "spawned"] ELSE Free
  OBVIOUS
<1>7. z \in Job /\ Sound(z, device', Pending') /\ ~Polls(z)
  BY <1>6, FreeJob
<1>8. job' = [job EXCEPT ![j] = x, ![k] = z]
  BY <1>3, <1>4, <1>6
<1>9. /\ job' \in [Jobs -> Job] /\ job'[j] = x /\ job'[k] = z
      /\ \A l \in Jobs \ {j, k} : job'[l] = job[l]
  BY <1>2, <1>5, <1>7, <1>8 DEF Approving, ApproveTypeOK
<1>10. ApproveTypeOK'
  BY <1>2, <1>9 DEF Approving, ApproveTypeOK
<1>11. ASSUME NEW l \in Jobs
       PROVE  Sound(job'[l], device', Pending')
  <2>1. CASE l \in {j, k}
    BY <1>5, <1>7, <1>9, <2>1
  <2>2. CASE l \notin {j, k}
    <3>1. job[l] \in Job /\ Sound(job[l], device, Pending) /\ job'[l] = job[l]
      BY <1>9, <2>2 DEF Approving, ApproveTypeOK, JobsSound
    <3> QED BY <1>1, <3>1, SoundForward
  <2> QED BY <2>1, <2>2
<1>12. \A l \in Jobs : Polls(job'[l]) <=> Polls(job[l])
  BY <1>2, <1>5, <1>7, <1>9
<1>13. OneAtMost'
  BY <1>2, <1>12 DEF Approving, OneAtMost
<1> QED BY <1>1, <1>10, <1>11, <1>13 DEF Approving, JobsSound

LEMMA DialApproving ==
    ASSUME GatewayTyped, Approving, NEW j \in Jobs, Dial(j)
    PROVE  GatewayTyped' /\ Forward /\ Approving'
<1> DEFINE d == job[j].dev
<1>1. /\ faults' \in 0 .. MaxFaults /\ activePoller' = activePoller
      /\ ~Polls(job[j]) /\ d \in Devices
  <2>1. job[j] \in Job /\ job[j].pc = "dial"
    BY DEF Dial, Is, Approving, ApproveTypeOK
  <2> QED BY <2>1, JobFields, FreePolls DEF Dial, Approving, ApproveTypeOK
<1>2. CASE Set(j, Free) /\ UNCHANGED device
  <2>1. GatewayTyped' /\ Forward
    BY <1>2, SameForward
  <2> QED BY <1>1, <1>2, <2>1, FreeJob, JobStepApproving
<1>3. CASE /\ Ask(d)
           /\ \/ Set(j, Work("ws", 1, {[dev |-> d, request |-> device'[d].request]}))
              \/ Set(j, Work("once", 1, {}))
              \/ Set(j, Free)
  <2>1. /\ GatewayTyped' /\ Forward
        /\ device'[d].request \in 1 .. MaxAsks
    BY <1>1, <1>3, AskForward
  <2>2. "ws" \in Kinds /\ "once" \in Kinds /\ 1 \in 0 .. Rounds /\ 1 > 0
    BY RoundsOK DEF Kinds
  <2>3. PICK q : q = [dev |-> d, request |-> device'[d].request]
    OBVIOUS
  <2>4. q \in Requests /\ q.request <= device'[q.dev].request
    BY <1>1, <2>1, <2>3, AsksOK DEF Requests
  <2>5. /\ Work("ws", 1, {q}) \in Job
        /\ Sound(Work("ws", 1, {q}), device', Pending')
        /\ ~Polls(Work("ws", 1, {q}))
    BY <2>2, <2>4, WorkJob
  <2>6. /\ Work("once", 1, {}) \in Job
        /\ Sound(Work("once", 1, {}), device', Pending')
        /\ ~Polls(Work("once", 1, {}))
    BY <2>2, WorkJob
  <2>7. CASE Set(j, Work("ws", 1, {q}))
    BY <1>1, <2>1, <2>5, <2>7, JobStepApproving
  <2>8. CASE Set(j, Work("once", 1, {}))
    BY <1>1, <2>1, <2>6, <2>8, JobStepApproving
  <2>9. CASE Set(j, Free)
    BY <1>1, <2>1, <2>9, FreeJob, JobStepApproving
  <2> QED BY <1>3, <2>1, <2>3, <2>7, <2>8, <2>9
<1> QED BY <1>2, <1>3 DEF Dial

LEMMA RedialApproving ==
    ASSUME GatewayTyped, Approving, NEW j \in Jobs, Redial(j)
    PROVE  GatewayTyped' /\ Forward /\ Approving'
<1>1. /\ faults' \in 0 .. MaxFaults /\ activePoller' = activePoller
      /\ ~Polls(job[j]) /\ job[j].asked \subseteq Requests
  <2>1. job[j] \in Job /\ job[j].pc = "redial"
    BY DEF Redial, Is, Approving, ApproveTypeOK
  <2>2. job[j] \in WorkingJob
    BY <2>1, JobFields DEF Working
  <2> QED BY <2>1, <2>2, FreePolls DEF Redial, Approving, ApproveTypeOK, WorkingJob
<1>2. CASE Set(j, Free) /\ UNCHANGED device
  <2>1. GatewayTyped' /\ Forward
    BY <1>2, SameForward
  <2> QED BY <1>1, <1>2, <2>1, FreeJob, JobStepApproving
<1>3. ASSUME NEW q \in job[j].asked, Ask(q.dev), Set(j, Work("once", 1, {}))
      PROVE  GatewayTyped' /\ Forward /\ Approving'
  <2>1. q.dev \in Devices
    BY <1>1 DEF Requests
  <2>2. GatewayTyped' /\ Forward
    BY <1>3, <2>1, AskForward
  <2>3. "once" \in Kinds /\ 1 \in 0 .. Rounds /\ 1 > 0
    BY RoundsOK DEF Kinds
  <2>4. /\ Work("once", 1, {}) \in Job
        /\ Sound(Work("once", 1, {}), device', Pending')
        /\ ~Polls(Work("once", 1, {}))
    BY <2>3, WorkJob
  <2> QED BY <1>1, <1>3, <2>2, <2>4, JobStepApproving
<1> QED BY <1>2, <1>3 DEF Redial

LEMMA RegisterPollerApproving ==
    ASSUME GatewayTyped, Approving, NEW j \in Jobs, RegisterPoller(j)
    PROVE  GatewayTyped' /\ Forward /\ Approving'
<1>1. GatewayTyped' /\ Forward
  BY SameForward DEF RegisterPoller
<1>2. /\ faults' \in 0 .. MaxFaults /\ ~Polls(job[j]) /\ device' = device
  BY FreePolls DEF RegisterPoller, Approving, ApproveTypeOK, Is
<1>3. CASE activePoller /\ Set(j, Free) /\ UNCHANGED activePoller
  BY <1>1, <1>2, <1>3, FreeJob, JobStepApproving
<1>4. CASE ~activePoller /\ Set(j, Work("poller", Rounds, {})) /\ activePoller' = TRUE
  <2>1. "poller" \in Kinds /\ Rounds \in 0 .. Rounds /\ Rounds > 0
    BY RoundsOK DEF Kinds
  <2>2. PICK y : y = Work("poller", Rounds, {})
    OBVIOUS
  <2>3. y \in Job /\ Sound(y, device', Pending') /\ Polls(y)
    BY <2>1, <2>2, WorkJob
  <2>4. job' \in [Jobs -> Job] /\ job'[j] = y /\ \A k \in Jobs \ {j} : job'[k] = job[k]
    BY <1>4, <2>2, <2>3 DEF Approving, ApproveTypeOK, Set
  <2>5. ApproveTypeOK'
    BY <1>2, <1>4, <2>4 DEF ApproveTypeOK
  <2>6. ASSUME NEW k \in Jobs
        PROVE  Sound(job'[k], device', Pending')
    <3>1. CASE k = j
      BY <2>3, <2>4, <3>1
    <3>2. CASE k # j
      <4>1. job[k] \in Job /\ Sound(job[k], device, Pending) /\ job'[k] = job[k]
        BY <2>4, <3>2 DEF Approving, ApproveTypeOK, JobsSound
      <4> QED BY <1>1, <4>1, SoundForward
    <3> QED BY <3>1, <3>2
  <2>7. \A k \in Jobs : Polls(job'[k]) <=> k = j
    BY <1>4, <2>3, <2>4 DEF Approving, OneAtMost
  <2>8. OneAtMost'
    BY <1>4, <2>7 DEF OneAtMost
  <2> QED BY <1>1, <2>5, <2>6, <2>8 DEF Approving, JobsSound
<1> QED BY <1>3, <1>4 DEF RegisterPoller

LEMMA EndPollerApproving ==
    ASSUME GatewayTyped, Approving, NEW j \in Jobs, EndPoller(j)
    PROVE  GatewayTyped' /\ Forward /\ Approving'
<1>1. GatewayTyped' /\ Forward
  BY SameForward DEF EndPoller
<1>2. /\ faults' \in 0 .. MaxFaults /\ Polls(job[j]) /\ device' = device
      /\ Set(j, Free) /\ ~activePoller'
  BY DEF EndPoller, Approving, ApproveTypeOK, Is, Polls
<1>3. job' \in [Jobs -> Job] /\ job'[j] = Free /\ \A k \in Jobs \ {j} : job'[k] = job[k]
  BY <1>2, FreeJob DEF Approving, ApproveTypeOK, Set
<1>4. ApproveTypeOK'
  BY <1>2, <1>3 DEF EndPoller, ApproveTypeOK
<1>5. ASSUME NEW k \in Jobs
      PROVE  Sound(job'[k], device', Pending')
  <2>1. CASE k = j
    BY <1>3, <2>1, FreeJob
  <2>2. CASE k # j
    <3>1. job[k] \in Job /\ Sound(job[k], device, Pending) /\ job'[k] = job[k]
      BY <1>3, <2>2 DEF Approving, ApproveTypeOK, JobsSound
    <3> QED BY <1>1, <3>1, SoundForward
  <2> QED BY <2>1, <2>2
<1>6. \A k \in Jobs : ~Polls(job'[k])
  BY <1>2, <1>3, FreeJob DEF Approving, OneAtMost
<1>7. OneAtMost'
  BY <1>2, <1>6 DEF OneAtMost
<1> QED BY <1>1, <1>4, <1>5, <1>7 DEF Approving, JobsSound

LEMMA WakeApproving ==
    ASSUME GatewayTyped, Approving, NEW j \in Jobs, Wake(j)
    PROVE  GatewayTyped' /\ Forward /\ Approving'
<1>1. GatewayTyped' /\ Forward
  BY SameForward DEF Wake
<1>2. /\ faults' \in 0 .. MaxFaults /\ activePoller' = activePoller /\ device' = device
      /\ job[j] \in Job /\ job[j].pc = "sleep" /\ Sound(job[j], device, Pending)
  BY DEF Wake, Is, Approving, ApproveTypeOK, JobsSound
<1>3. job[j] \in WorkingJob
  BY <1>2, JobFields DEF Working
<1>4. PICK y : y = [job[j] EXCEPT !.pc = "list"]
  OBVIOUS
<1>5. /\ y \in Job /\ y.pc = "list" /\ y.kind = job[j].kind /\ y.left = job[j].left
      /\ y.asked = job[j].asked
  BY <1>3, <1>4 DEF WorkingJob, Job
<1>6. Sound(y, device', Pending')
  BY <1>2, <1>5 DEF Sound, Working
<1>7. Polls(y) <=> Polls(job[j])
  BY <1>2, <1>5 DEF Polls
<1>8. Set(j, y)
  BY <1>4 DEF Wake
<1> QED BY <1>1, <1>2, <1>5, <1>6, <1>7, <1>8, JobStepApproving

LEMMA ListPendingApproving ==
    ASSUME GatewayTyped, Approving, NEW j \in Jobs, ListPending(j)
    PROVE  GatewayTyped' /\ Forward /\ Approving'
<1> DEFINE r == job[j]
<1>1. GatewayTyped' /\ Forward
  BY SameForward DEF ListPending
<1>2. /\ activePoller' = activePoller /\ device' = device /\ Pending' = Pending
      /\ r \in Job /\ r.pc = "list" /\ Sound(r, device, Pending) /\ faults \in 0 .. MaxFaults
  BY DEF ListPending, Is, Approving, ApproveTypeOK, JobsSound, Pending
<1>3. r \in WorkingJob /\ (Polls(r) <=> r.kind = "poller")
  BY <1>2, JobFields DEF Working, Polls
<1>4. /\ r.kind = "poller" => r.left > 0
      /\ \A q \in r.asked : q.request <= device[q.dev].request
  BY <1>2 DEF Sound, Working
<1>5. CASE Pending = {} /\ Set(j, Returned(r)) /\ UNCHANGED faults
  <2>1. /\ Returned(r) \in Job /\ Sound(Returned(r), device, Pending)
        /\ Polls(Returned(r)) <=> r.kind = "poller"
    BY <1>3, <1>4, <1>5, ReturnedJob
  <2>2. faults' \in 0 .. MaxFaults /\ Sound(Returned(r), device', Pending')
    BY <1>2, <1>5, <2>1
  <2> QED BY <1>1, <1>2, <1>3, <1>5, <2>1, <2>2, JobStepApproving
<1>6. CASE Set(j, [r EXCEPT !.pc = "approve", !.todo = Pending]) /\ UNCHANGED faults
  <2>1. PICK y : y = [r EXCEPT !.pc = "approve", !.todo = Pending]
    OBVIOUS
  <2>2. /\ y \in Job /\ y.pc = "approve" /\ y.kind = r.kind /\ y.left = r.left
        /\ y.asked = r.asked /\ y.todo = Pending
    BY <1>3, <2>1, PendingRequests DEF WorkingJob, Job
  <2>3. Sound(y, device, Pending)
    BY <1>4, <2>2 DEF Sound, Working
  <2>4. Polls(y) <=> Polls(r)
    BY <1>3, <2>2 DEF Polls
  <2>5. faults' \in 0 .. MaxFaults /\ Sound(y, device', Pending') /\ Set(j, y)
    BY <1>2, <1>6, <2>1, <2>3
  <2> QED BY <1>1, <1>2, <2>2, <2>4, <2>5, JobStepApproving
<1>7. CASE Fault(j) /\ Set(j, Returned([r EXCEPT !.clean = FALSE]))
  <2>1. PICK s : s = [r EXCEPT !.clean = FALSE]
    OBVIOUS
  <2>2. s \in WorkingJob /\ s.kind = r.kind /\ s.left = r.left /\ s.asked = r.asked /\ ~s.clean
    BY <1>3, <2>1 DEF WorkingJob
  <2>3. /\ Returned(s) \in Job /\ Sound(Returned(s), device, Pending)
        /\ Polls(Returned(s)) <=> r.kind = "poller"
    BY <1>4, <2>2, ReturnedJob
  <2>4. faults' \in 0 .. MaxFaults
    BY <1>2, <1>7, RoundsOK DEF Fault
  <2>5. Sound(Returned(s), device', Pending') /\ Set(j, Returned(s))
    BY <1>2, <1>7, <2>1, <2>3
  <2> QED BY <1>1, <1>2, <1>3, <2>3, <2>4, <2>5, JobStepApproving
<1> QED BY <1>5, <1>6, <1>7 DEF ListPending

LEMMA ApproveNextApproving ==
    ASSUME GatewayTyped, Approving, NEW j \in Jobs, ApproveNext(j)
    PROVE  GatewayTyped' /\ Forward /\ Approving'
<1> DEFINE x == job[j]
<1>1. PICK q \in x.todo, err \in BOOLEAN :
          LET r == [x EXCEPT !.todo = @ \ {q}, !.clean = @ /\ ~err]
          IN  /\ IF err THEN Fault(j) ELSE UNCHANGED faults
              /\ \/ err /\ UNCHANGED device
                 \/ device' = IF CanApprove(q) THEN Approved(q) ELSE device
              /\ Set(j, IF r.todo = {} THEN Returned(r) ELSE r)
  BY DEF ApproveNext
<1>2. /\ activePoller' = activePoller /\ x \in Job /\ x.pc = "approve"
      /\ Sound(x, device, Pending) /\ faults \in 0 .. MaxFaults
  BY DEF ApproveNext, Is, Approving, ApproveTypeOK, JobsSound
<1>3. x \in WorkingJob /\ (Polls(x) <=> x.kind = "poller")
  BY <1>2, JobFields DEF Working, Polls
<1>4. q \in Requests /\ x.asked \subseteq Requests
  BY <1>3 DEF WorkingJob
<1>5. faults' \in 0 .. MaxFaults
  BY <1>1, <1>2, RoundsOK DEF Fault
<1>6. /\ GatewayTyped' /\ Forward
      /\ ~err => q \notin Pending'
  <2>1. CASE device' = device
    <3>1. CASE ~CanApprove(q)
      BY <2>1, <3>1, SameForward DEF CanApprove, Pending
    <3>2. CASE err
      BY <2>1, <3>2, SameForward
    <3>3. CASE CanApprove(q) /\ ~err
      <4>1. device' = Approved(q)
        BY <1>1, <3>3
      <4> QED BY <1>4, <3>3, <4>1, ApprovedForward DEF Pending
    <3> QED BY <3>1, <3>2, <3>3
  <2>2. CASE CanApprove(q) /\ device' = Approved(q)
    BY <1>4, <2>2, ApprovedForward DEF Pending
  <2> QED BY <1>1, <2>1, <2>2
<1>7. PICK c \in BOOLEAN : c = (x.clean /\ ~err)
  OBVIOUS
<1>8. PICK r : r = [x EXCEPT !.todo = x.todo \ {q}, !.clean = c]
  OBVIOUS
<1>9. r = [x EXCEPT !.todo = @ \ {q}, !.clean = @ /\ ~err]
  BY <1>3, <1>7, <1>8 DEF WorkingJob
<1>10. /\ r \in WorkingJob /\ r.pc = "approve" /\ r.kind = x.kind /\ r.left = x.left
       /\ r.asked = x.asked /\ r.todo = x.todo \ {q} /\ (r.clean => x.clean /\ ~err)
  BY <1>2, <1>3, <1>7, <1>8 DEF WorkingJob
<1>11. Set(j, IF r.todo = {} THEN Returned(r) ELSE r)
  BY <1>1, <1>9
<1>12. Sound(x, device', Pending')
  BY <1>2, <1>6, SoundForward
<1>13. /\ r.kind = "poller" => r.left > 0
       /\ \A p \in r.asked : p.request <= device'[p.dev].request
       /\ r.clean => r.asked \cap Pending' \subseteq r.todo
  BY <1>2, <1>6, <1>10, <1>12 DEF Sound, Working
<1>14. CASE r.todo = {}
  <2>1. /\ Returned(r) \in Job /\ Sound(Returned(r), device', Pending')
        /\ Polls(Returned(r)) <=> r.kind = "poller"
    BY <1>10, <1>13, <1>14, ReturnedJob
  <2> QED BY <1>2, <1>3, <1>5, <1>6, <1>10, <1>11, <1>14, <2>1, JobStepApproving
<1>15. CASE r.todo # {}
  <2>1. r \in Job
    BY <1>10 DEF WorkingJob, Job
  <2>2. Sound(r, device', Pending')
    BY <1>10, <1>13 DEF Sound, Working
  <2>3. Polls(r) <=> Polls(x)
    BY <1>3, <1>10 DEF Polls
  <2> QED BY <1>2, <1>5, <1>6, <1>11, <1>15, <2>1, <2>2, <2>3, JobStepApproving
<1> QED BY <1>14, <1>15

LEMMA ApproveStepApproving ==
    ASSUME GatewayTyped, Approving, ApproveStep
    PROVE  GatewayTyped' /\ Forward /\ Approving'
BY HttpRequestApproving, WsRequestApproving, DialApproving, RedialApproving,
   RegisterPollerApproving, EndPollerApproving, WakeApproving, ListPendingApproving,
   ApproveNextApproving
   DEF ApproveStep, JobStep

\* A step of a handler leaves the goroutines alone.
LEMMA OtherStepApproving ==
    ASSUME GatewayTyped, GatewayTyped', Forward, Approving, UNCHANGED approveVars
    PROVE  Approving'
<1>1. ApproveTypeOK' /\ OneAtMost' /\ job' = job
  BY DEF Approving, ApproveTypeOK, OneAtMost, approveVars
<1>2. ASSUME NEW k \in Jobs
      PROVE  Sound(job[k], device', Pending')
  <2>1. job[k] \in Job /\ Sound(job[k], device, Pending)
    BY DEF Approving, ApproveTypeOK, JobsSound
  <2> QED BY <2>1, SoundForward
<1> QED BY <1>1, <1>2 DEF Approving, JobsSound

(***************************************************************************)
(* The handlers and their connections                                      *)
(***************************************************************************)
Messages == {Event, Challenge} \cup Answers
ReadingPcs == {"challenge", "response", "call", "read"}

\* What the gateway was asked: the handshake, or the n-th call of an operation.
AskedOK(q) ==
    /\ q \in Request
    /\ \/ q.id = "connect-1" /\ q.method = "connect"
       \/ q.id = "1" /\ q.method = Method(q.op, 1)
       \/ q.id = "2" /\ q.method = Method(q.op, 2) /\ q.op.method = "list"

AskedFor(q, r) == q.op = r.op /\ (q.id = "2" => r.calls = 2)

\* The devices that the second answer still has to name are in the gateway's list.
Covered(r, dv) == \A d \in r.known : d \in r.devices \/ dv[d].listed

\* The messages a handler may find: a success of its call is a success of that call.
Good(r, dv) ==
    {Event, Challenge} \cup
    {m \in Answers :
        m.ok => /\ m.id = "1" /\ r.op.method # "list" => r.done
                /\ m.id = "1" /\ r.op.method = "list" =>
                      \A d \in r.known : d \in m.payload \/ dv[d].listed
                /\ m.id = "2" => /\ r.calls = 2 /\ r.op.method = "list"
                                 /\ \A d \in r.known : d \in m.payload \/ d \in r.devices}

\* Where a handler is says which calls it made.
Coherent(r, dv) ==
    /\ \A d \in r.known : dv[d].is # "unknown"
    /\ r.pc \in {"challenge", "response"} => r.calls = 0
    /\ r.pc = "call" => r.calls \in {0, 1}
    /\ r.pc = "call" /\ r.calls = 1 => r.op.method = "list" /\ Covered(r, dv)
    /\ r.pc = "read" => r.calls \in {1, 2}
    /\ r.pc = "read" /\ r.calls = 2 => r.op.method = "list" /\ Covered(r, dv)
    /\ r.pc = "cli" => r.op.method = "list"
    /\ r.pc = "success" /\ r.op.method # "list" => r.done
    /\ r.pc = "success" /\ r.op.method = "list" => r.known \subseteq r.devices

Fine(r, st, s, dv) ==
    /\ s.asked = {} \/ \E q \in Request : s.asked = {q}
    /\ \A q \in s.asked : AskedOK(q)
    /\ r.pc \in ReadingPcs => st \in Seq(Good(r, dv)) /\ \A q \in s.asked : AskedFor(q, r)
    /\ r.pc \notin ReadingPcs => st = <<>>
    /\ r.pc # "closed" => Coherent(r, dv)

Clienting ==
    /\ conn \in [Clients -> Conn]
    /\ stream \in [Clients -> Seq(Messages)]
    /\ server \in [Clients -> Server]
    /\ \A c \in Clients : Fine(conn[c], stream[c], server[c], device)

OpenConn ==
    [pc : {"challenge", "response", "call", "read", "cli", "success"},
     op : Ops, calls : 0 .. 2, devices : SUBSET Devices,
     known : SUBSET Devices, done : BOOLEAN]

LEMMA ConnFields ==
    ASSUME NEW r \in Conn
    PROVE  r = Closed \/ (r.pc # "closed" /\ r \in OpenConn)
BY DEF Conn, Closed, OpenConn

LEMMA ClosedConn ==
    /\ Closed \in Conn /\ Closed.pc = "closed" /\ "closed" \notin ReadingPcs
    /\ OpenConn \subseteq Conn
BY DEF Conn, Closed, ReadingPcs, OpenConn

LEMMA GoneServer ==
    Gone \in Server /\ Gone.asked = {} /\ Gone.is = "gone"
BY EventsOK DEF Gone, Server

LEMMA GoodMessages ==
    ASSUME NEW r, NEW dv
    PROVE  /\ Good(r, dv) \subseteq Messages /\ Event \in Good(r, dv)
           /\ Challenge \in Good(r, dv)
BY DEF Good, Messages

\* What others do with the devices does not disturb a handler.
LEMMA FineForward ==
    ASSUME GatewayTyped, Forward, NEW r \in Conn, NEW st, NEW s,
           Fine(r, st, s, device)
    PROVE  Fine(r, st, s, device')
<1>1. CASE r = Closed
  BY <1>1, ClosedConn DEF Fine
<1>2. CASE r \in OpenConn
  <2>1. r.known \subseteq Devices
    BY <1>2 DEF OpenConn
  <2>2. Good(r, device) \subseteq Good(r, device')
    BY <2>1 DEF Good, Forward
  <2>3. ASSUME Coherent(r, device) PROVE Coherent(r, device')
    BY <2>1, <2>3 DEF Coherent, Covered, Forward
  <2> QED BY <2>2, <2>3, SeqMonotonic DEF Fine
<1> QED BY <1>1, <1>2, ConnFields

\* One handler, or the gateway's end of its connection, goes on.
LEMMA ClientGoes ==
    ASSUME GatewayTyped, GatewayTyped', Forward, Clienting, NEW c \in Clients,
           NEW r \in Conn, NEW st \in Seq(Messages), NEW s \in Server,
           conn' = [conn EXCEPT ![c] = r], stream' = [stream EXCEPT ![c] = st],
           server' = [server EXCEPT ![c] = s], Fine(r, st, s, device')
    PROVE  Clienting'
<1>1. /\ conn' \in [Clients -> Conn] /\ stream' \in [Clients -> Seq(Messages)]
      /\ server' \in [Clients -> Server]
      /\ conn'[c] = r /\ stream'[c] = st /\ server'[c] = s
      /\ \A k \in Clients \ {c} :
            conn'[k] = conn[k] /\ stream'[k] = stream[k] /\ server'[k] = server[k]
  BY DEF Clienting
<1>2. ASSUME NEW k \in Clients
      PROVE  Fine(conn'[k], stream'[k], server'[k], device')
  <2>1. CASE k = c
    BY <1>1, <2>1
  <2>2. CASE k # c
    <3>1. /\ conn[k] \in Conn /\ Fine(conn[k], stream[k], server[k], device)
          /\ conn'[k] = conn[k] /\ stream'[k] = stream[k] /\ server'[k] = server[k]
      BY <1>1, <2>2 DEF Clienting
    <3> QED BY <3>1, FineForward
  <2> QED BY <2>1, <2>2
<1> QED BY <1>1, <1>2 DEF Clienting

LEMMA ClientFields ==
    ASSUME Clienting, NEW c \in Clients
    PROVE  /\ conn[c] \in Conn /\ stream[c] \in Seq(Messages) /\ server[c] \in Server
           /\ Fine(conn[c], stream[c], server[c], device)
           /\ conn = [conn EXCEPT ![c] = conn[c]]
           /\ stream = [stream EXCEPT ![c] = stream[c]]
           /\ server = [server EXCEPT ![c] = server[c]]
           /\ Reading(c) <=> conn[c].pc \in ReadingPcs
BY DEF Clienting, Reading, ReadingPcs

\* A handler that has its connection, and the message it finds.
LEMMA ReadingFields ==
    ASSUME Clienting, NEW c \in Clients, Reading(c)
    PROVE  /\ conn[c] \in OpenConn /\ conn[c].pc # "closed"
           /\ Coherent(conn[c], device)
           /\ stream[c] \in Seq(Good(conn[c], device))
           /\ \A q \in server[c].asked : AskedOK(q) /\ AskedFor(q, conn[c])
           /\ stream[c] # <<>> =>
                 /\ Got(c) \in Good(conn[c], device)
                 /\ Tail(stream[c]) \in Seq(Good(conn[c], device))
<1>1. /\ conn[c] \in Conn /\ conn[c].pc \in ReadingPcs
      /\ Fine(conn[c], stream[c], server[c], device)
  BY ClientFields
<1>2. conn[c] \in OpenConn /\ conn[c].pc # "closed"
  BY <1>1, ConnFields, ClosedConn
<1>3. stream[c] \in Seq(Good(conn[c], device))
  BY <1>1 DEF Fine
<1>4. ASSUME stream[c] # <<>>
      PROVE  /\ Got(c) \in Good(conn[c], device)
             /\ Tail(stream[c]) \in Seq(Good(conn[c], device))
  BY <1>3, <1>4, HeadTailProperties DEF Got
<1> QED BY <1>1, <1>2, <1>3, <1>4 DEF Fine

\* What is left of the gateway's end when the handler closes.
LEMMA ForsakenServer ==
    ASSUME Clienting, NEW c \in Clients
    PROVE  /\ Forsaken(c) \in Server
           /\ Forsaken(c).asked = server[c].asked
<1>1. server[c] \in Server
  BY ClientFields
<1>2. CASE server[c].asked = {}
  BY <1>2, GoneServer DEF Forsaken
<1>3. CASE server[c].asked # {}
  <2>1. PICK s : s = [server[c] EXCEPT !.events = 0]
    OBVIOUS
  <2>2. 0 \in 0 .. MaxEvents
    BY EventsOK
  <2>3. s \in Server /\ s.asked = server[c].asked
    BY <1>1, <2>1, <2>2 DEF Server
  <2> QED BY <1>3, <2>1, <2>3 DEF Forsaken
<1> QED BY <1>2, <1>3

LEMMA LeaveClienting ==
    ASSUME GatewayTyped, Clienting, NEW c \in Clients, NEW r \in Conn, UNCHANGED device,
           Leave(c, r), r.pc \notin ReadingPcs, r.pc # "closed" => Coherent(r, device)
    PROVE  GatewayTyped' /\ Forward /\ Clienting'
<1>1. GatewayTyped' /\ Forward
  BY SameForward
<1>2. PICK s : s = Forsaken(c)
  OBVIOUS
<1>3. s \in Server /\ s.asked = server[c].asked
  BY <1>2, ForsakenServer
<1>4. Fine(r, <<>>, s, device')
  <2>1. Fine(conn[c], stream[c], server[c], device) /\ device' = device
    BY ClientFields
  <2> QED BY <1>3, <2>1 DEF Fine
<1>5. <<>> \in Seq(Messages)
  OBVIOUS
<1>6. /\ conn' = [conn EXCEPT ![c] = r] /\ stream' = [stream EXCEPT ![c] = <<>>]
      /\ server' = [server EXCEPT ![c] = s]
  BY <1>2 DEF Leave, Goto
<1> QED BY <1>1, <1>3, <1>4, <1>5, <1>6, ClientGoes

LEMMA FailClienting ==
    ASSUME GatewayTyped, Clienting, NEW c \in Clients, Reading(c), UNCHANGED device, Fail(c)
    PROVE  GatewayTyped' /\ Forward /\ Clienting'
<1> DEFINE r == conn[c]
<1>1. r \in OpenConn /\ Coherent(r, device)
  BY ReadingFields
<1>2. CASE r.op.method # "list"
  <2>1. Leave(c, Closed)
    BY <1>2 DEF Fail
  <2> QED BY <2>1, ClosedConn, LeaveClienting
<1>3. CASE r.op.method = "list"
  <2>1. PICK y : y = [r EXCEPT !.pc = "cli", !.calls = 0, !.devices = {}]
    OBVIOUS
  <2>2. y.pc = "cli" /\ y.calls = 0 /\ y.devices = {} /\ y.known = r.known /\ y.op = r.op
        /\ y.done = r.done /\ DOMAIN y = DOMAIN r
    BY <1>1, <2>1 DEF OpenConn
  <2>5. y \in OpenConn
    <3>1. 0 \in 0 .. 2 /\ {} \in SUBSET Devices
      OBVIOUS
    <3> QED BY <1>1, <2>1, <3>1 DEF OpenConn
  <2>3. Coherent(y, device)
    BY <1>1, <1>3, <2>2 DEF Coherent
  <2>4. Leave(c, y)
    BY <1>3, <2>1 DEF Fail
  <2> QED BY <2>2, <2>3, <2>4, <2>5, ClosedConn, LeaveClienting DEF ReadingPcs
<1> QED BY <1>2, <1>3

LEMMA GiveUpClienting ==
    ASSUME GatewayTyped, Clienting, NEW c \in Clients, GiveUp(c)
    PROVE  GatewayTyped' /\ Forward /\ Clienting'
BY FailClienting DEF GiveUp

LEMMA ConnectClienting ==
    ASSUME GatewayTyped, Clienting, NEW c \in Clients, NEW op \in Ops, Connect(c, op)
    PROVE  GatewayTyped' /\ Forward /\ Clienting'
<1>1. GatewayTyped' /\ Forward /\ device' = device
  BY SameForward DEF Connect
<1>2. PICK kn : kn = IF op.method = "list" THEN Known ELSE {}
  OBVIOUS
<1>3. kn \subseteq Devices /\ \A d \in kn : device[d].is # "unknown"
  BY <1>2 DEF Known
<1>4. PICK r : r = [pc |-> "challenge", op |-> op, calls |-> 0, devices |-> {},
                    known |-> kn, done |-> FALSE]
  OBVIOUS
<1>5. r \in OpenConn /\ r.pc = "challenge" /\ r.calls = 0 /\ r.known = kn
  BY <1>3, <1>4 DEF OpenConn
<1>6. conn' = [conn EXCEPT ![c] = r]
  BY <1>2, <1>4 DEF Connect, Goto
<1>7. PICK is \in {"waiting", "open"} :
          /\ server' = [server EXCEPT ![c] = [Gone EXCEPT !.is = is]]
          /\ stream' = [stream EXCEPT ![c] = IF is = "waiting" THEN <<Challenge>> ELSE <<>>]
  BY DEF Connect
<1>8. PICK s : s = [Gone EXCEPT !.is = is]
  OBVIOUS
<1>9. s \in Server /\ s.asked = {}
  BY <1>8, EventsOK DEF Gone, Server
<1>10. PICK st : st = IF is = "waiting" THEN <<Challenge>> ELSE <<>>
  OBVIOUS
<1>11. st \in Seq(Good(r, device)) /\ st \in Seq(Messages)
  <2>1. st \in Seq(Good(r, device))
    BY <1>10, GoodMessages
  <2> QED BY <2>1, GoodMessages, SeqMonotonic
<1>12. Fine(r, st, s, device')
  BY <1>1, <1>3, <1>5, <1>9, <1>11 DEF Fine, Coherent, ReadingPcs
<1> QED BY <1>1, <1>5, <1>6, <1>7, <1>8, <1>9, <1>10, <1>11, <1>12, ClientGoes, ClosedConn

LEMMA WrittenServer ==
    ASSUME Clienting, NEW c \in Clients, NEW q \in Request, NEW s,
           s = [server[c] EXCEPT !.asked = IF server[c].is = "gone" THEN {} ELSE {q}]
    PROVE  s \in Server /\ (s.asked = {} \/ s.asked = {q})
<1>1. server[c] \in Server
  BY ClientFields
<1>2. PICK a : a = IF server[c].is = "gone" THEN {} ELSE {q}
  OBVIOUS
<1>3. a \in SUBSET Request /\ (a = {} \/ a = {q})
  BY <1>2
<1>4. s = [server[c] EXCEPT !.asked = a]
  BY <1>2
<1> QED BY <1>1, <1>3, <1>4 DEF Server

LEMMA ReadChallengeClienting ==
    ASSUME GatewayTyped, Clienting, NEW c \in Clients, ReadChallenge(c)
    PROVE  GatewayTyped' /\ Forward /\ Clienting'
<1> DEFINE r == conn[c]
           st == Tail(stream[c])
<1>1. GatewayTyped' /\ Forward /\ device' = device
  BY SameForward DEF ReadChallenge
<1>2. Reading(c) /\ r.pc = "challenge" /\ stream[c] # <<>> /\ Take(c)
  BY DEF ReadChallenge, Reading
<1>3. r \in OpenConn /\ Coherent(r, device) /\ r.calls = 0 /\ st \in Seq(Good(r, device))
      /\ \A q \in server[c].asked : AskedOK(q) /\ AskedFor(q, r)
  BY <1>2, ReadingFields DEF Coherent
<1>4. /\ server[c] \in Server
      /\ Fine(r, stream[c], server[c], device)
      /\ server = [server EXCEPT ![c] = server[c]]
  BY ClientFields
<1>5. stream' = [stream EXCEPT ![c] = st] /\ st \in Seq(Messages)
  BY <1>2, <1>3, GoodMessages, SeqMonotonic DEF Take, Clienting
<1>6. CASE Got(c) = Challenge
  <2>1. PICK y : y = [r EXCEPT !.pc = "response"]
    OBVIOUS
  <2>2. /\ y \in OpenConn /\ y.pc = "response" /\ y.calls = 0 /\ y.known = r.known
        /\ y.op = r.op /\ y.done = r.done /\ y.devices = r.devices
    BY <1>3, <2>1 DEF OpenConn
  <2>3. PICK q : q = [id |-> "connect-1", op |-> r.op, method |-> "connect"]
    OBVIOUS
  <2>4. q \in Request /\ AskedOK(q) /\ AskedFor(q, y)
    <3>1. q \in Request
      BY <1>3, <2>3 DEF Request, Ids, OpenConn
    <3>2. q.id = "connect-1" /\ q.method = "connect" /\ q.op = y.op
      BY <2>2, <2>3
    <3> QED BY <3>1, <3>2 DEF AskedOK, AskedFor
  <2>5. PICK s : s = [server[c] EXCEPT !.asked = IF server[c].is = "gone" THEN {} ELSE {q}]
    OBVIOUS
  <2>6. s \in Server /\ (s.asked = {} \/ s.asked = {q})
    BY <2>4, <2>5, WrittenServer
  <2>7. conn' = [conn EXCEPT ![c] = y] /\ server' = [server EXCEPT ![c] = s]
    <3>1. Goto(c, y) /\ Write(c, q)
      BY <1>6, <2>1, <2>3 DEF ReadChallenge
    <3> QED BY <2>5, <3>1 DEF Goto, Write, Clienting
  <2>8. Good(r, device) = Good(y, device)
    BY <1>3, <2>2 DEF Good
  <2>9. Coherent(y, device)
    BY <1>3, <2>2 DEF Coherent
  <2>10. st \in Seq(Good(y, device))
    BY <1>3, <2>8
  <2>11. Fine(y, st, s, device')
    BY <1>1, <2>2, <2>4, <2>6, <2>9, <2>10 DEF Fine, ReadingPcs
  <2> HIDE DEF st
  <2> QED BY <1>1, <1>5, <2>2, <2>6, <2>7, <2>11, ClosedConn, ClientGoes
<1>7. CASE Got(c) # Challenge
  <2>1. PICK y : y = [r EXCEPT !.pc = "call"]
    OBVIOUS
  <2>2. /\ y \in OpenConn /\ y.pc = "call" /\ y.calls = 0 /\ y.known = r.known
        /\ y.op = r.op /\ y.done = r.done /\ y.devices = r.devices
    BY <1>3, <2>1 DEF OpenConn
  <2>3. conn' = [conn EXCEPT ![c] = y] /\ server' = [server EXCEPT ![c] = server[c]]
    <3>1. Goto(c, y) /\ UNCHANGED server
      BY <1>7, <2>1 DEF ReadChallenge
    <3> QED BY <1>4, <3>1 DEF Goto
  <2>4. Good(r, device) = Good(y, device)
    BY <1>3, <2>2 DEF Good
  <2>5. Coherent(y, device)
    BY <1>3, <2>2 DEF Coherent
  <2>6. st \in Seq(Good(y, device))
    BY <1>3, <2>4
  <2>7. \A q \in server[c].asked : AskedFor(q, y)
    BY <1>3, <2>2 DEF AskedFor
  <2>8. Fine(y, st, server[c], device')
    BY <1>1, <1>4, <2>2, <2>5, <2>6, <2>7 DEF Fine, ReadingPcs
  <2> HIDE DEF st
  <2> QED BY <1>1, <1>4, <1>5, <2>2, <2>3, <2>8, ClosedConn, ClientGoes
<1> QED BY <1>6, <1>7

LEMMA ReadResponseClienting ==
    ASSUME GatewayTyped, Clienting, NEW c \in Clients, ReadResponse(c)
    PROVE  GatewayTyped' /\ Forward /\ Clienting'
<1> DEFINE r == conn[c]
           st == Tail(stream[c])
<1>1. GatewayTyped' /\ Forward /\ device' = device
  BY SameForward DEF ReadResponse
<1>2. Reading(c) /\ r.pc = "response" /\ stream[c] # <<>>
  BY DEF ReadResponse, Reading
<1>3. r \in OpenConn /\ Coherent(r, device) /\ r.calls = 0 /\ st \in Seq(Good(r, device))
      /\ \A q \in server[c].asked : AskedOK(q) /\ AskedFor(q, r)
  BY <1>2, ReadingFields DEF Coherent
<1>4. /\ server[c] \in Server
      /\ Fine(r, stream[c], server[c], device)
      /\ server = [server EXCEPT ![c] = server[c]]
  BY ClientFields
<1>5. CASE Refuses(Got(c))
  <2>1. Fail(c)
    BY <1>5 DEF ReadResponse
  <2> QED BY <1>1, <1>2, <2>1, FailClienting
<1>6. CASE ~Refuses(Got(c))
  <2>1. PICK y : y = [r EXCEPT !.pc = "call"]
    OBVIOUS
  <2>2. /\ y \in OpenConn /\ y.pc = "call" /\ y.calls = 0 /\ y.known = r.known
        /\ y.op = r.op /\ y.done = r.done /\ y.devices = r.devices
    BY <1>3, <2>1 DEF OpenConn
  <2>3. /\ conn' = [conn EXCEPT ![c] = y] /\ server' = [server EXCEPT ![c] = server[c]]
        /\ Take(c)
    BY <1>4, <1>6, <2>1 DEF ReadResponse, Goto
  <2>4. Good(r, device) = Good(y, device)
    BY <1>3, <2>2 DEF Good
  <2>5. Coherent(y, device)
    BY <1>3, <2>2 DEF Coherent
  <2>6. st \in Seq(Good(y, device))
    BY <1>3, <2>4
  <2>7. \A q \in server[c].asked : AskedFor(q, y)
    BY <1>3, <2>2 DEF AskedFor
  <2>8. Fine(y, st, server[c], device')
    BY <1>1, <1>4, <2>2, <2>5, <2>6, <2>7 DEF Fine, ReadingPcs
  <2>9. stream' = [stream EXCEPT ![c] = st] /\ st \in Seq(Messages)
    BY <1>3, <2>3, GoodMessages, SeqMonotonic DEF Take, Clienting
  <2> HIDE DEF st
  <2> QED BY <1>1, <1>4, <2>2, <2>3, <2>8, <2>9, ClosedConn, ClientGoes
<1> QED BY <1>5, <1>6

LEMMA SendCallClienting ==
    ASSUME GatewayTyped, Clienting, NEW c \in Clients, SendCall(c)
    PROVE  GatewayTyped' /\ Forward /\ Clienting'
<1> DEFINE r == conn[c]
           st == stream[c]
<1>1. GatewayTyped' /\ Forward /\ device' = device
  BY SameForward DEF SendCall
<1>2. Reading(c) /\ r.pc = "call"
  BY DEF SendCall, Reading
<1>3. r \in OpenConn /\ Coherent(r, device) /\ st \in Seq(Good(r, device))
  BY <1>2, ReadingFields
<1>4. r.calls \in {0, 1} /\ (r.calls = 1 => r.op.method = "list" /\ Covered(r, device))
  BY <1>2, <1>3 DEF Coherent
<1>5. PICK n : n = r.calls + 1
  OBVIOUS
<1>6. n \in 0 .. 2 /\ n \in {1, 2} /\ (n = 2 <=> r.calls = 1) /\ (n = 1 <=> r.calls = 0)
  BY <1>4, <1>5
<1>7. PICK y : y = [r EXCEPT !.pc = "read", !.calls = n]
  OBVIOUS
<1>8. /\ y \in OpenConn /\ y.pc = "read" /\ y.calls = n /\ y.known = r.known
      /\ y.op = r.op /\ y.done = r.done /\ y.devices = r.devices
  BY <1>3, <1>6, <1>7 DEF OpenConn
<1>9. PICK q : q = [id |-> Id(n), op |-> r.op, method |-> Method(r.op, n)]
  OBVIOUS
<1>10. q \in Request /\ AskedOK(q) /\ AskedFor(q, y)
  <2>1. r.op \in Ops /\ r.op.method \in {"list", "approve", "revoke"}
    BY <1>3 DEF OpenConn, Ops
  <2>2. Id(n) \in Ids /\ (n = 1 => Id(n) = "1") /\ (n = 2 => Id(n) = "2")
    BY <1>6 DEF Id, Ids
  <2>3. Method(r.op, n) \in {"node.pair.list", "node.list", "approve", "revoke"}
    BY <2>1, <1>6 DEF Method
  <2>4. q \in Request
    BY <1>9, <2>1, <2>2, <2>3 DEF Request
  <2>5. q.id = Id(n) /\ q.op = r.op /\ q.method = Method(q.op, n)
    BY <1>9
  <2> QED BY <1>4, <1>6, <1>8, <2>2, <2>4, <2>5 DEF AskedOK, AskedFor
<1>11. PICK s : s = [server[c] EXCEPT !.asked = IF server[c].is = "gone" THEN {} ELSE {q}]
  OBVIOUS
<1>12. s \in Server /\ (s.asked = {} \/ s.asked = {q})
  BY <1>10, <1>11, WrittenServer
<1>13. /\ conn' = [conn EXCEPT ![c] = y] /\ server' = [server EXCEPT ![c] = s]
       /\ stream' = [stream EXCEPT ![c] = st] /\ st \in Seq(Messages)
  <2>1. Goto(c, y) /\ Write(c, q) /\ stream' = stream
    BY <1>5, <1>7, <1>9 DEF SendCall
  <2> QED BY <1>11, <2>1, ClientFields DEF Goto, Write, Clienting
<1>14. Good(r, device) \subseteq Good(y, device)
  <2>1. r.calls # 2
    BY <1>4
  <2> QED BY <1>8, <2>1 DEF Good
<1>15. Coherent(y, device)
  <2>1. \A d \in y.known : device[d].is # "unknown"
    BY <1>3, <1>8 DEF Coherent
  <2>2. y.calls = 2 => y.op.method = "list" /\ Covered(y, device)
    BY <1>4, <1>6, <1>8 DEF Covered
  <2> QED BY <1>6, <1>8, <2>1, <2>2 DEF Coherent
<1>16. st \in Seq(Good(y, device))
  BY <1>3, <1>14, SeqMonotonic
<1>17. Fine(y, st, s, device')
  BY <1>1, <1>8, <1>10, <1>12, <1>15, <1>16 DEF Fine, ReadingPcs
<1> HIDE DEF st
<1> QED BY <1>1, <1>8, <1>12, <1>13, <1>17, ClosedConn, ClientGoes

LEMMA ReadAnswerClienting ==
    ASSUME GatewayTyped, Clienting, NEW c \in Clients, ReadAnswer(c)
    PROVE  GatewayTyped' /\ Forward /\ Clienting'
<1> DEFINE r == conn[c]
           st == Tail(stream[c])
           m == Got(c)
<1>1. GatewayTyped' /\ Forward /\ device' = device
  BY SameForward DEF ReadAnswer
<1>2. Reading(c) /\ r.pc = "read" /\ stream[c] # <<>>
  BY DEF ReadAnswer, Reading
<1>3. /\ r \in OpenConn /\ Coherent(r, device)
      /\ st \in Seq(Good(r, device)) /\ m \in Good(r, device)
      /\ \A q \in server[c].asked : AskedOK(q) /\ AskedFor(q, r)
  BY <1>2, ReadingFields
<1>4. /\ server[c] \in Server
      /\ Fine(r, stream[c], server[c], device)
      /\ server = [server EXCEPT ![c] = server[c]]
      /\ conn = [conn EXCEPT ![c] = r]
  BY ClientFields
<1>5. r.calls \in {1, 2} /\ (r.calls = 2 => r.op.method = "list" /\ Covered(r, device))
  BY <1>2, <1>3 DEF Coherent
<1>6. st \in Seq(Messages)
  BY <1>3, GoodMessages, SeqMonotonic
<1>7. Take(c) => stream' = [stream EXCEPT ![c] = st]
  BY DEF Take, Clienting
<1>8. CASE Take(c) /\ UNCHANGED <<conn, server>>
  <2>1. Fine(r, st, server[c], device')
    BY <1>1, <1>2, <1>3, <1>4 DEF Fine, ReadingPcs
  <2>2. conn' = [conn EXCEPT ![c] = r] /\ server' = [server EXCEPT ![c] = server[c]]
    BY <1>4, <1>8
  <2> HIDE DEF st
  <2> QED BY <1>1, <1>3, <1>4, <1>6, <1>7, <1>8, <2>1, <2>2, ClosedConn, ClientGoes
<1>9. CASE Fail(c)
  BY <1>1, <1>2, <1>9, FailClienting
<1>10. CASE /\ IsAnswer(m, r.calls) /\ m.ok
            /\ LET got == [r EXCEPT !.devices = @ \cup m.payload]
               IN  IF Through(r) THEN Leave(c, [got EXCEPT !.pc = "success"])
                   ELSE /\ Take(c) /\ Goto(c, [got EXCEPT !.pc = "call"])
                        /\ UNCHANGED server
  <2>1. m.type = "res" /\ m.id = Id(r.calls) /\ m.ok
    BY <1>10 DEF IsAnswer
  <2>2. /\ m \in Answers
        /\ m.id = "1" /\ r.op.method # "list" => r.done
        /\ m.id = "1" /\ r.op.method = "list" =>
              \A d \in r.known : d \in m.payload \/ device[d].listed
        /\ m.id = "2" => /\ r.calls = 2 /\ r.op.method = "list"
                         /\ \A d \in r.known : d \in m.payload \/ d \in r.devices
    <3>1. m \notin {Event, Challenge}
      BY <2>1 DEF Event, Challenge
    <3> QED BY <1>3, <2>1, <3>1 DEF Good
  <2>3. (r.calls = 1 => m.id = "1") /\ (r.calls = 2 => m.id = "2")
    BY <1>5, <2>1 DEF Id
  <2>4. m.payload \subseteq Devices
    BY <2>2 DEF Answers
  <2>5. PICK ds : ds = r.devices \cup m.payload
    OBVIOUS
  <2>6. ds \in SUBSET Devices /\ r.devices \subseteq ds /\ m.payload \subseteq ds
    BY <1>3, <2>4, <2>5 DEF OpenConn
  <2>7. CASE Through(r)
    <3>1. PICK y : y = [r EXCEPT !.devices = ds, !.pc = "success"]
      OBVIOUS
    <3>2. /\ y \in OpenConn /\ y.pc = "success" /\ y.known = r.known
          /\ y.op = r.op /\ y.done = r.done /\ y.devices = ds
      BY <1>3, <2>6, <3>1 DEF OpenConn
    <3>3. Leave(c, y)
      <4>1. [[r EXCEPT !.devices = @ \cup m.payload] EXCEPT !.pc = "success"] = y
        BY <1>3, <2>5, <3>1 DEF OpenConn
      <4> QED BY <1>10, <2>7, <4>1
    <3>4. y.op.method # "list" => y.done
      BY <1>5, <2>2, <2>3, <3>2
    <3>5. y.op.method = "list" => y.known \subseteq y.devices
      <4>1. r.op.method = "list" => r.calls = 2
        BY <2>7 DEF Through
      <4> QED BY <2>2, <2>3, <2>6, <3>2, <4>1
    <3>6. Coherent(y, device)
      BY <1>3, <3>2, <3>4, <3>5 DEF Coherent
    <3>7. y.pc \notin ReadingPcs
      BY <3>2 DEF ReadingPcs
    <3> QED BY <1>1, <3>2, <3>3, <3>6, <3>7, ClosedConn, LeaveClienting
  <2>8. CASE ~Through(r)
    <3>1. PICK y : y = [r EXCEPT !.devices = ds, !.pc = "call"]
      OBVIOUS
    <3>2. /\ y \in OpenConn /\ y.pc = "call" /\ y.known = r.known /\ y.calls = r.calls
          /\ y.op = r.op /\ y.done = r.done /\ y.devices = ds
      BY <1>3, <2>6, <3>1 DEF OpenConn
    <3>3. /\ conn' = [conn EXCEPT ![c] = y] /\ server' = [server EXCEPT ![c] = server[c]]
          /\ Take(c)
      <4>1. [[r EXCEPT !.devices = @ \cup m.payload] EXCEPT !.pc = "call"] = y
        BY <1>3, <2>5, <3>1 DEF OpenConn
      <4> QED BY <1>4, <1>10, <2>8, <4>1 DEF Goto
    <3>4. r.op.method = "list" /\ r.calls = 1
      BY <1>5, <2>8 DEF Through
    <3>5. Covered(y, device)
      BY <2>2, <2>3, <2>6, <3>2, <3>4 DEF Covered
    <3>6. Coherent(y, device)
      BY <1>3, <3>2, <3>4, <3>5 DEF Coherent
    <3>7. Good(r, device) \subseteq Good(y, device)
      <4>1. r.calls # 2
        BY <3>4
      <4> QED BY <2>6, <3>2, <4>1 DEF Good
    <3>8. st \in Seq(Good(y, device))
      BY <1>3, <3>7, SeqMonotonic
    <3>9. \A q \in server[c].asked : AskedFor(q, y)
      BY <1>3, <3>2 DEF AskedFor
    <3>10. Fine(y, st, server[c], device')
      BY <1>1, <1>4, <3>2, <3>6, <3>8, <3>9 DEF Fine, ReadingPcs
    <3> HIDE DEF st
    <3> QED BY <1>1, <1>4, <1>6, <1>7, <3>2, <3>3, <3>10, ClosedConn, ClientGoes
  <2> QED BY <2>7, <2>8
<1> QED BY <1>8, <1>9, <1>10 DEF ReadAnswer

LEMMA ListByCLIClienting ==
    ASSUME GatewayTyped, Clienting, NEW c \in Clients, ListByCLI(c)
    PROVE  GatewayTyped' /\ Forward /\ Clienting'
<1> DEFINE r == conn[c]
<1>1. GatewayTyped' /\ Forward /\ device' = device
  BY SameForward DEF ListByCLI
<1>2. /\ r.pc = "cli" /\ r \in Conn /\ stream[c] \in Seq(Messages) /\ server[c] \in Server
      /\ Fine(r, stream[c], server[c], device)
      /\ stream' = [stream EXCEPT ![c] = stream[c]]
      /\ server' = [server EXCEPT ![c] = server[c]]
  BY ClientFields DEF ListByCLI
<1>3. r \in OpenConn /\ Coherent(r, device)
  BY <1>2, ConnFields, ClosedConn DEF Fine
<1>4. CASE Goto(c, [r EXCEPT !.pc = "success", !.devices = Known])
  <2>1. PICK y : y = [r EXCEPT !.pc = "success", !.devices = Known]
    OBVIOUS
  <2>2. Known \in SUBSET Devices
    BY DEF Known
  <2>3. /\ y \in OpenConn /\ y.pc = "success" /\ y.known = r.known /\ y.op = r.op
        /\ y.devices = Known /\ y.done = r.done
    BY <1>3, <2>1, <2>2 DEF OpenConn
  <2>4. y.known \subseteq Known
    <3>1. r.known \subseteq Devices
      BY <1>3 DEF OpenConn
    <3> QED BY <1>3, <2>3, <3>1 DEF Coherent, Known
  <2>5. y.op.method = "list"
    BY <1>2, <1>3, <2>3 DEF Coherent
  <2>6. Coherent(y, device)
    BY <1>3, <2>3, <2>4, <2>5 DEF Coherent
  <2>7. Fine(y, stream[c], server[c], device')
    BY <1>1, <1>2, <2>3, <2>6 DEF Fine, ReadingPcs
  <2>8. conn' = [conn EXCEPT ![c] = y]
    BY <1>4, <2>1 DEF Goto
  <2> QED BY <1>1, <1>2, <2>3, <2>7, <2>8, ClosedConn, ClientGoes
<1>5. CASE Goto(c, Closed)
  <2>1. Fine(Closed, stream[c], server[c], device')
    BY <1>1, <1>2, ClosedConn DEF Fine, ReadingPcs
  <2> QED BY <1>1, <1>2, <1>5, <2>1, ClosedConn, ClientGoes DEF Goto
<1> QED BY <1>4, <1>5 DEF ListByCLI

LEMMA AnsweredClienting ==
    ASSUME GatewayTyped, Clienting, NEW c \in Clients, Answered(c)
    PROVE  GatewayTyped' /\ Forward /\ Clienting'
<1> DEFINE r == conn[c]
<1>1. GatewayTyped' /\ Forward /\ device' = device
  BY SameForward DEF Answered
<1>2. /\ r.pc = "success" /\ stream[c] \in Seq(Messages) /\ server[c] \in Server
      /\ Fine(r, stream[c], server[c], device)
      /\ stream' = [stream EXCEPT ![c] = stream[c]]
      /\ server' = [server EXCEPT ![c] = server[c]]
      /\ conn' = [conn EXCEPT ![c] = Closed]
  BY ClientFields DEF Answered, Goto
<1>3. Fine(Closed, stream[c], server[c], device')
  BY <1>1, <1>2, ClosedConn DEF Fine, ReadingPcs
<1> QED BY <1>1, <1>2, <1>3, ClosedConn, ClientGoes

\* The gateway dealt with the request, or dropped it.
LEMMA HandledServer ==
    ASSUME Clienting, NEW c \in Clients, NEW is \in {"waiting", "open", "gone"},
           Handled(c, is)
    PROVE  \E s \in Server : s.asked = {} /\ server' = [server EXCEPT ![c] = s]
<1>1. CASE ~Reading(c) \/ is = "gone"
  BY <1>1, GoneServer DEF Handled
<1>2. CASE Reading(c) /\ is # "gone"
  <2>1. PICK s : s = [server[c] EXCEPT !.asked = {}, !.is = is]
    OBVIOUS
  <2>2. s \in Server /\ s.asked = {}
    BY <2>1, ClientFields DEF Server
  <2>3. server' = [server EXCEPT ![c] = s]
    BY <1>2, <2>1 DEF Handled, Clienting
  <2> QED BY <2>2, <2>3
<1> QED BY <1>1, <1>2

\* An answer that is a good one leaves the stream with good ones.
LEMMA RepliedStream ==
    ASSUME Clienting, NEW c \in Clients, NEW q \in Request, NEW ok \in BOOLEAN,
           NEW payload \in SUBSET Devices, NEW r, NEW dv,
           Replied(c, q, ok, payload),
           Reading(c) => /\ stream[c] \in Seq(Good(r, dv))
                         /\ [type |-> "res", id |-> q.id, ok |-> ok, payload |-> payload]
                               \in Good(r, dv)
    PROVE  \E st \in Seq(Messages) : /\ stream' = [stream EXCEPT ![c] = st]
                                     /\ Reading(c) => st \in Seq(Good(r, dv))
                                     /\ ~Reading(c) => st = stream[c]
<1>1. CASE ~Reading(c)
  BY <1>1, ClientFields DEF Replied
<1>2. CASE Reading(c)
  <2>1. PICK m : m = [type |-> "res", id |-> q.id, ok |-> ok, payload |-> payload]
    OBVIOUS
  <2>2. PICK st : st = Append(stream[c], m)
    OBVIOUS
  <2>3. st \in Seq(Good(r, dv))
    <3>1. m \in Good(r, dv) /\ stream[c] \in Seq(Good(r, dv))
      BY <1>2, <2>1
    <3> QED BY <2>2, <3>1, AppendProperties
  <2>4. st \in Seq(Messages)
    BY <2>3, GoodMessages, SeqMonotonic
  <2>5. stream' = [stream EXCEPT ![c] = st]
    BY <1>2, <2>1, <2>2 DEF Replied, Clienting
  <2> QED BY <1>2, <2>3, <2>4, <2>5
<1> QED BY <1>1, <1>2

\* The gateway answers; r is the handler afterwards.
LEMMA ServedClienting ==
    ASSUME GatewayTyped, GatewayTyped', Forward, Clienting, NEW c \in Clients,
           NEW q \in Request, NEW ok \in BOOLEAN, NEW payload \in SUBSET Devices,
           NEW is \in {"waiting", "open"}, NEW r \in Conn,
           Replied(c, q, ok, payload), Handled(c, is),
           conn' = [conn EXCEPT ![c] = r], r.pc = conn[c].pc,
           Reading(c) => Good(conn[c], device) \subseteq Good(r, device'),
           Reading(c) =>
              [type |-> "res", id |-> q.id, ok |-> ok, payload |-> payload] \in Good(r, device'),
           r.pc # "closed" => Coherent(r, device')
    PROVE  Clienting'
<1>1. PICK s \in Server : s.asked = {} /\ server' = [server EXCEPT ![c] = s]
  BY HandledServer
<1>2. Reading(c) => stream[c] \in Seq(Good(r, device'))
  BY ReadingFields, SeqMonotonic
<1>3. PICK dv : dv = device'
  OBVIOUS
<1>4. PICK st \in Seq(Messages) : /\ stream' = [stream EXCEPT ![c] = st]
                                  /\ Reading(c) => st \in Seq(Good(r, dv))
                                  /\ ~Reading(c) => st = stream[c]
  BY <1>2, <1>3, RepliedStream
<1>5. Fine(r, st, s, device')
  <2>1. Reading(c) <=> r.pc \in ReadingPcs
    BY ClientFields
  <2>2. r.pc \notin ReadingPcs => st = <<>>
    BY <1>4, <2>1, ClientFields DEF Fine
  <2> QED BY <1>1, <1>3, <1>4, <2>1, <2>2 DEF Fine
<1> QED BY <1>1, <1>4, <1>5, ClientGoes

LEMMA RefusalGood ==
    ASSUME NEW q \in Request, NEW r, NEW dv
    PROVE  [type |-> "res", id |-> q.id, ok |-> FALSE, payload |-> {}] \in Good(r, dv)
<1>1. PICK m : m = [type |-> "res", id |-> q.id, ok |-> FALSE, payload |-> {}]
  OBVIOUS
<1>2. m \in Answers /\ ~m.ok
  BY <1>1 DEF Answers, Request
<1> QED BY <1>1, <1>2 DEF Good

\* A gateway that leaves the devices and the handler alone has only to answer well.
LEMMA QuietlyServed ==
    ASSUME GatewayTyped, Clienting, NEW c \in Clients,
           NEW q \in Request, NEW ok \in BOOLEAN, NEW payload \in SUBSET Devices,
           NEW is \in {"waiting", "open"},
           Replied(c, q, ok, payload), Handled(c, is), UNCHANGED <<device, conn>>,
           Reading(c) =>
              [type |-> "res", id |-> q.id, ok |-> ok, payload |-> payload]
                 \in Good(conn[c], device)
    PROVE  GatewayTyped' /\ Forward /\ Clienting'
<1>1. GatewayTyped' /\ Forward /\ device' = device
  BY SameForward
<1>2. PICK r : r = conn[c]
  OBVIOUS
<1>3. /\ conn' = [conn EXCEPT ![c] = r] /\ r \in Conn
      /\ Fine(r, stream[c], server[c], device)
      /\ Reading(c) <=> r.pc \in ReadingPcs
  BY <1>1, <1>2, ClientFields
<1>4. PICK s \in Server : s.asked = {} /\ server' = [server EXCEPT ![c] = s]
  BY HandledServer
<1>5. Reading(c) => /\ stream[c] \in Seq(Good(r, device))
                    /\ [type |-> "res", id |-> q.id, ok |-> ok, payload |-> payload]
                          \in Good(r, device)
  BY <1>2, <1>3 DEF Fine
<1>6. PICK st \in Seq(Messages) : /\ stream' = [stream EXCEPT ![c] = st]
                                  /\ Reading(c) => st \in Seq(Good(r, device))
                                  /\ ~Reading(c) => st = stream[c]
  BY <1>5, RepliedStream
<1>7. Fine(r, st, s, device')
  BY <1>1, <1>3, <1>4, <1>6 DEF Fine
<1> QED BY <1>1, <1>3, <1>4, <1>6, <1>7, ClientGoes

LEMMA OpMethods ==
    ASSUME NEW op \in Ops
    PROVE  /\ op.method \in {"list", "approve", "revoke"}
           /\ op.method = "approve" => op.request \in Requests
           /\ op.method = "revoke" => op.dev \in Devices
           /\ op.method # "list" => Method(op, 1) = op.method
           /\ op.method = "list" => Method(op, 1) = "node.pair.list"
                                   /\ Method(op, 2) = "node.list"
BY DEF Ops, Method

LEMMA AuthenticateClienting ==
    ASSUME GatewayTyped, Clienting, NEW c \in Clients, NEW q \in server[c].asked,
           Authenticate(c, q)
    PROVE  GatewayTyped' /\ Forward /\ Clienting'
<1>1. q \in Request /\ AskedOK(q)
  BY ClientFields DEF Fine, AskedOK
<1>2. PICK ok \in {q.method = "connect", FALSE} :
         Replied(c, q, ok, {}) /\ Handled(c, IF ok THEN "open" ELSE "waiting")
  BY DEF Authenticate
<1>3. UNCHANGED <<device, conn>>
  BY DEF Authenticate
<1>4. CASE ok
  <2>1. q.method = "connect"
    BY <1>2, <1>4
  <2>2. q.id = "connect-1"
    <3>1. q.op \in Ops
      BY <1>1 DEF Request
    <3> QED BY <1>1, <2>1, <3>1, OpMethods DEF AskedOK
  <2>3. PICK m : m = [type |-> "res", id |-> q.id, ok |-> TRUE, payload |-> {}]
    OBVIOUS
  <2>4. m \in Answers /\ m.id = "connect-1"
    BY <1>1, <2>2, <2>3 DEF Answers, Request
  <2>5. m \in Good(conn[c], device)
    BY <2>4 DEF Good
  <2>6. Replied(c, q, TRUE, {}) /\ Handled(c, "open")
    BY <1>2, <1>4
  <2> QED BY <1>1, <1>3, <2>3, <2>5, <2>6, QuietlyServed
<1>5. CASE ~ok
  <2>1. Replied(c, q, FALSE, {}) /\ Handled(c, "waiting")
    BY <1>2, <1>5
  <2> QED BY <1>1, <1>3, <2>1, RefusalGood, QuietlyServed
<1> QED BY <1>4, <1>5

LEMMA PerformClienting ==
    ASSUME GatewayTyped, Clienting, NEW c \in Clients, NEW q \in server[c].asked,
           Perform(c, q)
    PROVE  GatewayTyped' /\ Forward /\ Clienting'
<1> DEFINE r == conn[c]
<1>1. q \in Request /\ AskedOK(q) /\ q.op \in Ops /\ Handled(c, "open")
  BY ClientFields DEF Fine, AskedOK, Perform, Request
<1>2. /\ q.op.method \in {"list", "approve", "revoke"}
      /\ q.method = "node.pair.list" => q.id = "1" /\ q.op.method = "list"
      /\ q.method = "node.list" => q.id = "2" /\ q.op.method = "list"
      /\ q.method \in {"approve", "revoke"} => q.id = "1" /\ q.op.method = q.method
  BY <1>1, OpMethods DEF AskedOK
<1>3. Reading(c) => /\ r \in OpenConn /\ AskedFor(q, r) /\ Coherent(r, device)
                    /\ r.pc \in ReadingPcs
  BY ReadingFields, ClientFields
<1>4. r.known \subseteq Devices \/ ~Reading(c)
  BY <1>3 DEF OpenConn
<1>5. CASE Replied(c, q, FALSE, {}) /\ UNCHANGED <<device, conn>>
  BY <1>1, <1>5, RefusalGood, QuietlyServed
<1>6. CASE /\ q.method = "node.pair.list"
           /\ Replied(c, q, TRUE, {p.dev : p \in Pending})
           /\ UNCHANGED <<device, conn>>
  <2>1. PICK ds : ds = {p.dev : p \in Pending}
    OBVIOUS
  <2>2. /\ ds \in SUBSET Devices
        /\ \A d \in Devices : device[d].is = "pending" => d \in ds
    <3>1. \A p \in Pending : p.dev \in Devices
      BY DEF Pending
    <3>2. ASSUME NEW d \in Devices, device[d].is = "pending" PROVE d \in ds
      <4>1. PICK p \in Pending : p = [dev |-> d, request |-> device[d].request]
        BY <3>2, PendingRequests
      <4>2. p.dev = d
        BY <4>1
      <4> QED BY <2>1, <4>2
    <3> QED BY <2>1, <3>1, <3>2
  <2>3. PICK m : m = [type |-> "res", id |-> q.id, ok |-> TRUE, payload |-> ds]
    OBVIOUS
  <2>4. m \in Answers /\ m.id = "1" /\ m.payload = ds
    BY <1>1, <1>2, <1>6, <2>2, <2>3 DEF Answers, Request
  <2>5. ASSUME Reading(c) PROVE m \in Good(r, device)
    <3>1. r.op.method = "list"
      BY <1>2, <1>3, <1>6, <2>5 DEF AskedFor
    <3>2. ASSUME NEW d \in r.known PROVE d \in m.payload \/ device[d].listed
      <4>1. d \in Devices /\ device[d].is # "unknown"
        BY <1>3, <1>4, <2>5, <3>2 DEF Coherent
      <4>2. device[d].is \in Pairing
        BY <4>1, DeviceFields
      <4> QED BY <2>2, <2>4, <4>1, <4>2 DEF GatewayTyped, Pairing
    <3> QED BY <2>4, <3>1, <3>2 DEF Good
  <2>6. Replied(c, q, TRUE, ds)
    BY <1>6, <2>1
  <2> QED BY <1>1, <1>6, <2>2, <2>3, <2>5, <2>6, QuietlyServed
<1>7. CASE /\ q.method = "node.list"
           /\ Replied(c, q, TRUE, Listed)
           /\ UNCHANGED <<device, conn>>
  <2>1. PICK ds : ds = Listed
    OBVIOUS
  <2>2. /\ ds \in SUBSET Devices
        /\ \A d \in Devices : device[d].listed => d \in ds
    BY <2>1 DEF Listed
  <2>3. PICK m : m = [type |-> "res", id |-> q.id, ok |-> TRUE, payload |-> ds]
    OBVIOUS
  <2>4. m \in Answers /\ m.id = "2" /\ m.payload = ds
    BY <1>1, <1>2, <1>7, <2>2, <2>3 DEF Answers, Request
  <2>5. ASSUME Reading(c) PROVE m \in Good(r, device)
    <3>1. r.op.method = "list" /\ r.calls = 2
      BY <1>2, <1>3, <1>7, <2>5 DEF AskedFor
    <3>2. Covered(r, device)
      BY <1>3, <2>5, <3>1 DEF Coherent, ReadingPcs
    <3>3. \A d \in r.known : d \in m.payload \/ d \in r.devices
      BY <1>4, <2>2, <2>4, <2>5, <3>2 DEF Covered
    <3> QED BY <2>4, <3>1, <3>3 DEF Good
  <2>6. Replied(c, q, TRUE, ds)
    BY <1>7, <2>1
  <2> QED BY <1>1, <1>7, <2>2, <2>3, <2>5, <2>6, QuietlyServed
<1>8. CASE /\ \/ /\ q.method = "approve" /\ CanApprove(q.op.request)
                 /\ device' = Approved(q.op.request)
              \/ /\ q.method = "revoke" /\ CanRevoke(q.op.dev)
                 /\ device' = Revoked(q.op.dev)
           /\ Replied(c, q, TRUE, {})
           /\ conn' = IF r = Closed THEN conn ELSE [conn EXCEPT ![c].done = TRUE]
  <2>1. q.method \in {"approve", "revoke"} /\ q.id = "1" /\ q.op.method = q.method
    BY <1>2, <1>8
  <2>2. GatewayTyped' /\ Forward
    <3>1. CASE q.method = "approve"
      <4>1. q.op.request \in Requests
        BY <1>1, <2>1, <3>1, OpMethods
      <4> QED BY <1>8, <3>1, <4>1, ApprovedForward
    <3>2. CASE q.method = "revoke"
      <4>1. q.op.dev \in Devices
        BY <1>1, <2>1, <3>2, OpMethods
      <4> QED BY <1>8, <3>2, <4>1, RevokedForward
    <3> QED BY <2>1, <3>1, <3>2
  <2>3. PICK m : m = [type |-> "res", id |-> q.id, ok |-> TRUE, payload |-> {}]
    OBVIOUS
  <2>4. m \in Answers /\ m.id = "1"
    BY <1>1, <2>1, <2>3 DEF Answers, Request
  <2>5. r \in Conn /\ Fine(r, stream[c], server[c], device)
    BY ClientFields
  <2>6. Fine(r, stream[c], server[c], device')
    BY <2>2, <2>5, FineForward
  <2>7. PICK dv : dv = device'
    OBVIOUS
  <2>8. CASE r = Closed
    <3>1. ~Reading(c) /\ stream[c] = <<>>
      BY <2>5, <2>8, ClosedConn, ClientFields DEF Fine
    <3>2. PICK s \in Server : s.asked = {} /\ server' = [server EXCEPT ![c] = s]
      BY <1>1, HandledServer
    <3>3. /\ stream' = [stream EXCEPT ![c] = stream[c]]
          /\ conn' = [conn EXCEPT ![c] = r]
          /\ stream[c] \in Seq(Messages)
      BY <1>8, <2>8, <3>1, ClientFields DEF Replied
    <3>4. Fine(r, stream[c], s, device')
      BY <2>6, <3>2 DEF Fine
    <3> QED BY <2>2, <2>5, <3>2, <3>3, <3>4, ClientGoes
  <2>9. CASE r # Closed
    <3>1. r \in OpenConn /\ r.pc # "closed"
      BY <2>5, <2>9, ConnFields
    <3>2. PICK y : y = [r EXCEPT !.done = TRUE]
      OBVIOUS
    <3>3. /\ y \in OpenConn /\ y.pc = r.pc /\ y.op = r.op /\ y.calls = r.calls
          /\ y.devices = r.devices /\ y.known = r.known /\ y.done
      BY <3>1, <3>2 DEF OpenConn
    <3>4. conn' = [conn EXCEPT ![c] = y]
      BY <1>8, <2>9, <3>2 DEF Clienting
    <3>5. Coherent(y, dv)
      <4>1. Coherent(r, dv)
        BY <2>6, <2>7, <3>1 DEF Fine
      <4> QED BY <3>3, <4>1 DEF Coherent, Covered
    <3>6. Good(r, dv) \subseteq Good(y, dv)
      BY <3>3 DEF Good
    <3>7. ASSUME Reading(c) PROVE m \in Good(y, dv)
      <4>1. y.op.method # "list"
        BY <1>3, <2>1, <3>3, <3>7 DEF AskedFor
      <4> QED BY <2>4, <3>3, <4>1 DEF Good
    <3>8. ASSUME Reading(c) PROVE stream[c] \in Seq(Good(y, dv))
      <4>1. stream[c] \in Seq(Good(r, dv))
        BY <1>3, <2>6, <2>7, <3>8 DEF Fine
      <4> QED BY <3>6, <4>1, SeqMonotonic
    <3>9. PICK s \in Server : s.asked = {} /\ server' = [server EXCEPT ![c] = s]
      BY <1>1, HandledServer
    <3>10. PICK st \in Seq(Messages) : /\ stream' = [stream EXCEPT ![c] = st]
                                       /\ Reading(c) => st \in Seq(Good(y, dv))
                                       /\ ~Reading(c) => st = stream[c]
      <4>1. Replied(c, q, TRUE, {}) /\ {} \in SUBSET Devices /\ TRUE \in BOOLEAN
        BY <1>8
      <4> QED BY <1>1, <2>3, <3>7, <3>8, <4>1, RepliedStream
    <3>11. Fine(y, st, s, dv)
      <4>1. Reading(c) <=> y.pc \in ReadingPcs
        BY <3>3, ClientFields
      <4>2. y.pc \notin ReadingPcs => st = <<>>
        BY <2>5, <3>3, <3>10, <4>1 DEF Fine
      <4> QED BY <3>5, <3>9, <3>10, <4>1, <4>2 DEF Fine
    <3> QED BY <2>2, <2>7, <3>3, <3>4, <3>9, <3>10, <3>11, ClosedConn, ClientGoes
  <2> QED BY <2>8, <2>9
<1> QED BY <1>5, <1>6, <1>7, <1>8 DEF Perform

LEMMA EmitClienting ==
    ASSUME GatewayTyped, Clienting, NEW c \in Clients, Emit(c)
    PROVE  GatewayTyped' /\ Forward /\ Clienting'
<1> DEFINE r == conn[c]
<1>1. GatewayTyped' /\ Forward /\ device' = device
  BY SameForward DEF Emit
<1>2. /\ Reading(c) /\ r \in Conn /\ server[c] \in Server
      /\ server[c].events < MaxEvents
      /\ Fine(r, stream[c], server[c], device) /\ stream[c] \in Seq(Good(r, device))
      /\ r.pc \in ReadingPcs /\ conn' = [conn EXCEPT ![c] = r]
  BY ClientFields, ReadingFields DEF Emit
<1>3. PICK n : n = server[c].events + 1
  OBVIOUS
<1>4. n \in 0 .. MaxEvents
  BY <1>2, <1>3, EventsOK DEF Server
<1>5. PICK s : s = [server[c] EXCEPT !.events = n]
  OBVIOUS
<1>6. s \in Server /\ s.asked = server[c].asked
  BY <1>2, <1>4, <1>5 DEF Server
<1>7. server' = [server EXCEPT ![c] = s]
  BY <1>3, <1>5 DEF Emit, Clienting
<1>8. PICK st : st = Append(stream[c], Event)
  OBVIOUS
<1>9. st \in Seq(Good(r, device)) /\ st \in Seq(Messages)
  <2>1. st \in Seq(Good(r, device))
    BY <1>2, <1>8, GoodMessages, AppendProperties
  <2> QED BY <2>1, GoodMessages, SeqMonotonic
<1>10. stream' = [stream EXCEPT ![c] = st]
  BY <1>8 DEF Emit, Clienting
<1>11. Fine(r, st, s, device')
  BY <1>1, <1>2, <1>6, <1>9 DEF Fine
<1> QED BY <1>1, <1>2, <1>6, <1>7, <1>9, <1>10, <1>11, ClientGoes

LEMMA DropClienting ==
    ASSUME GatewayTyped, Clienting, NEW c \in Clients, Drop(c)
    PROVE  GatewayTyped' /\ Forward /\ Clienting'
<1> DEFINE r == conn[c]
<1>1. GatewayTyped' /\ Forward /\ device' = device
  BY SameForward DEF Drop
<1>2. PICK s \in Server : s.asked = {} /\ server' = [server EXCEPT ![c] = s]
  BY HandledServer DEF Drop
<1>3. /\ r \in Conn /\ stream[c] \in Seq(Messages)
      /\ Fine(r, stream[c], server[c], device)
      /\ conn' = [conn EXCEPT ![c] = r] /\ stream' = [stream EXCEPT ![c] = stream[c]]
  BY ClientFields DEF Drop
<1>4. Fine(r, stream[c], s, device')
  BY <1>1, <1>2, <1>3 DEF Fine
<1> QED BY <1>1, <1>2, <1>3, <1>4, ClientGoes

LEMMA ClientStepClienting ==
    ASSUME GatewayTyped, Clienting, ClientStep
    PROVE  GatewayTyped' /\ Forward /\ Clienting'
<1>1. PICK c \in Clients :
         \/ \E op \in Ops : Connect(c, op)
         \/ ReadChallenge(c) \/ ReadResponse(c) \/ SendCall(c) \/ ReadAnswer(c)
         \/ GiveUp(c) \/ ListByCLI(c) \/ Answered(c)
         \/ Serve(c) \/ Emit(c) \/ Drop(c)
  BY DEF ClientStep
<1>2. CASE Serve(c)
  BY <1>2, AuthenticateClienting, PerformClienting DEF Serve
<1> QED BY <1>1, <1>2, ConnectClienting, ReadChallengeClienting, ReadResponseClienting,
           SendCallClienting, ReadAnswerClienting, GiveUpClienting, ListByCLIClienting,
           AnsweredClienting, EmitClienting, DropClienting

\* A step of a goroutine leaves the handlers alone.
LEMMA OtherStepClienting ==
    ASSUME GatewayTyped, Forward, Clienting, UNCHANGED clientVars
    PROVE  Clienting'
<1>1. conn' = conn /\ stream' = stream /\ server' = server
  BY DEF clientVars
<1>2. ASSUME NEW k \in Clients
      PROVE  Fine(conn[k], stream[k], server[k], device')
  <2>1. conn[k] \in Conn /\ Fine(conn[k], stream[k], server[k], device)
    BY DEF Clienting
  <2> QED BY <2>1, FineForward
<1> QED BY <1>1, <1>2 DEF Clienting

(***************************************************************************)
(* The composition                                                         *)
(***************************************************************************)
IInv == GatewayTyped /\ Approving /\ Clienting /\ crashed \in BOOLEAN

LEMMA InitIInv == Init => IInv
<1> SUFFICES ASSUME Init PROVE IInv
  OBVIOUS
<1>1. GatewayTyped
  <2>1. 0 \in 0 .. MaxAsks
    BY AsksOK
  <2>2. PICK x : x = [is |-> "unknown", request |-> 0, listed |-> FALSE]
    OBVIOUS
  <2>3. x \in Device /\ x.is = "unknown"
    BY <2>1, <2>2 DEF Device, Pairing
  <2>4. device = [d \in Devices |-> x]
    BY <2>2 DEF Init, GatewayInit
  <2> QED BY <2>3, <2>4 DEF GatewayTyped, GatewayTypeOK
<1>2. Approving
  <2>1. job = [j \in Jobs |-> Free] /\ activePoller = FALSE /\ faults = 0
    BY DEF Init, ApproveInit
  <2>2. 0 \in 0 .. MaxFaults
    BY RoundsOK
  <2> QED BY <2>1, <2>2, FreeJob DEF Approving, ApproveTypeOK, JobsSound, OneAtMost
<1>3. Clienting
  <2>1. /\ conn = [c \in Clients |-> Closed] /\ stream = [c \in Clients |-> <<>>]
        /\ server = [c \in Clients |-> Gone]
    BY DEF Init, ClientInit
  <2>2. Fine(Closed, <<>>, Gone, device)
    BY ClosedConn, GoneServer DEF Fine
  <2>3. <<>> \in Seq(Messages)
    OBVIOUS
  <2> QED BY <2>1, <2>2, <2>3, ClosedConn, GoneServer DEF Clienting
<1> QED BY <1>1, <1>2, <1>3 DEF Init, IInv

LEMMA RestartIInv ==
    ASSUME IInv, Restart
    PROVE  IInv'
<1>1. GatewayTyped' /\ Forward /\ device' = device
  BY SameForward DEF IInv, Restart
<1>2. Approving'
  <2>1. job' = [j \in Jobs |-> Free] /\ activePoller' = FALSE
    BY DEF Restart
  <2>2. faults' \in 0 .. MaxFaults
    BY RoundsOK DEF Restart, IInv, Approving, ApproveTypeOK
  <2>3. ApproveTypeOK'
    BY <2>1, <2>2, FreeJob DEF ApproveTypeOK
  <2>4. JobsSound' /\ OneAtMost'
    BY <2>1, FreeJob DEF JobsSound, OneAtMost
  <2> QED BY <2>3, <2>4 DEF Approving
<1>3. Clienting'
  <2>1. /\ conn' = [c \in Clients |-> Closed] /\ stream' = [c \in Clients |-> <<>>]
        /\ server' = [c \in Clients |-> Forsaken(c)]
    BY DEF Restart
  <2>2. ASSUME NEW c \in Clients
        PROVE  Forsaken(c) \in Server /\ Fine(Closed, <<>>, Forsaken(c), device')
    <3>1. PICK s : s = Forsaken(c)
      OBVIOUS
    <3>2. /\ s \in Server /\ s.asked = server[c].asked
          /\ Fine(conn[c], stream[c], server[c], device)
      BY <3>1, ForsakenServer, ClientFields DEF IInv
    <3>3. Fine(Closed, <<>>, s, device')
      BY <3>2, ClosedConn DEF Fine
    <3> QED BY <3>1, <3>2, <3>3
  <2>3. <<>> \in Seq(Messages)
    OBVIOUS
  <2> QED BY <2>1, <2>2, <2>3, ClosedConn DEF Clienting
<1> QED BY <1>1, <1>2, <1>3 DEF IInv, Restart

LEMMA NextIInv == IInv /\ [Next]_vars => IInv'
<1> SUFFICES ASSUME IInv, [Next]_vars PROVE IInv'
  OBVIOUS
<1>1. CASE ApproveStep /\ UNCHANGED <<clientVars, crashed>>
  <2>1. GatewayTyped' /\ Forward /\ Approving'
    BY <1>1, ApproveStepApproving DEF IInv
  <2>2. Clienting'
    BY <1>1, <2>1, OtherStepClienting DEF IInv
  <2> QED BY <1>1, <2>1, <2>2 DEF IInv
<1>2. CASE ClientStep /\ UNCHANGED <<approveVars, crashed>>
  <2>1. GatewayTyped' /\ Forward /\ Clienting'
    BY <1>2, ClientStepClienting DEF IInv
  <2>2. Approving'
    BY <1>2, <2>1, OtherStepApproving DEF IInv
  <2> QED BY <1>2, <2>1, <2>2 DEF IInv
<1>3. CASE Restart
  BY <1>3, RestartIInv
<1>4. CASE UNCHANGED vars
  <2>1. GatewayTyped' /\ Forward
    BY <1>4, SameForward DEF IInv, vars
  <2>2. Approving' /\ Clienting'
    BY <1>4, <2>1, OtherStepApproving, OtherStepClienting DEF IInv, vars
  <2> QED BY <1>4, <2>1, <2>2 DEF IInv, vars
<1> QED BY <1>1, <1>2, <1>3, <1>4 DEF Next

LEMMA Invariance == Spec => []IInv
BY InitIInv, NextIInv, PTL DEF Spec

(***************************************************************************)
(* The theorems                                                            *)
(***************************************************************************)
LEMMA IInvTypeOK == IInv => TypeOK
<1> SUFFICES ASSUME IInv PROVE TypeOK
  OBVIOUS
<1>1. ASSUME NEW c \in Clients PROVE Cardinality(server[c].asked) <= 1
  <2>1. PICK a : a = server[c].asked
    OBVIOUS
  <2>2. a = {} \/ \E q \in Request : a = {q}
    BY <2>1, ClientFields DEF IInv, Fine
  <2>3. Cardinality(a) \in {0, 1}
    BY <2>2, FS_EmptySet, FS_Singleton
  <2> QED BY <2>1, <2>3
<1>2. ClientTypeOK
  BY <1>1 DEF IInv, Clienting, ClientTypeOK, Messages
<1> QED BY <1>2 DEF IInv, GatewayTyped, Approving, TypeOK

\* Devices, goroutines, connections and messages have their types: a device never
\* has more requests than the bound, a handler never makes a third call, and the
\* gateway never holds two requests of one connection (Call waits for its answer).
THEOREM TypeCorrect == Spec => []TypeOK
BY Invariance, IInvTypeOK, PTL

LEMMA IInvOnePoller == IInv => OnePoller
<1> SUFFICES ASSUME IInv PROVE OnePoller
  OBVIOUS
<1>1. \A j \in Jobs : Polling(j) <=> Polls(job[j])
  BY DEF Polling, Polls
<1>2. PICK ps : ps = {j \in Jobs : Polling(j)}
  OBVIOUS
<1>3. CASE activePoller
  <2>1. PICK j \in Jobs : ps = {j}
    BY <1>1, <1>2, <1>3 DEF IInv, Approving, OneAtMost
  <2> QED BY <1>2, <1>3, <2>1, FS_Singleton DEF OnePoller
<1>4. CASE ~activePoller
  <2>1. ps = {}
    BY <1>1, <1>2, <1>4 DEF IInv, Approving, OneAtMost
  <2> QED BY <1>2, <1>4, <2>1, FS_EmptySet DEF OnePoller
<1> QED BY <1>3, <1>4

\* However many goroutines register with activePollers at once, and whenever the
\* server restarts, a bot has one poller exactly as long as its entry is there.
THEOREM OnePollerHolds == Spec => []OnePoller
BY Invariance, IInvOnePoller, PTL

LEMMA IInvRetryIsPaired == IInv => RetryIsPaired
<1> SUFFICES ASSUME IInv, NEW j \in Jobs, Is(j, "redial"), job[j].clean
             PROVE  job[j].asked \cap Pending = {}
  BY DEF RetryIsPaired
<1>1. Sound(job[j], device, Pending)
  BY DEF IInv, Approving, JobsSound
<1> QED BY <1>1 DEF Sound, Working, Is

\* The second dial of a websocket (ProxyToBot) comes after the approval of the
\* request that the first was refused with, whoever approved it.
THEOREM RetryIsPairedHolds == Spec => []RetryIsPaired
BY Invariance, IInvRetryIsPaired, PTL

LEMMA SuccessFields ==
    ASSUME IInv, NEW c \in Clients, conn[c].pc = "success"
    PROVE  Coherent(conn[c], device)
BY ClientFields DEF IInv, Fine

LEMMA IInvHonest == IInv => Honest
BY SuccessFields DEF Honest, Coherent

\* A success of ApproveDevice or RevokeDevice is the gateway's answer to that call,
\* with any number of events and refused handshakes in the stream.
THEOREM HonestHolds == Spec => []Honest
BY Invariance, IInvHonest, PTL

LEMMA IInvListMissesNone == IInv => ListMissesNone
BY SuccessFields DEF ListMissesNone, Coherent

\* A list names every device known when it began, whatever is approved, revoked or
\* asked between its two calls.
THEOREM ListMissesNoneHolds == Spec => []ListMissesNone
BY Invariance, IInvListMissesNone, PTL
================================================================================
