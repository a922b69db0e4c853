------------------------------ MODULE AutoApprove ------------------------------
(***************************************************************************)
(* The proxy's automatic approval (proxy.go, approve.go) of devices for    *)
(* one bot: a poller that a request with the access token starts, single   *)
(* approvals when an answer says NOT_PAIRED, and the approval in between   *)
(* the two dials of a websocket.                                           *)
(***************************************************************************)
EXTENDS Gateway

CONSTANTS
    Jobs,       \* goroutines and websocket handlers
    Rounds,     \* polls of a poller, 8 in the code
    MaxFaults   \* bound on commands in the pod that fail and on restarts

ASSUME RoundsOK == Rounds \in Nat \ {0} /\ MaxFaults \in Nat

VARIABLES
    activePoller,   \* activePollers[botID]
    job,            \* what each goroutine is doing
    faults

approveVars == <<activePoller, job, faults>>

\* How a request identifies itself: ?token=, a header or cookie, or not at all.
Credentials == {"token", "session", "none"}

\* poller: autoApprovePoller; once: a single AutoApproveAllPending; ws: a
\* websocket handler, which was refused with the pairing request in asked.
Kinds == {"poller", "once", "ws"}
Free == [pc |-> "free"]
Job ==
    {Free} \cup [pc : {"spawned", "ending"}]
           \cup [pc : {"dial"}, dev : Devices, token : BOOLEAN]
           \cup [pc : {"sleep", "list", "approve", "redial"}, kind : Kinds,
                 left : 0 .. Rounds, todo : SUBSET Requests,
                 asked : SUBSET Requests, clean : BOOLEAN]

ApproveTypeOK ==
    /\ activePoller \in BOOLEAN
    /\ job \in [Jobs -> Job]
    /\ faults \in 0 .. MaxFaults

ApproveInit ==
    /\ activePoller = FALSE
    /\ job = [j \in Jobs |-> Free]
    /\ faults = 0

Work(kind, left, asked) == [pc |-> IF kind = "poller" THEN "sleep" ELSE "list",
                           kind |-> kind, left |-> left, todo |-> {}, asked |-> asked,
                           clean |-> TRUE]
Set(j, new) == job' = [job EXCEPT ![j] = new]
Is(j, pc) == job[j].pc = pc

(***************************************************************************)
(* ProxyToBot.  A page goes to ChatClaw where the service has its port;    *)
(* /v1/* and websockets always go to the gateway.                          *)
(***************************************************************************)
\* The access token that the approvals of the request may use.
HasToken(chatclaw, cred) == cred = "token" \/ (chatclaw /\ cred = "session")
StartsPoller(chatclaw, cred) == ~chatclaw /\ cred = "token"

HttpRequest(j) ==
    /\ Is(j, "free")
    /\ \E chatclaw \in BOOLEAN, cred \in Credentials :
          \/ StartsPoller(chatclaw, cred) /\ Set(j, [pc |-> "spawned"])
          \* The answer, later, says NOT_PAIRED.
          \/ HasToken(chatclaw, cred) /\ Set(j, Work("once", 1, {}))
    /\ UNCHANGED <<device, activePoller, faults>>

\* A websocket of device d; with ?token= it starts a poller too.
WsRequest(j, k, d) ==
    /\ Is(j, "free") /\ Is(k, "free") /\ j # k
    /\ \E cred \in Credentials :
          job' = [job EXCEPT ![j] = [pc |-> "dial", dev |-> d,
                                     token |-> HasToken(FALSE, cred)],
                             ![k] = IF StartsPoller(FALSE, cred)
                                    THEN [pc |-> "spawned"] ELSE Free]
    /\ UNCHANGED <<device, activePoller, faults>>

\* The first dial.  An unpaired device is refused in the handshake, or by the
\* first message of the connection.
Dial(j) ==
    LET d == job[j].dev IN
    /\ Is(j, "dial")
    /\ \/ Set(j, Free) /\ UNCHANGED device     \* paired, or no connection
       \/ /\ device[d].is # "paired"
          /\ Ask(d)
          /\ IF job[j].token
             THEN \/ Set(j, Work("ws", 1, {[dev |-> d, request |-> device'[d].request]}))
                  \/ Set(j, Work("once", 1, {}))
             ELSE Set(j, Free)
    /\ UNCHANGED <<activePoller, faults>>

\* The only other dial: after it the handler gives up, or forwards messages, the
\* first of which may refuse the device again.
Redial(j) ==
    /\ Is(j, "redial")
    /\ \/ Set(j, Free) /\ UNCHANGED device
       \/ \E q \in job[j].asked :
             /\ device[q.dev].is # "paired" /\ Ask(q.dev)
             /\ Set(j, Work("once", 1, {}))
    /\ UNCHANGED <<activePoller, faults>>

(***************************************************************************)
(* autoApprovePoller                                                       *)
(***************************************************************************)
\* Mutant: the entry of the map is not looked at.
RegisterPollerBlindly(j) ==
    /\ Is(j, "spawned")
    /\ Set(j, Work("poller", Rounds, {})) /\ activePoller' = TRUE
    /\ UNCHANGED <<device, faults>>
RegisterPoller(j) ==
    /\ Is(j, "spawned")
    /\ IF activePoller THEN Set(j, Free) /\ UNCHANGED activePoller
       ELSE Set(j, Work("poller", Rounds, {})) /\ activePoller' = TRUE
    /\ UNCHANGED <<device, faults>>

Wake(j) ==
    /\ Is(j, "sleep")
    /\ Set(j, [job[j] EXCEPT !.pc = "list"])
    /\ UNCHANGED <<device, activePoller, faults>>

\* The deferred function.
EndPoller(j) ==
    /\ Is(j, "ending")
    /\ Set(j, Free)
    /\ activePoller' = FALSE
    /\ UNCHANGED <<device, faults>>

(***************************************************************************)
(* AutoApproveAllPending                                                   *)
(***************************************************************************)
\* Mutant: the poller ends at the first error.
ReturnedAtError(r) ==
    CASE r.kind = "poller" -> IF r.left = 1 \/ ~r.clean THEN [pc |-> "ending"]
                              ELSE Work("poller", r.left - 1, {})
      [] r.kind = "once" -> Free
      [] r.kind = "ws" -> [r EXCEPT !.pc = "redial", !.left = 0, !.todo = {}]

\* What the caller does next; it only logs an error.
Returned(r) ==
    CASE r.kind = "poller" -> IF r.left = 1 THEN [pc |-> "ending"]
                              ELSE Work("poller", r.left - 1, {})
      [] r.kind = "once" -> Free
      [] r.kind = "ws" -> [r EXCEPT !.pc = "redial", !.left = 0, !.todo = {}]

Fault(j) == faults < MaxFaults /\ faults' = faults + 1

\* Mutant: the websocket does not wait for the approval.
ListPendingInBackground(j) ==
    /\ Is(j, "list")
    /\ Set(j, IF Pending = {} \/ job[j].kind = "ws" THEN Returned(job[j])
              ELSE [job[j] EXCEPT !.pc = "approve", !.todo = Pending])
    /\ UNCHANGED <<device, activePoller, faults>>
ListPending(j) ==
    /\ Is(j, "list")
    /\ \/ /\ Set(j, IF Pending = {} THEN Returned(job[j])
                    ELSE [job[j] EXCEPT !.pc = "approve", !.todo = Pending])
          /\ UNCHANGED faults
       \/ Fault(j) /\ Set(j, Returned([job[j] EXCEPT !.clean = FALSE]))
    /\ UNCHANGED <<device, activePoller>>

\* One command per listed request; an error, also that of a request somebody else
\* approved meanwhile, does not end the loop.
ApproveNext(j) ==
    /\ Is(j, "approve")
    /\ \E q \in job[j].todo, err \in BOOLEAN :
          LET r == [job[j] EXCEPT !.todo = @ \ {q}, !.clean = @ /\ ~err]
          IN  /\ IF err THEN Fault(j) ELSE UNCHANGED faults
              /\ \/ err /\ UNCHANGED device
                 \/ device' = IF CanApprove(q) THEN Approved(q) ELSE device
              /\ Set(j, IF r.todo = {} THEN Returned(r) ELSE r)
    /\ UNCHANGED activePoller

JobStep(j) ==
    \/ Dial(j) \/ Redial(j) \/ RegisterPoller(j) \/ Wake(j) \/ EndPoller(j)
    \/ ListPending(j) \/ ApproveNext(j)

ApproveStep ==
    \E j \in Jobs : \/ HttpRequest(j) \/ JobStep(j)
                    \/ \E k \in Jobs, d \in Devices : WsRequest(j, k, d)

(***************************************************************************)
(* Properties                                                              *)
(***************************************************************************)
Polling(j) == job[j].pc = "ending" \/ (job[j].pc \in {"sleep", "list", "approve"}
                                       /\ job[j].kind = "poller")

\* However many requests with the token arrive at once, the bot has one poller,
\* and the entry of the map is there as long as it runs and no longer.
OnePoller ==
    Cardinality({j \in Jobs : Polling(j)}) = (IF activePoller THEN 1 ELSE 0)

\* When the commands of the approval went well, the websocket is not dialled a
\* second time while the request it was refused with is still pending, whoever
\* approved it.
RetryIsPaired ==
    \A j \in Jobs : Is(j, "redial") /\ job[j].clean => job[j].asked \cap Pending = {}
================================================================================
