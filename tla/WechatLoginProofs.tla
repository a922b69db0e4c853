-------------------------- MODULE WechatLoginProofs --------------------------
(***************************************************************************)
(* Proofs about the WeChat login, for any number of requests, QR codes,    *)
(* accounts and failing commands.                                          *)
(***************************************************************************)
EXTENDS WechatLogin, TLAPS

(***************************************************************************)
(* Type correctness, with what a request holds at each step                *)
(***************************************************************************)
Holds(r) ==
    /\ r.pc \in Writing \cup Removing => r.acct \in Accounts
    /\ r.qr \in IF r.pc \in {"idle"} \cup Removing THEN {None} ELSE QRs

Shape ==
    /\ \A q \in QRs : qrs[q].status = "confirmed" => qrs[q].acct \in Accounts
    /\ \A p \in Requests : Holds(req[p])

Typed == TypeOK /\ Shape

\* A request that does nothing is a request.
LEMMA IdleType == Idle \in Request /\ Idle.pc = "idle" /\ Holds(Idle)
BY DEF Idle, Request, Steps, Holds, Writing, Removing

\* A request is typed as long as what it becomes is.
LEMMA SetRequest ==
    ASSUME Typed, NEW p \in Requests, NEW r \in Request, req' = [req EXCEPT ![p] = r],
           Holds(r)
    PROVE  /\ req' \in [Requests -> Request]
           /\ \A o \in Requests : Holds(req'[o])
BY DEF Typed, TypeOK, Shape, Holds

\* The beginning of an operation on an account keeps the types.
LEMMA BeginType ==
    ASSUME Typed, NEW p \in Requests, NEW r \in Request, NEW a \in Accounts, Begin(p, r, a),
           r.pc \in Writing \cup Removing,
           r.pc \in Removing => r.qr = None, r.pc \in Writing => r.qr \in QRs
    PROVE  /\ req' \in [Requests -> Request]
           /\ goal' \in [Accounts -> Goals]
           /\ \A o \in Requests : Holds(req'[o])
<1> DEFINE others == {o \in Requests \ {p} : /\ req[o].pc \in Writing \cup Removing
                                             /\ req[o].acct = a
                                             /\ GoalOf(req[o]) # GoalOf(r)}
           new(o) == IF o = p THEN [r EXCEPT !.acct = a, !.clean = others = {}]
                     ELSE IF o \in others THEN [req[o] EXCEPT !.clean = FALSE]
                     ELSE req[o]
<1>1. req' = [o \in Requests |-> new(o)]
  BY DEF Begin
<1>2. ASSUME NEW o \in Requests
      PROVE  /\ new(o) \in Request
             /\ Holds(new(o))
  <2>1. req[o] \in Request
    BY DEF Typed, TypeOK
  <2>2. (others = {}) \in BOOLEAN
    OBVIOUS
  <2>3. CASE o = p
    BY <2>2, <2>3 DEF Request, Holds, Writing, Removing
  <2>4. CASE o # p
    BY <2>1, <2>4 DEF Request, Typed, Shape, Holds
  <2> QED BY <2>3, <2>4
<1>3. goal' \in [Accounts -> Goals]
  BY DEF Begin, Typed, TypeOK, Goals
<1> QED
  BY <1>1, <1>2, <1>3 DEF Holds

\* A command in the pod keeps the types of files that it may write.
LEMMA ExecType ==
    ASSUME Typed, ConstantsOK, NEW new \in Files, NEW err, Exec(new, err)
    PROVE  files' \in Files /\ faults' \in 0 .. MaxFaults
BY DEF Exec, Typed, TypeOK, ConstantsOK

\* What a step of the writing goroutine does to its request and to the goals.
LEMMA WriteStepType ==
    ASSUME Typed, ConstantsOK, NEW p \in Requests, req[p].pc \in Writing,
           NEW new \in Files, NEW next \in Writing \cup {"idle"}, WriteStep(p, new, next)
    PROVE  Typed'
<1>1. PICK err \in BOOLEAN :
          /\ Exec(new, err)
          /\ req' = [req EXCEPT ![p] = IF err \/ next = "idle" THEN Idle
                                       ELSE [@ EXCEPT !.pc = next]]
          /\ goal' = IF ~err /\ next = "idle" /\ req[p].clean
                     THEN [goal EXCEPT ![req[p].acct] = req[p].qr] ELSE goal
          /\ UNCHANGED <<qrs, old, session, running, told, dropped>>
  BY DEF WriteStep
<1>2. req[p] \in Request /\ req[p].acct \in Accounts /\ req[p].qr \in QRs
  BY DEF Typed, TypeOK, Shape, Holds, Writing, Removing
<1>3. goal' \in [Accounts -> Goals]
  BY <1>1, <1>2 DEF Typed, TypeOK, Goals
<1>4. files' \in Files /\ faults' \in 0 .. MaxFaults
  BY <1>1, ExecType
<1> DEFINE r == IF err \/ next = "idle" THEN Idle ELSE [req[p] EXCEPT !.pc = next]
<1>5. /\ r \in Request
      /\ Holds(r)
  <2>1. CASE err \/ next = "idle"
    BY <2>1, IdleType DEF Idle, Writing, Removing
  <2>2. CASE ~(err \/ next = "idle")
    BY <2>2, <1>2 DEF Request, Steps, Holds, Writing, Removing
  <2> QED BY <2>1, <2>2
<1>6. req' = [req EXCEPT ![p] = r]
  BY <1>1
<1> HIDE DEF r
<1>7. /\ req' \in [Requests -> Request]
      /\ \A o \in Requests : Holds(req'[o])
  BY <1>5, <1>6, SetRequest
<1> QED
  BY <1>1, <1>3, <1>4, <1>7 DEF Typed, TypeOK, Shape, Holds

\* The same of a step of a removal.
LEMMA RemoveStepType ==
    ASSUME Typed, ConstantsOK, NEW p \in Requests, req[p].pc \in Removing,
           NEW new \in Files, NEW next \in Removing \cup {"idle"}, RemoveStep(p, new, next)
    PROVE  Typed'
<1>1. PICK err \in BOOLEAN :
          /\ Exec(new, err)
          /\ req' = [req EXCEPT ![p] = IF next = "idle" THEN Idle
                                       ELSE [@ EXCEPT !.pc = next,
                                                      !.clean = req[p].clean /\ ~err]]
          /\ goal' = IF next = "idle" /\ req[p].clean /\ ~err
                     THEN [goal EXCEPT ![req[p].acct] = None] ELSE goal
          /\ UNCHANGED <<qrs, old, session, running, told, dropped>>
  BY DEF RemoveStep
<1>2. req[p] \in Request /\ req[p].acct \in Accounts /\ req[p].qr = None
  BY DEF Typed, TypeOK, Shape, Holds, Writing, Removing
<1>3. goal' \in [Accounts -> Goals]
  BY <1>1, <1>2 DEF Typed, TypeOK, Goals
<1>4. files' \in Files /\ faults' \in 0 .. MaxFaults
  BY <1>1, ExecType
<1>5. PICK c \in BOOLEAN : c = (req[p].clean /\ ~err)
  OBVIOUS
<1> DEFINE r == IF next = "idle" THEN Idle ELSE [req[p] EXCEPT !.pc = next, !.clean = c]
<1>6. /\ r \in Request
      /\ Holds(r)
  <2>1. CASE next = "idle"
    BY <2>1, IdleType DEF Idle, Writing, Removing
  <2>2. CASE next # "idle"
    BY <2>2, <1>2 DEF Request, Steps, Holds, Writing, Removing
  <2> QED BY <2>1, <2>2
<1>7. req' = [req EXCEPT ![p] = r]
  BY <1>1, <1>5
<1> HIDE DEF r
<1>8. /\ req' \in [Requests -> Request]
      /\ \A o \in Requests : Holds(req'[o])
  BY <1>6, <1>7, SetRequest
<1> QED
  BY <1>1, <1>3, <1>4, <1>8 DEF Typed, TypeOK, Shape, Holds

\* The initial states are typed.
LEMMA TypedInit == ConstantsOK /\ Init => Typed
<1> SUFFICES ASSUME ConstantsOK, Init PROVE Typed
  OBVIOUS
<1>1. TypeOK
  BY IdleType DEF Init, TypeOK, Files, Goals, ConstantsOK
<1>2. Shape
  BY IdleType DEF Init, Shape, Holds, Writing, Removing
<1> QED BY <1>1, <1>2 DEF Typed

\* Each step of the system keeps the types.
LEMMA TypedStep ==
    ASSUME ConstantsOK, Typed, [Next]_vars
    PROVE  Typed'
<1>1. ASSUME NEW p \in Requests, NEW q \in QRs, FetchQR(p, q)
      PROVE  Typed'
  <2> DEFINE r == [Idle EXCEPT !.pc = "fetched", !.qr = q]
  <2>1. r \in Request /\ r.pc = "fetched" /\ r.qr = q
    BY DEF Idle, Request, Steps
  <2>2. req' = [req EXCEPT ![p] = r]
    BY <1>1 DEF FetchQR
  <2> HIDE DEF r
  <2> QED
    BY <1>1, <2>1, <2>2, SetRequest DEF FetchQR, Typed, TypeOK, Shape, Holds,
       Writing, Removing, memory
<1>2. ASSUME NEW p \in Requests, req' = [req EXCEPT ![p] = Idle],
             session' \in QRs \cup {None}, told' \in SUBSET QRs,
             UNCHANGED <<qrs, old, running, files, faults, dropped, goal>>
      PROVE  Typed'
  BY <1>2, IdleType, SetRequest DEF Typed, TypeOK, Shape, Holds, Writing, Removing
<1>3. ASSUME NEW p \in Requests,
             StoreSession(p) \/ ExpireSession(p) \/ AnswerWait(p) \/ AnswerExpired(p)
      PROVE  Typed'
  <2>1. req[p].qr \in QRs
    BY <1>3 DEF Typed, Shape, StoreSession, ExpireSession, AnswerWait, AnswerExpired,
       Holds, Removing
  <2>2. session' \in QRs \cup {None} /\ told' \in SUBSET QRs
    BY <1>3, <2>1 DEF Typed, TypeOK, StoreSession, ExpireSession, AnswerWait,
       AnswerExpired, memory
  <2>3. UNCHANGED <<qrs, old, running, files, faults, dropped, goal>>
    BY <1>3 DEF StoreSession, ExpireSession, AnswerWait, AnswerExpired, memory
  <2>4. req' = [req EXCEPT ![p] = Idle]
    BY <1>3 DEF StoreSession, ExpireSession, AnswerWait, AnswerExpired
  <2> QED BY <1>2, <2>2, <2>3, <2>4
<1>4. ASSUME NEW p \in Requests, ReadSession(p)
      PROVE  Typed'
  <2> DEFINE r == [Idle EXCEPT !.pc = "read", !.qr = session]
  <2>1. r \in Request /\ r.pc = "read" /\ r.qr \in QRs
    BY <1>4 DEF Idle, Request, Steps, ReadSession, Typed, TypeOK
  <2>2. req' = [req EXCEPT ![p] = r]
    BY <1>4 DEF ReadSession
  <2> HIDE DEF r
  <2> QED
    BY <1>4, <2>1, <2>2, SetRequest DEF ReadSession, Typed, TypeOK, Shape, Holds,
       Writing, Removing, memory
<1>5. ASSUME NEW p \in Requests, AskStatus(p)
      PROVE  Typed'
  <2> DEFINE r == [req[p] EXCEPT !.pc = "asked"]
  <2>1. req[p] \in Request /\ req[p].qr \in QRs
    BY <1>5 DEF AskStatus, Typed, TypeOK, Shape, Holds, Removing
  <2>2. r \in Request /\ r.pc = "asked" /\ r.qr \in QRs
    BY <2>1 DEF Request, Steps
  <2>3. req' = [req EXCEPT ![p] = r]
    BY <1>5 DEF AskStatus
  <2> HIDE DEF r
  <2> QED
    BY <1>5, <2>2, <2>3, SetRequest DEF AskStatus, Typed, TypeOK, Shape, Holds,
       Writing, Removing, memory
<1>6. ASSUME NEW p \in Requests, AnswerConfirmed(p)
      PROVE  Typed'
  <2>1. /\ req[p] \in Request /\ req[p].qr \in QRs /\ qrs[req[p].qr].acct \in Accounts
        /\ session' = None /\ told' \in SUBSET QRs
        /\ UNCHANGED <<qrs, old, running, files, faults, dropped>>
    BY <1>6 DEF AnswerConfirmed, Typed, TypeOK, Shape, Holds, Removing
  <2>2. CASE req' = [req EXCEPT ![p] = Idle] /\ UNCHANGED goal
    BY <1>2, <2>1, <2>2
  <2>3. CASE Begin(p, [req[p] EXCEPT !.pc = "credential"], qrs[req[p].qr].acct)
    <3> DEFINE r == [req[p] EXCEPT !.pc = "credential"]
    <3>1. r \in Request /\ r.pc \in Writing /\ r.pc \notin Removing /\ r.qr \in QRs
      BY <2>1 DEF Request, Steps, Writing, Removing
    <3> HIDE DEF r
    <3>2. /\ req' \in [Requests -> Request]
          /\ goal' \in [Accounts -> Goals]
          /\ \A o \in Requests : Holds(req'[o])
      BY <2>1, <2>3, <3>1, BeginType DEF r
    <3> QED BY <2>1, <3>2 DEF Typed, TypeOK, Shape, Holds
  <2> QED BY <1>6, <2>2, <2>3 DEF AnswerConfirmed
<1>7. ASSUME NEW p \in Requests, NEW a \in Accounts, RemoveAccount(p, a)
      PROVE  Typed'
  <2> DEFINE r == [Idle EXCEPT !.pc = "rmCredential"]
  <2>1. r \in Request /\ r.pc \in Removing /\ r.pc \notin Writing /\ r.qr = None
    BY DEF Idle, Request, Steps, Removing, Writing
  <2> HIDE DEF r
  <2>2. /\ req' \in [Requests -> Request]
        /\ goal' \in [Accounts -> Goals]
        /\ \A o \in Requests : Holds(req'[o])
    BY <1>7, <2>1, BeginType DEF RemoveAccount, r
  <2> QED BY <1>7, <2>2 DEF RemoveAccount, Typed, TypeOK, Shape, Holds
<1>8. ASSUME NEW p \in Requests, WriteCredential(p) \/ WriteIndex(p) \/ WriteChannel(p)
      PROVE  Typed'
  <2>1. /\ req[p].acct \in Accounts /\ req[p].qr \in QRs /\ req[p].pc \in Writing
    BY <1>8 DEF WriteCredential, WriteIndex, WriteChannel, Typed, Shape, Holds,
       Writing, Removing
  <2>2. /\ [files EXCEPT !.cred[req[p].acct] = req[p].qr] \in Files
        /\ [files EXCEPT !.index = @ \cup {req[p].acct}] \in Files
        /\ [files EXCEPT !.chan = @ \cup {req[p].acct}] \in Files
    BY <2>1 DEF Typed, TypeOK, Files
  <2>3. {"index", "channel", "idle"} \subseteq Writing \cup {"idle"}
    BY DEF Writing
  <2> QED
    BY <1>8, <2>1, <2>2, <2>3, WriteStepType DEF WriteCredential, WriteIndex, WriteChannel
<1>9. ASSUME NEW p \in Requests, RemoveCredential(p) \/ RemoveIndex(p) \/ RemoveChannel(p)
      PROVE  Typed'
  <2>1. /\ req[p].acct \in Accounts /\ req[p].pc \in Removing
    BY <1>9 DEF RemoveCredential, RemoveIndex, RemoveChannel, Typed, Shape, Holds, Removing
  <2>2. /\ [files EXCEPT !.cred[req[p].acct] = None] \in Files
        /\ [files EXCEPT !.index = @ \ {req[p].acct}] \in Files
        /\ [files EXCEPT !.chan = @ \ {req[p].acct}] \in Files
    BY <2>1 DEF Typed, TypeOK, Files
  <2>3. {"rmIndex", "rmChannel", "idle"} \subseteq Removing \cup {"idle"}
    BY DEF Removing
  <2> QED
    BY <1>9, <2>1, <2>2, <2>3, RemoveStepType DEF RemoveCredential, RemoveIndex, RemoveChannel
<1>10. ASSUME NEW q \in QRs, Expire(q) \/ \E a \in Accounts : Confirm(q, a)
       PROVE  Typed'
  BY <1>10 DEF Expire, Confirm, Typed, TypeOK, Shape, Holds, memory
<1>11. ASSUME GrowOld \/ Toggle
       PROVE  Typed'
  BY <1>11 DEF GrowOld, Toggle, Typed, TypeOK, Shape, Holds, memory
<1>12. ASSUME Restart
       PROVE  Typed'
  BY <1>12, IdleType DEF Restart, Typed, TypeOK, Shape, Holds, Writing, Removing, memory
<1>13. CASE UNCHANGED vars
  BY <1>13 DEF vars, memory, Typed, TypeOK, Shape, Holds
<1> QED
  BY <1>1, <1>3, <1>4, <1>5, <1>6, <1>7, <1>8, <1>9, <1>10, <1>11, <1>12, <1>13 DEF Next

\* The server's requests, its session and the files in the pod have their types,
\* for any number of requests and logins.
THEOREM TypeCorrect == Spec => []TypeOK
<1>1. Init => Typed
  BY ConstantsOK, TypedInit
<1>2. Typed /\ [Next]_vars => Typed'
  BY ConstantsOK, TypedStep
<1>3. Typed => TypeOK
  BY DEF Typed
<1> QED BY <1>1, <1>2, <1>3, PTL DEF Spec

(***************************************************************************)
(* A login is used once                                                    *)
(***************************************************************************)
\* A QR code that was fetched and not stored yet is known to its request alone.
Fresh(p) ==
    /\ req[p].qr \notin told
    /\ req[p].qr # session
    /\ \A o \in Requests \ {p} : req[o].pc # "idle" => req[o].qr # req[p].qr

Once ==
    /\ \A q \in told : qrs[q].status # "unused"
    /\ session # None => qrs[session].status # "unused"
    /\ \A p \in Requests :
        /\ req[p].pc \notin {"idle"} \cup Removing => qrs[req[p].qr].status # "unused"
        /\ req[p].pc = "fetched" => Fresh(p)
    /\ SessionUnused

\* A request ends, or goes on with its QR code and without becoming fresh.
GoesOn(p) ==
    \/ req'[p].pc = "idle"
    \/ /\ req[p].pc # "idle"
       /\ req'[p].qr = req[p].qr
       /\ req'[p].pc = "fetched" => req[p].pc = "fetched"
       /\ req'[p].pc \in Removing <=> req[p].pc \in Removing

\* Steps in which all requests go on, and which may answer one of them.
LEMMA OnceKept ==
    ASSUME ConstantsOK, Typed, Once,
           \A q \in QRs : qrs'[q].status = "unused" => qrs[q].status = "unused",
           \A p \in Requests : GoesOn(p),
           \/ told' = told /\ session' \in {session, None}
           \/ \E p \in Requests : /\ req[p].pc \in {"read", "asked"}
                                  /\ told' = told \cup {req[p].qr} /\ session' = None
    PROVE  Once'
<1>1. ASSUME NEW p \in Requests, req'[p].pc # "idle"
      PROVE  /\ req[p].pc # "idle" /\ req'[p].qr = req[p].qr
             /\ req'[p].pc \notin Removing => req[p].pc \notin Removing /\ req[p].qr \in QRs
  BY <1>1 DEF Typed, Shape, Holds, GoesOn
<1>2. ASSUME NEW p \in Requests, req'[p].pc \notin {"idle"} \cup Removing
      PROVE  qrs'[req'[p].qr].status # "unused"
  BY <1>1, <1>2 DEF Once
<1>3. ASSUME NEW p \in Requests, req[p].pc \in {"read", "asked"}
      PROVE  req[p].qr \in QRs /\ qrs[req[p].qr].status # "unused"
  BY <1>3 DEF Once, Typed, Shape, Holds, Removing
<1>4. ASSUME NEW p \in Requests, req'[p].pc = "fetched"
      PROVE  Fresh(p)'
  <2>1. /\ Fresh(p) /\ req'[p].qr = req[p].qr /\ req[p].qr \in QRs
        /\ req[p].pc = "fetched"
    BY <1>1, <1>4 DEF Once, GoesOn, Removing
  <2>2. \A o \in Requests \ {p} : req'[o].pc # "idle" => req'[o].qr # req'[p].qr
    BY <1>1, <2>1 DEF Fresh
  <2>3. req'[p].qr \notin told' /\ req'[p].qr # session'
    BY <2>1 DEF Fresh, ConstantsOK
  <2> QED BY <2>2, <2>3 DEF Fresh
<1>5. \A q \in told' : qrs'[q].status # "unused"
  BY <1>3 DEF Once, Typed, TypeOK
<1>6. session' # None => qrs'[session'].status # "unused"
  BY DEF Once, Typed, TypeOK
<1>7. SessionUnused'
  BY DEF Once, SessionUnused
<1> QED BY <1>2, <1>4, <1>5, <1>6, <1>7 DEF Once

\* What the beginning of an operation on an account leaves of the other requests.
LEMMA BeginOthers ==
    ASSUME Typed, NEW p \in Requests, NEW r \in Request, NEW a \in Accounts, Begin(p, r, a)
    PROVE  /\ req'[p].pc = r.pc /\ req'[p].qr = r.qr /\ req'[p].acct = a
           /\ \A o \in Requests \ {p} :
                 /\ req'[o].pc = req[o].pc /\ req'[o].qr = req[o].qr
                 /\ req'[o].acct = req[o].acct
<1> DEFINE others == {o \in Requests \ {p} : /\ req[o].pc \in Writing \cup Removing
                                             /\ req[o].acct = a
                                             /\ GoalOf(req[o]) # GoalOf(r)}
<1>1. PICK c \in BOOLEAN : c = (others = {})
  OBVIOUS
<1>2. req' = [o \in Requests |->
                IF o = p THEN [r EXCEPT !.acct = a, !.clean = c]
                ELSE IF o \in others THEN [req[o] EXCEPT !.clean = FALSE] ELSE req[o]]
  BY <1>1 DEF Begin
<1> HIDE DEF others
<1>3. req'[p] = [r EXCEPT !.acct = a, !.clean = c]
  BY <1>2
<1>4. /\ req'[p].pc = r.pc /\ req'[p].qr = r.qr /\ req'[p].acct = a
  BY <1>3 DEF Request
<1>5. ASSUME NEW o \in Requests \ {p}
      PROVE  /\ req'[o].pc = req[o].pc /\ req'[o].qr = req[o].qr
             /\ req'[o].acct = req[o].acct
  <2>1. req[o] \in Request
    BY DEF Typed, TypeOK
  <2>2. req'[o] \in {req[o], [req[o] EXCEPT !.clean = FALSE]}
    BY <1>2
  <2> QED BY <2>1, <2>2 DEF Request
<1> QED BY <1>4, <1>5

\* In a step of a goroutine or of a removal all requests go on.
LEMMA FilesGoOn ==
    ASSUME Typed, NEW p \in Requests,
           \/ WriteCredential(p) \/ WriteIndex(p) \/ WriteChannel(p)
           \/ RemoveCredential(p) \/ RemoveIndex(p) \/ RemoveChannel(p)
    PROVE  /\ \A o \in Requests : GoesOn(o)
           /\ UNCHANGED <<qrs, session, told, dropped>>
<1>1. /\ req[p] \in Request
      /\ \A o \in Requests : req[o] \in Request
  BY DEF Typed, TypeOK
<1>2. ASSUME NEW new, NEW next \in {"index", "channel", "idle"}, WriteStep(p, new, next),
             req[p].pc \in Writing
      PROVE  /\ \A o \in Requests : GoesOn(o)
             /\ UNCHANGED <<qrs, session, told, dropped>>
  <2>1. PICK err \in BOOLEAN :
          /\ req' = [req EXCEPT ![p] = IF err \/ next = "idle" THEN Idle
                                       ELSE [@ EXCEPT !.pc = next]]
          /\ UNCHANGED <<qrs, session, told, dropped>>
    BY <1>2 DEF WriteStep
  <2>2. \A o \in Requests \ {p} : req'[o] = req[o]
    BY <2>1 DEF Typed, TypeOK
  <2>3. \/ req'[p] = Idle
        \/ req'[p] = [req[p] EXCEPT !.pc = next] /\ next # "idle"
    BY <2>1 DEF Typed, TypeOK
  <2>4. GoesOn(p)
    BY <1>1, <1>2, <2>3, IdleType DEF GoesOn, Request, Writing, Removing
  <2> QED BY <2>1, <2>2, <2>4 DEF GoesOn
<1>3. ASSUME NEW new, NEW next \in {"rmIndex", "rmChannel", "idle"}, RemoveStep(p, new, next),
             req[p].pc \in Removing
      PROVE  /\ \A o \in Requests : GoesOn(o)
             /\ UNCHANGED <<qrs, session, told, dropped>>
  <2>1. PICK err \in BOOLEAN :
          /\ req' = [req EXCEPT ![p] = IF next = "idle" THEN Idle
                                       ELSE [@ EXCEPT !.pc = next,
                                                      !.clean = req[p].clean /\ ~err]]
          /\ UNCHANGED <<qrs, session, told, dropped>>
    BY <1>3 DEF RemoveStep
  <2>2. PICK c \in BOOLEAN : c = (req[p].clean /\ ~err)
    OBVIOUS
  <2>3. \A o \in Requests \ {p} : req'[o] = req[o]
    BY <2>1 DEF Typed, TypeOK
  <2>4. \/ req'[p] = Idle
        \/ req'[p] = [req[p] EXCEPT !.pc = next, !.clean = c] /\ next # "idle"
    BY <2>1, <2>2 DEF Typed, TypeOK
  <2>5. GoesOn(p)
    BY <1>1, <1>3, <2>4, IdleType DEF GoesOn, Request, Removing
  <2> QED BY <2>1, <2>3, <2>5 DEF GoesOn
<1> QED
  BY <1>2, <1>3 DEF WriteCredential, WriteIndex, WriteChannel, RemoveCredential,
     RemoveIndex, RemoveChannel, Writing, Removing

\* Each step of the system keeps it so that a fetched QR code is nobody else's.
LEMMA OnceStep ==
    ASSUME ConstantsOK, Typed, Once, [Next]_vars
    PROVE  Once'
<1> USE DEF Removing
<1>1. ASSUME NEW p \in Requests, NEW q \in QRs, FetchQR(p, q)
      PROVE  Once'
  <2>1. req' = [req EXCEPT ![p] = [Idle EXCEPT !.pc = "fetched", !.qr = q]]
    BY <1>1 DEF FetchQR
  <2>2. req'[p].pc = "fetched" /\ req'[p].qr = q
    BY <2>1 DEF Typed, TypeOK, Idle
  <2>3. \A o \in Requests \ {p} : req'[o] = req[o]
    BY <2>1 DEF Typed, TypeOK
  <2>4. \A x \in QRs : qrs'[x].status = "unused" <=> x # q /\ qrs[x].status = "unused"
    BY <1>1 DEF FetchQR, Typed, TypeOK
  <2>5. told' = told /\ session' = session /\ qrs[q].status = "unused"
    BY <1>1 DEF FetchQR, memory
  <2>6. q # None
    BY DEF ConstantsOK
  <2>7. q \notin told /\ q # session
    BY <2>5, <2>6 DEF Once
  <2>8. ASSUME NEW o \in Requests \ {p}
        PROVE  req[o].pc # "idle" => req[o].qr # q
    BY <2>5, <2>6 DEF Once, Typed, Shape, Holds
  <2> QED
    BY <2>2, <2>3, <2>4, <2>5, <2>7, <2>8 DEF Once, Fresh, SessionUnused, Typed, TypeOK, Shape, Holds
<1>2. ASSUME NEW p \in Requests, StoreSession(p)
      PROVE  Once'
  <2>1. /\ Fresh(p) /\ qrs[req[p].qr].status # "unused"
        /\ told' = told /\ qrs' = qrs /\ session' = req[p].qr
    BY <1>2 DEF StoreSession, Once, memory
  <2>2. req'[p].pc = "idle" /\ \A o \in Requests \ {p} : req'[o] = req[o]
    BY <1>2, IdleType DEF StoreSession, Typed, TypeOK
  <2>3. ASSUME NEW o \in Requests, req'[o].pc = "fetched"
        PROVE  Fresh(o)'
    <3>1. o # p /\ Fresh(o) /\ req[o].qr # req[p].qr
      BY <1>2, <2>2, <2>3 DEF StoreSession, Once, Fresh
    <3> QED BY <2>1, <2>2, <3>1 DEF Fresh
  <2>4. \A o \in Requests : req'[o].pc \notin {"idle"} \cup Removing
                               => qrs'[req'[o].qr].status # "unused"
    BY <2>1, <2>2 DEF Once
  <2>5. SessionUnused'
    BY <2>1 DEF Fresh, SessionUnused
  <2> QED BY <2>1, <2>3, <2>4, <2>5 DEF Once
<1>3. ASSUME NEW p \in Requests, NEW x \in QRs \cup {None}, x \in {session, None},
             req'[p].qr = x, req'[p].pc \in Removing \cup {"read"},
             req'[p].pc = "read" => x # None,
             \A o \in Requests \ {p} : /\ req'[o].pc = req[o].pc
                                       /\ req'[o].qr = req[o].qr,
             UNCHANGED <<qrs, session, told>>
      PROVE  Once'
  <2>1. ASSUME NEW o \in Requests, req'[o].pc = "fetched"
        PROVE  Fresh(o)'
    <3>1. o # p /\ Fresh(o) /\ req'[o].qr = req[o].qr /\ req[o].qr \in QRs
      BY <1>3, <2>1 DEF Once, Typed, Shape, Holds
    <3>2. req[o].qr # x
      BY <1>3, <3>1 DEF Fresh, ConstantsOK
    <3> QED BY <1>3, <3>1, <3>2 DEF Fresh
  <2>2. \A o \in Requests : req'[o].pc \notin {"idle"} \cup Removing
                               => qrs'[req'[o].qr].status # "unused"
    BY <1>3 DEF Once
  <2> QED BY <1>3, <2>1, <2>2 DEF Once, SessionUnused
<1>4. ASSUME NEW p \in Requests, ReadSession(p)
      PROVE  Once'
  <2>1. req' = [req EXCEPT ![p] = [Idle EXCEPT !.pc = "read", !.qr = session]]
    BY <1>4 DEF ReadSession
  <2>2. req'[p].pc = "read" /\ req'[p].qr = session
    BY <2>1 DEF Typed, TypeOK, Idle
  <2>3. \A o \in Requests \ {p} : req'[o] = req[o]
    BY <2>1 DEF Typed, TypeOK
  <2>4. session \in QRs \cup {None} /\ session # None /\ UNCHANGED <<qrs, session, told>>
    BY <1>4 DEF ReadSession, Typed, TypeOK, memory
  <2> QED BY <1>3, <2>2, <2>3, <2>4
<1>5. ASSUME NEW p \in Requests, NEW a \in Accounts, RemoveAccount(p, a)
      PROVE  Once'
  <2> DEFINE r == [Idle EXCEPT !.pc = "rmCredential"]
  <2>1. r \in Request /\ r.pc \in Removing /\ r.qr = None
    BY DEF Idle, Request, Steps
  <2>2. Begin(p, r, a) /\ UNCHANGED <<qrs, session, told>>
    BY <1>5 DEF RemoveAccount
  <2> HIDE DEF r
  <2>3. /\ req'[p].pc = r.pc /\ req'[p].qr = r.qr
        /\ \A o \in Requests \ {p} : req'[o].pc = req[o].pc /\ req'[o].qr = req[o].qr
    BY <2>1, <2>2, BeginOthers
  <2> QED BY <1>3, <2>1, <2>2, <2>3
<1>6. ASSUME NEW p \in Requests, AnswerConfirmed(p)
      PROVE  Once'
  <2>1. /\ req[p] \in Request /\ req[p].pc = "asked" /\ qrs[req[p].qr].acct \in Accounts
        /\ told' = told \cup {req[p].qr} /\ session' = None /\ qrs' = qrs
    BY <1>6 DEF AnswerConfirmed, Typed, TypeOK, Shape, Holds
  <2>2. CASE req' = [req EXCEPT ![p] = Idle]
    <3>1. req'[p].pc = "idle" /\ \A o \in Requests \ {p} : req'[o] = req[o]
      BY <2>2, IdleType DEF Typed, TypeOK
    <3>2. \A o \in Requests : GoesOn(o)
      BY <3>1 DEF GoesOn
    <3> QED BY <2>1, <3>2, OnceKept
  <2>3. CASE Begin(p, [req[p] EXCEPT !.pc = "credential"], qrs[req[p].qr].acct)
    <3> DEFINE r == [req[p] EXCEPT !.pc = "credential"]
    <3>1. r \in Request /\ r.pc = "credential" /\ r.qr = req[p].qr
      BY <2>1 DEF Request, Steps, Writing
    <3> HIDE DEF r
    <3>2. /\ req'[p].pc = r.pc /\ req'[p].qr = r.qr
          /\ \A o \in Requests \ {p} : req'[o].pc = req[o].pc /\ req'[o].qr = req[o].qr
      BY <2>1, <2>3, <3>1, BeginOthers DEF r
    <3>3. \A o \in Requests : GoesOn(o)
      BY <2>1, <3>1, <3>2 DEF GoesOn
    <3> QED BY <2>1, <3>3, OnceKept
  <2> QED BY <1>6, <2>2, <2>3 DEF AnswerConfirmed
<1>7. ASSUME NEW p \in Requests,
             ExpireSession(p) \/ AskStatus(p) \/ AnswerWait(p) \/ AnswerExpired(p)
      PROVE  Once'
  <2>1. \/ told' = told /\ session' = session
        \/ /\ req[p].pc \in {"read", "asked"}
           /\ told' = told \cup {req[p].qr} /\ session' = None
    BY <1>7 DEF ExpireSession, AskStatus, AnswerWait, AnswerExpired, memory
  <2>2. \/ req' = [req EXCEPT ![p] = Idle]
        \/ req[p].pc = "read" /\ req' = [req EXCEPT ![p].pc = "asked"]
    BY <1>7 DEF ExpireSession, AskStatus, AnswerWait, AnswerExpired
  <2>3. \A o \in Requests \ {p} : req'[o] = req[o]
    BY <2>2 DEF Typed, TypeOK
  <2>4. GoesOn(p)
    <3>1. CASE req' = [req EXCEPT ![p] = Idle]
      BY <3>1, IdleType DEF GoesOn, Typed, TypeOK
    <3>2. CASE req[p].pc = "read" /\ req' = [req EXCEPT ![p].pc = "asked"]
      <4>1. req[p] \in Request /\ req'[p] = [req[p] EXCEPT !.pc = "asked"]
        BY <3>2 DEF Typed, TypeOK
      <4> QED BY <3>2, <4>1 DEF GoesOn, Request
    <3> QED BY <2>2, <3>1, <3>2
  <2>5. \A o \in Requests : GoesOn(o)
    BY <2>3, <2>4 DEF GoesOn
  <2>6. UNCHANGED qrs
    BY <1>7 DEF ExpireSession, AskStatus, AnswerWait, AnswerExpired
  <2> QED BY <2>1, <2>5, <2>6, OnceKept
<1>8. ASSUME NEW p \in Requests,
             \/ WriteCredential(p) \/ WriteIndex(p) \/ WriteChannel(p)
             \/ RemoveCredential(p) \/ RemoveIndex(p) \/ RemoveChannel(p)
      PROVE  Once'
  BY <1>8, FilesGoOn, OnceKept
<1>9. ASSUME NEW q \in QRs, Expire(q) \/ \E a \in Accounts : Confirm(q, a)
      PROVE  Once'
  <2>1. \A x \in QRs : qrs'[x].status = "unused" => qrs[x].status = "unused"
    BY <1>9 DEF Expire, Confirm, Typed, TypeOK
  <2>2. UNCHANGED <<req, session, told>>
    BY <1>9 DEF Expire, Confirm, memory
  <2>3. \A o \in Requests : GoesOn(o)
    BY <2>2 DEF GoesOn
  <2> QED BY <2>1, <2>2, <2>3, OnceKept
<1>10. ASSUME GrowOld \/ Toggle \/ Restart \/ UNCHANGED vars
       PROVE  Once'
  <2>1. UNCHANGED <<qrs, told>> /\ session' \in {session, None}
    BY <1>10 DEF GrowOld, Toggle, Restart, vars, memory
  <2>2. \A o \in Requests : req'[o] \in {req[o], Idle}
    BY <1>10 DEF GrowOld, Toggle, Restart, vars
  <2>3. \A o \in Requests : GoesOn(o)
    BY <2>2, IdleType DEF GoesOn
  <2> QED BY <2>1, <2>3, OnceKept
<1> QED
  BY <1>1, <1>2, <1>4, <1>5, <1>6, <1>7, <1>8, <1>9, <1>10 DEF Next

\* In whatever order any number of polls, logins and restarts of the server
\* interleave, a QR code of which one client was told the outcome is never found
\* as the session of the bot again.
THEOREM SessionUnusedHolds == Spec => []SessionUnused
<1>1. Init => Typed /\ Once
  BY ConstantsOK, TypedInit, IdleType DEF Init, Once, SessionUnused
<1>2. Typed /\ Once /\ [Next]_vars => (Typed /\ Once)'
  BY ConstantsOK, TypedStep, OnceStep
<1>3. Once => SessionUnused
  BY DEF Once
<1> QED BY <1>1, <1>2, <1>3, PTL DEF Spec

(***************************************************************************)
(* The files in the pod                                                    *)
(***************************************************************************)
AtFiles(p) == req[p].pc \in Writing \cup Removing

\* What an operation that went well has done before the step it is at.
Progress(p) ==
    LET r == req[p] IN
    /\ r.pc \in {"index", "channel"} => files.cred[r.acct] = r.qr
    /\ r.pc = "channel" => r.acct \in files.index
    /\ r.pc \in {"rmIndex", "rmChannel"} => files.cred[r.acct] = None
    /\ r.pc = "rmChannel" => r.acct \notin files.index

\* What a writer, which stops at an error, has done for an account that is wanted.
Filled(p) ==
    LET r == req[p] IN
    /\ r.pc \in {"index", "channel"} => files.cred[r.acct] # None
    /\ r.pc = "channel" => r.acct \in files.index

Named ==
    /\ \A p \in Requests : AtFiles(p) =>
        /\ req[p].pc \in Removing => req[p].acct \in dropped
        /\ req[p].acct \notin dropped => Filled(p)
    /\ NamedIsComplete

\* Operations that have the same goal do the same to the files.
Aimed ==
    /\ \A p \in Requests : AtFiles(p) =>
        /\ goal[req[p].acct] \in {GoalOf(req[p]), "unsure"}
        /\ req[p].clean =>
            /\ Progress(p)
            /\ \A o \in Requests : AtFiles(o) /\ req[o].acct = req[p].acct
                                      => GoalOf(req[o]) = GoalOf(req[p])
    /\ GoalReached

\* The files after the command that p is about to run.
Written(p) ==
    LET r == req[p] IN
    [cred |-> IF r.pc \in {"credential", "rmCredential"}
              THEN [files.cred EXCEPT ![r.acct] = GoalOf(r)] ELSE files.cred,
     index |-> CASE r.pc = "index" -> files.index \cup {r.acct}
                 [] r.pc = "rmIndex" -> files.index \ {r.acct}
                 [] OTHER -> files.index,
     chan |-> CASE r.pc = "channel" -> files.chan \cup {r.acct}
                [] r.pc = "rmChannel" -> files.chan \ {r.acct}
                [] OTHER -> files.chan]

NextFile ==
    [credential |-> "index", index |-> "channel",
     rmCredential |-> "rmIndex", rmIndex |-> "rmChannel"]

\* A step of p at the files.
FileStep(p) ==
    /\ AtFiles(p)
    /\ files' \in {files, Written(p)}
    /\ \A o \in Requests \ {p} : req'[o] = req[o]
    /\ \/ req'[p].pc = "idle"
       \/ /\ req[p].pc \in {"credential", "index", "rmCredential", "rmIndex"}
          /\ req'[p].pc = NextFile[req[p].pc]
          /\ req'[p].qr = req[p].qr /\ req'[p].acct = req[p].acct
          /\ req'[p].clean => req[p].clean /\ files' = Written(p)
          /\ req[p].pc \in Writing => files' = Written(p)
    /\ \/ goal' = goal
       \/ /\ req[p].clean /\ req[p].pc \in {"channel", "rmChannel"}
          /\ files' = Written(p)
          /\ goal' = [goal EXCEPT ![req[p].acct] = GoalOf(req[p])]
    /\ UNCHANGED dropped

\* The commands of the writer and of a removal are such steps.
LEMMA WriterSteps ==
    ASSUME Typed, NEW p \in Requests, WriteCredential(p) \/ WriteIndex(p) \/ WriteChannel(p)
    PROVE  FileStep(p)
<1>1. req[p] \in Request /\ files \in Files
  BY DEF Typed, TypeOK
<1>2. ASSUME NEW next \in {"index", "channel", "idle"}, WriteStep(p, Written(p), next),
             \/ req[p].pc = "credential" /\ next = "index"
             \/ req[p].pc = "index" /\ next = "channel"
             \/ req[p].pc = "channel" /\ next = "idle"
      PROVE  FileStep(p)
  <2>1. PICK err \in BOOLEAN :
          /\ Exec(Written(p), err)
          /\ req' = [req EXCEPT ![p] = IF err \/ next = "idle" THEN Idle
                                       ELSE [@ EXCEPT !.pc = next]]
          /\ goal' = IF ~err /\ next = "idle" /\ req[p].clean
                     THEN [goal EXCEPT ![req[p].acct] = req[p].qr] ELSE goal
          /\ UNCHANGED dropped
    BY <1>2 DEF WriteStep
  <2>2. files' \in {files, Written(p)} /\ (~err => files' = Written(p))
    BY <2>1 DEF Exec
  <2>3. \A o \in Requests \ {p} : req'[o] = req[o]
    BY <2>1 DEF Typed, TypeOK
  <2>4. \/ req'[p].pc = "idle"
        \/ /\ ~err /\ next # "idle" /\ req'[p] = [req[p] EXCEPT !.pc = next]
    BY <2>1, IdleType DEF Typed, TypeOK
  <2>5. \/ req'[p].pc = "idle"
        \/ /\ req[p].pc \in {"credential", "index", "rmCredential", "rmIndex"}
           /\ req'[p].pc = NextFile[req[p].pc]
           /\ req'[p].qr = req[p].qr /\ req'[p].acct = req[p].acct
           /\ req'[p].clean => req[p].clean /\ files' = Written(p)
           /\ req[p].pc \in Writing => files' = Written(p)
    BY <1>1, <1>2, <2>2, <2>4 DEF Request, NextFile
  <2>6. \/ goal' = goal
        \/ /\ req[p].clean /\ req[p].pc \in {"channel", "rmChannel"}
           /\ files' = Written(p)
           /\ goal' = [goal EXCEPT ![req[p].acct] = GoalOf(req[p])]
    BY <1>2, <2>1, <2>2 DEF GoalOf, Removing
  <2>7. AtFiles(p)
    BY <1>2 DEF AtFiles, Writing
  <2> QED BY <2>1, <2>2, <2>3, <2>5, <2>6, <2>7 DEF FileStep
<1>3. req[p].pc = "credential" =>
        Written(p) = [files EXCEPT !.cred[req[p].acct] = req[p].qr]
  BY <1>1 DEF Written, Files, GoalOf, Removing
<1>4. req[p].pc = "index" => Written(p) = [files EXCEPT !.index = @ \cup {req[p].acct}]
  BY <1>1 DEF Written, Files
<1>5. req[p].pc = "channel" => Written(p) = [files EXCEPT !.chan = @ \cup {req[p].acct}]
  BY <1>1 DEF Written, Files
<1> QED
  BY <1>2, <1>3, <1>4, <1>5 DEF WriteCredential, WriteIndex, WriteChannel

LEMMA RemoverSteps ==
    ASSUME Typed, NEW p \in Requests, RemoveCredential(p) \/ RemoveIndex(p) \/ RemoveChannel(p)
    PROVE  FileStep(p)
<1>1. req[p] \in Request /\ files \in Files
  BY DEF Typed, TypeOK
<1>2. ASSUME NEW next \in {"rmIndex", "rmChannel", "idle"}, RemoveStep(p, Written(p), next),
             \/ req[p].pc = "rmCredential" /\ next = "rmIndex"
             \/ req[p].pc = "rmIndex" /\ next = "rmChannel"
             \/ req[p].pc = "rmChannel" /\ next = "idle"
      PROVE  FileStep(p)
  <2>1. PICK err \in BOOLEAN :
          /\ Exec(Written(p), err)
          /\ req' = [req EXCEPT ![p] = IF next = "idle" THEN Idle
                                       ELSE [@ EXCEPT !.pc = next,
                                                      !.clean = req[p].clean /\ ~err]]
          /\ goal' = IF next = "idle" /\ req[p].clean /\ ~err
                     THEN [goal EXCEPT ![req[p].acct] = None] ELSE goal
          /\ UNCHANGED dropped
    BY <1>2 DEF RemoveStep
  <2>2. files' \in {files, Written(p)} /\ (~err => files' = Written(p))
    BY <2>1 DEF Exec
  <2>3. PICK c \in BOOLEAN : c = (req[p].clean /\ ~err)
    OBVIOUS
  <2>4. \A o \in Requests \ {p} : req'[o] = req[o]
    BY <2>1 DEF Typed, TypeOK
  <2>5. \/ req'[p].pc = "idle"
        \/ next # "idle" /\ req'[p] = [req[p] EXCEPT !.pc = next, !.clean = c]
    BY <2>1, <2>3, IdleType DEF Typed, TypeOK
  <2>6. c => req[p].clean /\ files' = Written(p)
    BY <2>2, <2>3
  <2>7. \/ req'[p].pc = "idle"
        \/ /\ req[p].pc \in {"credential", "index", "rmCredential", "rmIndex"}
           /\ req'[p].pc = NextFile[req[p].pc]
           /\ req'[p].qr = req[p].qr /\ req'[p].acct = req[p].acct
           /\ req'[p].clean => c
    <3>1. CASE next # "idle" /\ req'[p] = [req[p] EXCEPT !.pc = next, !.clean = c]
      <4>1. /\ req'[p].pc = next /\ req'[p].qr = req[p].qr
            /\ req'[p].acct = req[p].acct
        BY <1>1, <3>1 DEF Request
      <4>2. req'[p].clean => c
        BY <1>1, <3>1 DEF Request
      <4> QED BY <1>2, <3>1, <4>1, <4>2 DEF NextFile
    <3> QED BY <2>5, <3>1
  <2>8. \/ goal' = goal
        \/ /\ req[p].clean /\ req[p].pc \in {"channel", "rmChannel"}
           /\ files' = Written(p)
           /\ goal' = [goal EXCEPT ![req[p].acct] = GoalOf(req[p])]
    BY <1>2, <2>1, <2>2 DEF GoalOf, Removing
  <2>9. AtFiles(p) /\ req[p].pc \notin Writing
    BY <1>2 DEF AtFiles, Writing, Removing
  <2> QED BY <2>1, <2>2, <2>4, <2>6, <2>7, <2>8, <2>9 DEF FileStep
<1>3. req[p].pc = "rmCredential" =>
        Written(p) = [files EXCEPT !.cred[req[p].acct] = None]
  BY <1>1 DEF Written, Files, GoalOf, Removing
<1>4. req[p].pc = "rmIndex" => Written(p) = [files EXCEPT !.index = @ \ {req[p].acct}]
  BY <1>1 DEF Written, Files
<1>5. req[p].pc = "rmChannel" => Written(p) = [files EXCEPT !.chan = @ \ {req[p].acct}]
  BY <1>1 DEF Written, Files
<1> QED
  BY <1>2, <1>3, <1>4, <1>5 DEF RemoveCredential, RemoveIndex, RemoveChannel

\* Steps that leave the files alone and let operations at them end.
LEMMA FilesKept ==
    ASSUME Typed, UNCHANGED <<files, dropped, goal>>,
           \A o \in Requests : AtFiles(o)' => req'[o] = req[o]
    PROVE  (Named => Named') /\ (Aimed => Aimed')
<1>1. \A o \in Requests : AtFiles(o)' => AtFiles(o)
  BY DEF AtFiles
<1>2. ASSUME Named PROVE Named'
  BY <1>1, <1>2 DEF Named, AtFiles, Filled, NamedIsComplete
<1>3. ASSUME Aimed PROVE Aimed'
  BY <1>1, <1>3 DEF Aimed, AtFiles, Progress, GoalOf, GoalReached
<1> QED BY <1>2, <1>3

\* The steps that matter to the files: commands, and the beginnings of operations.
LEMMA StepsAtFiles ==
    ASSUME ConstantsOK, Typed, [Next]_vars
    PROVE  \/ \E p \in Requests : \/ FileStep(p) \/ AnswerConfirmed(p)
                                 \/ \E a \in Accounts : RemoveAccount(p, a)
           \/ /\ UNCHANGED <<files, dropped, goal>>
              /\ \A o \in Requests : AtFiles(o)' => req'[o] = req[o]
<1> DEFINE Done == /\ UNCHANGED <<files, dropped, goal>>
                   /\ \A o \in Requests : AtFiles(o)' => req'[o] = req[o]
<1>1. ASSUME NEW p \in Requests, NEW r, req' = [req EXCEPT ![p] = r],
             r.pc \notin Writing \cup Removing, UNCHANGED <<files, dropped, goal>>
      PROVE  Done
  <2>1. req'[p] = r /\ \A o \in Requests \ {p} : req'[o] = req[o]
    BY <1>1 DEF Typed, TypeOK
  <2> QED BY <1>1, <2>1 DEF AtFiles
<1>2. Idle.pc \notin Writing \cup Removing
  BY IdleType DEF Writing, Removing
<1>3. ASSUME NEW p \in Requests,
             \/ StoreSession(p) \/ ExpireSession(p) \/ AnswerWait(p) \/ AnswerExpired(p)
      PROVE  Done
  BY <1>1, <1>2, <1>3 DEF StoreSession, ExpireSession, AnswerWait, AnswerExpired, memory
<1>4. ASSUME NEW p \in Requests, ReadSession(p) \/ \E q \in QRs : FetchQR(p, q)
      PROVE  Done
  <2>1. \/ req' = [req EXCEPT ![p] = [Idle EXCEPT !.pc = "read", !.qr = session]]
        \/ \E q \in QRs : req' = [req EXCEPT ![p] = [Idle EXCEPT !.pc = "fetched", !.qr = q]]
    BY <1>4 DEF ReadSession, FetchQR
  <2>2. \A q : /\ [Idle EXCEPT !.pc = "read", !.qr = q].pc \notin Writing \cup Removing
               /\ [Idle EXCEPT !.pc = "fetched", !.qr = q].pc \notin Writing \cup Removing
    BY DEF Idle, Writing, Removing
  <2>3. UNCHANGED <<files, dropped, goal>>
    BY <1>4 DEF ReadSession, FetchQR, memory
  <2> QED BY <1>1, <2>1, <2>2, <2>3
<1>5. ASSUME NEW p \in Requests, AskStatus(p)
      PROVE  Done
  <2>1. req' = [req EXCEPT ![p] = [req[p] EXCEPT !.pc = "asked"]]
    BY <1>5 DEF AskStatus
  <2>2. [req[p] EXCEPT !.pc = "asked"].pc = "asked"
    BY DEF Typed, TypeOK, Request
  <2>3. UNCHANGED <<files, dropped, goal>>
    BY <1>5 DEF AskStatus, memory
  <2> QED BY <1>1, <2>1, <2>2, <2>3 DEF Writing, Removing
<1>6. ASSUME \/ GrowOld \/ Toggle \/ Restart \/ UNCHANGED vars
             \/ \E q \in QRs : Expire(q) \/ \E a \in Accounts : Confirm(q, a)
      PROVE  Done
  <2>1. UNCHANGED <<files, dropped, goal>>
    BY <1>6 DEF GrowOld, Toggle, Restart, Expire, Confirm, vars, memory
  <2>2. req' = req \/ req' = [p \in Requests |-> Idle]
    BY <1>6 DEF GrowOld, Toggle, Restart, Expire, Confirm, vars
  <2> QED BY <1>2, <2>1, <2>2 DEF AtFiles
<1> HIDE DEF Done
<1>7. \/ \E p \in Requests : \/ FileStep(p) \/ AnswerConfirmed(p)
                             \/ \E a \in Accounts : RemoveAccount(p, a)
      \/ Done
  BY <1>3, <1>4, <1>5, <1>6, WriterSteps, RemoverSteps DEF Next
<1> QED
  BY <1>7 DEF Done

\* A command leaves the files of other accounts alone, and what it does to those
\* of its own.
LEMMA WrittenFiles ==
    ASSUME Typed, NEW p \in Requests, AtFiles(p)
    PROVE  LET a == req[p].acct IN
           /\ \A b \in Accounts \ {a} :
                 /\ Written(p).cred[b] = files.cred[b]
                 /\ b \in Written(p).index <=> b \in files.index
                 /\ b \in Written(p).chan <=> b \in files.chan
           /\ Written(p).cred[a] = IF req[p].pc \in {"credential", "rmCredential"}
                                   THEN GoalOf(req[p]) ELSE files.cred[a]
           /\ a \in Written(p).index <=>
                 req[p].pc = "index" \/ (a \in files.index /\ req[p].pc # "rmIndex")
           /\ a \in Written(p).chan <=>
                 req[p].pc = "channel" \/ (a \in files.chan /\ req[p].pc # "rmChannel")
<1>1. files \in Files /\ req[p].acct \in Accounts
  BY DEF Typed, TypeOK, Shape, Holds, AtFiles
<1> QED
  BY <1>1 DEF Written, Files

\* Each step keeps it so that no file names an account that an earlier one lacks.
LEMMA NamedStep ==
    ASSUME ConstantsOK, Typed, Named, [Next]_vars
    PROVE  Named'
<1>1. ASSUME NEW p \in Requests, FileStep(p)
      PROVE  Named'
  <2> DEFINE a == req[p].acct
  <2>1. AtFiles(p) /\ a \in Accounts /\ dropped' = dropped
    BY <1>1 DEF FileStep, Typed, Shape, Holds, AtFiles
  <2>2. /\ req[p].pc \in Writing => req[p].qr \in QRs /\ GoalOf(req[p]) # None
        /\ req[p].pc \in Removing => a \in dropped
        /\ a \notin dropped => Filled(p)
    BY <2>1 DEF Named, Typed, Shape, Holds, AtFiles, GoalOf, Writing, Removing, ConstantsOK
  <2>3. ASSUME NEW b \in Accounts \ dropped
        PROVE  /\ files.cred[b] # None => files'.cred[b] # None
               /\ b \in files.index => b \in files'.index
               /\ b \in files'.index =>
                     b \in files.index \/ (b = a /\ files'.cred[b] # None)
               /\ b \in files'.chan =>
                     b \in files.chan \/ (b = a /\ b \in files'.index)
    <3>1. CASE files' = files
      BY <3>1
    <3>2. CASE files' = Written(p) /\ b # a
      BY <2>1, <3>2, WrittenFiles
    <3>3. CASE files' = Written(p) /\ b = a
      <4>1. req[p].pc \in Writing
        BY <2>1, <2>2, <2>3, <3>3 DEF AtFiles
      <4> QED
        BY <2>1, <2>2, <2>3, <3>3, <4>1, WrittenFiles DEF Writing, Filled
    <3> QED BY <1>1, <3>1, <3>2, <3>3 DEF FileStep
  <2>4. NamedIsComplete'
    BY <2>1, <2>3 DEF Named, NamedIsComplete
  <2>5. ASSUME NEW o \in Requests, AtFiles(o)', o # p
        PROVE  /\ req'[o].pc \in Removing => req'[o].acct \in dropped'
               /\ req'[o].acct \notin dropped' => Filled(o)'
    <3>1. req'[o] = req[o] /\ AtFiles(o) /\ req[o].acct \in Accounts
      BY <1>1, <2>5 DEF FileStep, AtFiles, Typed, Shape, Holds
    <3> QED BY <2>1, <2>3, <3>1 DEF Named, Filled
  <2>6. ASSUME AtFiles(p)'
        PROVE  /\ req'[p].pc \in Removing => req'[p].acct \in dropped'
               /\ req'[p].acct \notin dropped' => Filled(p)'
    <3>1. /\ req'[p].acct = a
          /\ \/ req[p].pc = "credential" /\ req'[p].pc = "index" /\ files' = Written(p)
             \/ req[p].pc = "index" /\ req'[p].pc = "channel" /\ files' = Written(p)
             \/ req[p].pc \in Removing /\ req'[p].pc \in Removing
      BY <1>1, <2>6 DEF FileStep, AtFiles, NextFile, Writing, Removing
    <3> QED
      BY <2>1, <2>2, <3>1, WrittenFiles DEF Filled, Writing, Removing
  <2> QED BY <2>4, <2>5, <2>6 DEF Named
<1>2. ASSUME NEW p \in Requests, NEW r \in Request, NEW a \in Accounts, Begin(p, r, a),
             UNCHANGED files,
             \/ r.pc = "credential" /\ dropped' = dropped
             \/ r.pc = "rmCredential" /\ dropped' = dropped \cup {a}
      PROVE  Named'
  <2>1. /\ req'[p].pc = r.pc /\ req'[p].acct = a
        /\ \A o \in Requests \ {p} : /\ req'[o].pc = req[o].pc
                                     /\ req'[o].acct = req[o].acct
    BY <1>2, BeginOthers
  <2> QED BY <1>2, <2>1 DEF Named, AtFiles, Filled, NamedIsComplete, Removing
<1>3. ASSUME NEW p \in Requests, AnswerConfirmed(p)
      PROVE  Named'
  <2>1. /\ [req[p] EXCEPT !.pc = "credential"] \in Request
        /\ [req[p] EXCEPT !.pc = "credential"].pc = "credential"
        /\ qrs[req[p].qr].acct \in Accounts
        /\ UNCHANGED <<files, dropped>>
    BY <1>3 DEF AnswerConfirmed, Typed, TypeOK, Shape, Holds, Request, Steps, Writing, Removing
  <2>2. CASE req' = [req EXCEPT ![p] = Idle] /\ UNCHANGED goal
    <3>1. \A o \in Requests : req'[o] \in {req[o], Idle}
      BY <2>2 DEF Typed, TypeOK
    <3>2. \A o \in Requests : AtFiles(o)' => req'[o] = req[o]
      BY <3>1, IdleType DEF AtFiles, Writing, Removing
    <3> QED BY <2>1, <2>2, <3>2, FilesKept
  <2>3. CASE Begin(p, [req[p] EXCEPT !.pc = "credential"], qrs[req[p].qr].acct)
    BY <1>2, <2>1, <2>3
  <2> QED BY <1>3, <2>2, <2>3 DEF AnswerConfirmed
<1>4. ASSUME NEW p \in Requests, NEW a \in Accounts, RemoveAccount(p, a)
      PROVE  Named'
  <2>1. /\ [Idle EXCEPT !.pc = "rmCredential"] \in Request
        /\ [Idle EXCEPT !.pc = "rmCredential"].pc = "rmCredential"
    BY DEF Idle, Request, Steps, Removing
  <2> QED BY <1>2, <1>4, <2>1 DEF RemoveAccount
<1> QED
  BY <1>1, <1>3, <1>4, StepsAtFiles, FilesKept

\* Whichever commands fail, and however logins, removals and restarts interleave,
\* an account nobody removed is complete in the files before each that names it.
THEOREM NamedIsCompleteHolds == Spec => []NamedIsComplete
<1>1. Init => Typed /\ Named
  BY ConstantsOK, TypedInit, IdleType DEF Init, Named, NamedIsComplete, AtFiles, Writing,
     Removing
<1>2. Typed /\ Named /\ [Next]_vars => (Typed /\ Named)'
  BY ConstantsOK, TypedStep, NamedStep
<1>3. Named => NamedIsComplete
  BY DEF Named
<1> QED BY <1>1, <1>2, <1>3, PTL DEF Spec

\* The files of account b move towards goal h, if they move.
Toward(b, h) ==
    /\ files'.cred[b] \in {files.cred[b], h}
    /\ b \in files'.index \ files.index => h # None
    /\ b \in files.index \ files'.index => h = None
    /\ b \in files'.chan \ files.chan => h # None
    /\ b \in files.chan \ files'.chan => h = None

\* A command moves the files of its account towards the goal of its operation, and
\* those of other accounts not at all.
LEMMA FileStepMoves ==
    ASSUME ConstantsOK, Typed, NEW p \in Requests, FileStep(p)
    PROVE  /\ Toward(req[p].acct, GoalOf(req[p]))
           /\ \A b \in Accounts \ {req[p].acct} : \A h : Toward(b, h)
           /\ \A b \in Accounts \ {req[p].acct} :
                 /\ files'.cred[b] = files.cred[b]
                 /\ b \in files'.index <=> b \in files.index
                 /\ b \in files'.chan <=> b \in files.chan
<1> DEFINE a == req[p].acct
           g == GoalOf(req[p])
<1>1. CASE files' = files
  BY <1>1 DEF Toward
<1>2. CASE files' = Written(p)
  <2>1. AtFiles(p) /\ (IF req[p].pc \in Writing THEN g # None ELSE g = None)
    BY DEF FileStep, AtFiles, GoalOf, Typed, Shape, Holds, Writing, Removing, ConstantsOK
  <2>2. \A b \in Accounts \ {a} :
           /\ files'.cred[b] = files.cred[b]
           /\ b \in files'.index <=> b \in files.index
           /\ b \in files'.chan <=> b \in files.chan
    BY <1>2, <2>1, WrittenFiles
  <2>3. /\ files'.cred[a] \in {files.cred[a], g}
        /\ a \in files'.index \ files.index => req[p].pc = "index"
        /\ a \in files.index \ files'.index => req[p].pc = "rmIndex"
        /\ a \in files'.chan \ files.chan => req[p].pc = "channel"
        /\ a \in files.chan \ files'.chan => req[p].pc = "rmChannel"
    BY <1>2, <2>1, WrittenFiles
  <2> HIDE DEF a, g
  <2>4. Toward(a, g)
    BY <2>1, <2>3 DEF Toward, Writing
  <2>5. \A b \in Accounts \ {a} : \A h : Toward(b, h)
    BY <2>2 DEF Toward
  <2> QED BY <2>2, <2>4, <2>5 DEF a, g
<1> QED BY <1>1, <1>2 DEF FileStep

\* Files that are as their goal says, or that an operation has prepared, stay so
\* when they move towards that goal.
LEMMA TowardKeeps ==
    ASSUME ConstantsOK, NEW b, NEW h, Toward(b, h)
    PROVE  /\ files.cred[b] = h => files'.cred[b] = h
           /\ (b \in files.index) = (h # None) => (b \in files'.index) = (h # None)
           /\ (b \in files.chan) = (h # None) => (b \in files'.chan) = (h # None)
BY DEF Toward

\* What the beginning of an operation does to the certainty of the others.
LEMMA BeginClean ==
    ASSUME Typed, NEW p \in Requests, NEW r \in Request, NEW a \in Accounts, Begin(p, r, a)
    PROVE  /\ \A o \in Requests \ {p} : req'[o].clean =>
                 /\ req[o].clean
                 /\ AtFiles(o) /\ req[o].acct = a => GoalOf(req[o]) = GoalOf(r)
           /\ req'[p].clean => \A o \in Requests \ {p} :
                 AtFiles(o) /\ req[o].acct = a => GoalOf(req[o]) = GoalOf(r)
<1> DEFINE others == {o \in Requests \ {p} : /\ req[o].pc \in Writing \cup Removing
                                             /\ req[o].acct = a
                                             /\ GoalOf(req[o]) # GoalOf(r)}
<1>1. PICK c \in BOOLEAN : c = (others = {})
  OBVIOUS
<1>2. req' = [o \in Requests |->
                IF o = p THEN [r EXCEPT !.acct = a, !.clean = c]
                ELSE IF o \in others THEN [req[o] EXCEPT !.clean = FALSE] ELSE req[o]]
  BY <1>1 DEF Begin
<1>3. req'[p].clean => c
  <2>1. req'[p] = [r EXCEPT !.acct = a, !.clean = c]
    BY <1>2
  <2> HIDE DEF others
  <2> QED BY <2>1 DEF Request
<1>4. ASSUME NEW o \in Requests \ {p}, req'[o].clean
      PROVE  req[o].clean /\ o \notin others
  <2> HIDE DEF others
  <2>1. req[o] \in Request
    BY DEF Typed, TypeOK
  <2>2. req'[o] = IF o \in others THEN [req[o] EXCEPT !.clean = FALSE] ELSE req[o]
    BY <1>2
  <2>3. CASE o \in others
    <3>1. ~[req[o] EXCEPT !.clean = FALSE].clean
      BY <2>1 DEF Request
    <3> QED BY <1>4, <2>2, <2>3, <3>1
  <2>4. CASE o \notin others
    BY <1>4, <2>2, <2>4
  <2> QED BY <2>3, <2>4
<1>5. \A o \in Requests \ {p} : o \notin others /\ AtFiles(o) /\ req[o].acct = a
                                  => GoalOf(req[o]) = GoalOf(r)
  BY DEF AtFiles
<1> QED BY <1>1, <1>3, <1>4, <1>5

\* Each step keeps it so that operations that can tell what they achieved do.
LEMMA AimedStep ==
    ASSUME ConstantsOK, Typed, Aimed, [Next]_vars
    PROVE  Aimed'
<1>1. ASSUME NEW p \in Requests, FileStep(p)
      PROVE  Aimed'
  <2> DEFINE a == req[p].acct
             g == GoalOf(req[p])
  <2>1. AtFiles(p) /\ a \in Accounts /\ goal[a] \in {g, "unsure"}
    BY <1>1 DEF FileStep, Typed, Shape, Holds, AtFiles, Aimed
  <2>2. /\ Toward(a, g)
        /\ \A b \in Accounts \ {a} : \A h : Toward(b, h)
    BY <1>1, FileStepMoves
  <2>3. ASSUME NEW o \in Requests, AtFiles(o)'
        PROVE  /\ AtFiles(o) /\ req'[o].acct = req[o].acct /\ req[o].acct \in Accounts
               /\ GoalOf(req'[o]) = GoalOf(req[o])
               /\ req'[o].clean => req[o].clean
    BY <1>1, <2>3 DEF FileStep, AtFiles, GoalOf, NextFile, Writing, Removing, Typed, Shape,
       Holds
  <2>4. \/ goal' = goal
        \/ /\ req[p].clean /\ req'[p].pc = "idle"
           /\ \A b \in Accounts : goal'[b] = IF b = a THEN g ELSE goal[b]
           /\ files'.cred[a] = g
           /\ (a \in files'.index) = (g # None)
           /\ (a \in files'.chan) = (g # None)
    <3>1. CASE /\ req[p].clean /\ req[p].pc \in {"channel", "rmChannel"}
               /\ files' = Written(p)
               /\ goal' = [goal EXCEPT ![a] = g]
      <4>1. Progress(p) /\ (IF req[p].pc = "channel" THEN g = req[p].qr /\ g # None
                            ELSE g = None)
        BY <2>1, <3>1 DEF Aimed, GoalOf, Typed, Shape, Holds, Writing, Removing, ConstantsOK
      <4>2. files'.cred[a] = g
        BY <2>1, <3>1, <4>1, WrittenFiles DEF Progress
      <4>3. a \in files'.index <=> g # None
        BY <2>1, <3>1, <4>1, WrittenFiles DEF Progress
      <4>4. a \in files'.chan <=> g # None
        BY <2>1, <3>1, <4>1, WrittenFiles DEF Progress
      <4>5. req'[p].pc = "idle"
        BY <1>1, <3>1 DEF FileStep
      <4>6. \A b \in Accounts : goal'[b] = IF b = a THEN g ELSE goal[b]
        BY <2>1, <3>1 DEF Typed, TypeOK
      <4> QED BY <3>1, <4>2, <4>3, <4>4, <4>5, <4>6
    <3> QED BY <1>1, <3>1 DEF FileStep
  <2>5. GoalReached'
    <3> SUFFICES ASSUME NEW b \in Accounts, goal'[b] # "unsure"
                 PROVE  /\ files'.cred[b] = goal'[b]
                        /\ (b \in files'.index) = (goal'[b] # None)
                        /\ (b \in files'.chan) = (goal'[b] # None)
      BY DEF GoalReached
    <3>1. CASE goal'[b] = goal[b]
      <4>1. Toward(b, goal[b])
        BY <2>1, <2>2, <3>1
      <4> QED BY <3>1, <4>1, TowardKeeps DEF Aimed, GoalReached
    <3>2. CASE goal'[b] # goal[b]
      BY <2>4, <3>2
    <3> QED BY <3>1, <3>2
  <2>6. ASSUME NEW o \in Requests, AtFiles(o)'
        PROVE  goal'[req'[o].acct] \in {GoalOf(req'[o]), "unsure"}
    BY <2>1, <2>3, <2>4, <2>6 DEF Aimed
  <2>7. ASSUME NEW o \in Requests, AtFiles(o)', req'[o].clean
        PROVE  /\ Progress(o)'
               /\ \A x \in Requests : AtFiles(x)' /\ req'[x].acct = req'[o].acct
                                         => GoalOf(req'[x]) = GoalOf(req'[o])
    <3>1. \A x \in Requests : AtFiles(x)' /\ req'[x].acct = req'[o].acct
                                 => GoalOf(req'[x]) = GoalOf(req'[o])
      BY <2>3, <2>7 DEF Aimed
    <3>2. CASE o # p
      <4>1. req'[o] = req[o] /\ Progress(o)
        BY <1>1, <2>3, <2>7, <3>2 DEF FileStep, Aimed
      <4>2. req[o].acct = a => GoalOf(req[o]) = g
        BY <2>1, <2>3, <2>7 DEF Aimed
      <4>3. Toward(req[o].acct, GoalOf(req[o]))
        BY <2>2, <2>3, <2>7, <4>2
      <4>4. GoalOf(req[o]) = IF req[o].pc \in Removing THEN None ELSE req[o].qr
        BY DEF GoalOf
      <4>5. req[o].pc \in Writing => GoalOf(req[o]) # None
        BY <4>4 DEF Typed, Shape, Holds, Writing, Removing, ConstantsOK
      <4>6. Progress(o)'
        BY <4>1, <4>3, <4>4, <4>5 DEF Toward, Progress, Writing, Removing
      <4> QED BY <3>1, <4>6
    <3>3. CASE o = p
      <4>1. /\ files' = Written(p) /\ Progress(p)
            /\ req'[p].pc = NextFile[req[p].pc]
            /\ req[p].pc \in {"credential", "index", "rmCredential", "rmIndex"}
            /\ req'[p].qr = req[p].qr /\ req'[p].acct = a
        BY <1>1, <2>1, <2>3, <2>7, <3>3 DEF FileStep, Aimed, AtFiles, Writing, Removing
      <4>2. g = IF req[p].pc \in Removing THEN None ELSE req[p].qr
        BY DEF GoalOf
      <4>3. Progress(p)'
        BY <2>1, <4>1, <4>2, WrittenFiles DEF Progress, NextFile, Removing
      <4> QED BY <3>1, <3>3, <4>3
    <3> QED BY <3>1, <3>2, <3>3
  <2> QED BY <2>5, <2>6, <2>7 DEF Aimed
<1>2. ASSUME NEW p \in Requests, NEW r \in Request, NEW a \in Accounts, Begin(p, r, a),
             UNCHANGED files, r.pc \in {"credential", "rmCredential"}
      PROVE  Aimed'
  <2>1. /\ req'[p].pc = r.pc /\ req'[p].qr = r.qr /\ req'[p].acct = a
        /\ \A o \in Requests \ {p} : /\ req'[o].pc = req[o].pc /\ req'[o].qr = req[o].qr
                                     /\ req'[o].acct = req[o].acct
    BY <1>2, BeginOthers
  <2>2. /\ GoalOf(req'[p]) = GoalOf(r)
        /\ \A o \in Requests \ {p} : GoalOf(req'[o]) = GoalOf(req[o])
    BY <2>1 DEF GoalOf
  <2>3. \A b \in Accounts : goal'[b] = IF b # a \/ goal[b] = GoalOf(r) THEN goal[b]
                                       ELSE "unsure"
    BY <1>2 DEF Begin, Typed, TypeOK
  <2>4. GoalReached'
    BY <1>2, <2>3 DEF Aimed, GoalReached
  <2>5. ASSUME NEW o \in Requests \ {p}, AtFiles(o)'
        PROVE  AtFiles(o) /\ req[o].acct \in Accounts
    BY <2>1, <2>5 DEF AtFiles, Typed, Shape, Holds
  <2>6. ASSUME NEW o \in Requests, AtFiles(o)'
        PROVE  goal'[req'[o].acct] \in {GoalOf(req'[o]), "unsure"}
    <3>1. CASE o = p
      BY <2>1, <2>2, <2>3, <3>1
    <3>2. CASE o # p
      BY <2>1, <2>2, <2>3, <2>5, <2>6, <3>2 DEF Aimed
    <3> QED BY <3>1, <3>2
  <2>7. ASSUME NEW o \in Requests, AtFiles(o)', req'[o].clean
        PROVE  /\ Progress(o)'
               /\ \A x \in Requests : AtFiles(x)' /\ req'[x].acct = req'[o].acct
                                         => GoalOf(req'[x]) = GoalOf(req'[o])
    <3>1. CASE o = p
      <4>1. Progress(p)'
        BY <1>2, <2>1 DEF Progress
      <4>2. \A x \in Requests \ {p} : AtFiles(x) /\ req[x].acct = a
                                        => GoalOf(req[x]) = GoalOf(r)
        BY <1>2, <2>7, <3>1, BeginClean
      <4>3. ASSUME NEW x \in Requests, AtFiles(x)', req'[x].acct = a
            PROVE  GoalOf(req'[x]) = GoalOf(r)
        BY <2>1, <2>2, <2>5, <4>2, <4>3
      <4> QED BY <2>1, <2>2, <3>1, <4>1, <4>3
    <3>2. CASE o # p
      <4>1. /\ AtFiles(o) /\ req[o].clean
            /\ req[o].acct = a => GoalOf(req[o]) = GoalOf(r)
        BY <1>2, <2>5, <2>7, <3>2, BeginClean
      <4>2. /\ Progress(o)
            /\ \A x \in Requests : AtFiles(x) /\ req[x].acct = req[o].acct
                                      => GoalOf(req[x]) = GoalOf(req[o])
        BY <4>1 DEF Aimed
      <4>3. Progress(o)'
        BY <1>2, <2>1, <3>2, <4>2 DEF Progress
      <4>4. ASSUME NEW x \in Requests, AtFiles(x)', req'[x].acct = req'[o].acct
            PROVE  GoalOf(req'[x]) = GoalOf(req'[o])
        <5>1. CASE x = p
          BY <2>1, <2>2, <3>2, <4>1, <4>4, <5>1
        <5>2. CASE x # p
          BY <2>1, <2>2, <2>5, <3>2, <4>2, <4>4, <5>2
        <5> QED BY <5>1, <5>2
      <4> QED BY <4>3, <4>4
    <3> QED BY <3>1, <3>2
  <2> QED BY <2>4, <2>6, <2>7 DEF Aimed
<1>3. ASSUME NEW p \in Requests, AnswerConfirmed(p)
      PROVE  Aimed'
  <2>1. /\ [req[p] EXCEPT !.pc = "credential"] \in Request
        /\ [req[p] EXCEPT !.pc = "credential"].pc = "credential"
        /\ qrs[req[p].qr].acct \in Accounts
        /\ UNCHANGED <<files, dropped>>
    BY <1>3 DEF AnswerConfirmed, Typed, TypeOK, Shape, Holds, Request, Steps, Writing, Removing
  <2>2. CASE req' = [req EXCEPT ![p] = Idle] /\ UNCHANGED goal
    <3>1. \A o \in Requests : req'[o] \in {req[o], Idle}
      BY <2>2 DEF Typed, TypeOK
    <3>2. \A o \in Requests : AtFiles(o)' => req'[o] = req[o]
      BY <3>1, IdleType DEF AtFiles, Writing, Removing
    <3> QED BY <2>1, <2>2, <3>2, FilesKept
  <2>3. CASE Begin(p, [req[p] EXCEPT !.pc = "credential"], qrs[req[p].qr].acct)
    BY <1>2, <2>1, <2>3
  <2> QED BY <1>3, <2>2, <2>3 DEF AnswerConfirmed
<1>4. ASSUME NEW p \in Requests, NEW a \in Accounts, RemoveAccount(p, a)
      PROVE  Aimed'
  <2>1. /\ [Idle EXCEPT !.pc = "rmCredential"] \in Request
        /\ [Idle EXCEPT !.pc = "rmCredential"].pc = "rmCredential"
    BY DEF Idle, Request, Steps, Removing
  <2> QED BY <1>2, <1>4, <2>1 DEF RemoveAccount
<1> QED
  BY <1>1, <1>3, <1>4, StepsAtFiles, FilesKept

\* An operation that succeeds, and that none with another goal overlapped, leaves
\* the files as it should, whatever was left there, for any number of accounts.
THEOREM GoalReachedHolds == Spec => []GoalReached
<1>1. Init => Typed /\ Aimed
  BY ConstantsOK, TypedInit, IdleType DEF Init, Aimed, GoalReached, AtFiles, Writing,
     Removing
<1>2. Typed /\ Aimed /\ [Next]_vars => (Typed /\ Aimed)'
  BY ConstantsOK, TypedStep, AimedStep
<1>3. Aimed => GoalReached
  BY DEF Aimed
<1> QED BY <1>1, <1>2, <1>3, PTL DEF Spec
===============================================================================
