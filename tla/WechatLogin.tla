----------------------------- MODULE WechatLogin -----------------------------
(***************************************************************************)
(* The WeChat login of one bot (bot_channel_wechat.go).  A login fetches a *)
(* QR code and keeps it as the bot's only session, in the memory of the    *)
(* server; clients poll its status, and a confirmed login is written by a  *)
(* goroutine into three files of the pod.  Requests run concurrently and   *)
(* every call to WeChat or into the pod is a step of its own.              *)
(***************************************************************************)
EXTENDS Naturals, FiniteSets

CONSTANTS
    Requests,   \* handlers running at once, with their goroutines
    QRs,        \* the QR codes that WeChat may issue
    Accounts,   \* WeChat accounts, by their normalised names
    None,
    MaxFaults   \* bound on commands in the pod that fail

ASSUME ConstantsOK ==
    /\ None \notin QRs \cup Accounts
    /\ MaxFaults \in Nat

VARIABLES
    qrs,        \* what WeChat knows of each QR code
    old,        \* sessions created more than weixinQRTTL ago
    session,    \* weixinSessions[bot.ID]: the QR code of the session, or None
    running,    \* the bot is running
    req,        \* what each request is doing
    files,      \* the three places in the pod, see Files
    faults,
    \* What the properties remember:
    told,       \* QR codes a client was told to be confirmed or expired
    dropped,    \* accounts somebody asked to remove
    goal        \* the last operation on an account, if it was undisturbed

vars == <<qrs, old, session, running, req, files, faults,
          told, dropped, goal>>
memory == <<told, dropped, goal>>

Writing == {"credential", "index", "channel"}
Removing == {"rmCredential", "rmIndex", "rmChannel"}
Steps == {"idle", "fetched", "read", "asked"} \cup Writing \cup Removing
Request == [pc : Steps, qr : QRs \cup {None}, acct : Accounts \cup {None},
            clean : BOOLEAN]
Idle == [pc |-> "idle", qr |-> None, acct |-> None, clean |-> TRUE]

\* cred: accounts/<name>.json, by the login that wrote it; index: accounts.json;
\* chan: the accounts of openclaw-weixin in openclaw.json, {} without the channel.
Files == [cred : [Accounts -> QRs \cup {None}], index : SUBSET Accounts,
          chan : SUBSET Accounts]

\* What the files of an account should say: the login's credentials, or nothing.
Goals == QRs \cup {None, "unsure"}

TypeOK ==
    /\ qrs \in [QRs -> [status : {"unused", "wait", "confirmed", "expired"},
                        acct : Accounts \cup {None}]]
    /\ old \in SUBSET QRs
    /\ session \in QRs \cup {None}
    /\ running \in BOOLEAN
    /\ req \in [Requests -> Request]
    /\ files \in Files
    /\ faults \in 0 .. MaxFaults
    /\ told \in SUBSET QRs
    /\ dropped \in SUBSET Accounts
    /\ goal \in [Accounts -> Goals]

Init ==
    /\ qrs = [q \in QRs |-> [status |-> "unused", acct |-> None]]
    /\ old = {}
    /\ session = None
    /\ running = TRUE
    /\ req = [p \in Requests |-> Idle]
    /\ files = [cred |-> [a \in Accounts |-> None], index |-> {}, chan |-> {}]
    /\ faults = 0
    /\ told = {}
    /\ dropped = {}
    /\ goal = [a \in Accounts |-> None]

(***************************************************************************)
(* Logging in                                                              *)
(***************************************************************************)
\* WechatLoginStart up to the answer of fetchWeixinQRCode, outside the lock.
FetchQR(p, q) ==
    /\ req[p].pc = "idle" /\ running
    /\ qrs[q].status = "unused"
    /\ qrs' = [qrs EXCEPT ![q].status = "wait"]
    /\ req' = [req EXCEPT ![p] = [Idle EXCEPT !.pc = "fetched", !.qr = q]]
    /\ UNCHANGED <<old, session, running, files, faults, memory>>

\* The last of two concurrent logins to get here has the session.
StoreSession(p) ==
    /\ req[p].pc = "fetched"
    /\ session' = req[p].qr
    /\ req' = [req EXCEPT ![p] = Idle]
    /\ UNCHANGED <<qrs, old, running, files, faults, memory>>

\* WechatLoginStatus, which does not ask whether the bot is running.
ReadSession(p) ==
    /\ req[p].pc = "idle"
    /\ session # None
    /\ req' = [req EXCEPT ![p] = [Idle EXCEPT !.pc = "read", !.qr = session]]
    /\ UNCHANGED <<qrs, old, session, running, files, faults, memory>>

\* The session read is too old: whatever session the bot has now is deleted.
ExpireSession(p) ==
    /\ req[p].pc = "read" /\ req[p].qr \in old
    /\ session' = None
    /\ told' = told \cup {req[p].qr}
    /\ req' = [req EXCEPT ![p] = Idle]
    /\ UNCHANGED <<qrs, old, running, files, faults, dropped, goal>>

\* The long poll of pollWeixinQRStatus begins.
AskStatus(p) ==
    /\ req[p].pc = "read" /\ req[p].qr \notin old
    /\ req' = [req EXCEPT ![p].pc = "asked"]
    /\ UNCHANGED <<qrs, old, session, running, files, faults, memory>>

\* The answers wait and scaned, and an error of the call, change nothing.
AnswerWait(p) ==
    /\ req[p].pc = "asked"
    /\ req' = [req EXCEPT ![p] = Idle]
    /\ UNCHANGED <<qrs, old, session, running, files, faults, memory>>

\* Mutant: an expired QR code leaves its session.
AnswerExpiredKept(p) ==
    /\ req[p].pc = "asked" /\ qrs[req[p].qr].status = "expired"
    /\ told' = told \cup {req[p].qr}
    /\ req' = [req EXCEPT ![p] = Idle]
    /\ UNCHANGED <<qrs, old, session, running, files, faults, dropped, goal>>
AnswerExpired(p) ==
    /\ req[p].pc = "asked" /\ qrs[req[p].qr].status = "expired"
    /\ session' = None
    /\ told' = told \cup {req[p].qr}
    /\ req' = [req EXCEPT ![p] = Idle]
    /\ UNCHANGED <<qrs, old, running, files, faults, dropped, goal>>

GoalOf(r) == IF r.pc \in Removing THEN None ELSE r.qr

\* Operation r on account a begins in request p.  Operations with another goal
\* that overlap on one account leave no certainty about it.
Begin(p, r, a) ==
    LET others == {o \in Requests \ {p} : /\ req[o].pc \in Writing \cup Removing
                                          /\ req[o].acct = a
                                          /\ GoalOf(req[o]) # GoalOf(r)}
    IN  /\ req' = [o \in Requests |->
                      IF o = p THEN [r EXCEPT !.acct = a, !.clean = others = {}]
                      ELSE IF o \in others THEN [req[o] EXCEPT !.clean = FALSE]
                      ELSE req[o]]
        /\ goal' = [goal EXCEPT ![a] = IF @ = GoalOf(r) THEN @ ELSE "unsure"]

\* Mutant: any status passes for confirmed.
AnswerConfirmedAny(p) ==
    /\ req[p].pc = "asked"
    /\ session' = None
    /\ told' = told \cup {req[p].qr}
    /\ req' = [req EXCEPT ![p].pc = "credential", ![p].acct = qrs[req[p].qr].acct]
    /\ UNCHANGED <<qrs, old, running, files, faults, dropped, goal>>

\* The session goes, and a goroutine writes the credentials if there are any.
AnswerConfirmed(p) ==
    LET q == req[p].qr IN
    /\ req[p].pc = "asked" /\ qrs[q].status = "confirmed"
    /\ session' = None
    /\ told' = told \cup {q}
    /\ \/ Begin(p, [req[p] EXCEPT !.pc = "credential"], qrs[q].acct)
       \/ req' = [req EXCEPT ![p] = Idle] /\ UNCHANGED goal
    /\ UNCHANGED <<qrs, old, running, files, faults, dropped>>

(***************************************************************************)
(* The files in the pod.  ExecInPod may fail, before or after its command  *)
(* took effect, and has no effect when there is no pod.                    *)
(***************************************************************************)
Exec(new, err) ==
    \/ running /\ files' = new /\ ~err /\ UNCHANGED faults
    \/ err /\ files' = files /\ ~running /\ UNCHANGED faults
    \/ /\ err /\ running /\ faults < MaxFaults /\ faults' = faults + 1
       /\ files' \in {new, files}

\* Mutant: the writer goes on after an error.
WriteStepGoesOn(p, new, next) ==
    \E err \in BOOLEAN :
        /\ Exec(new, err)
        /\ req' = [req EXCEPT ![p] = IF next = "idle" THEN Idle
                                     ELSE [@ EXCEPT !.pc = next]]
        /\ UNCHANGED <<qrs, old, session, running, told, dropped, goal>>

\* writeWechatCredentials gives up at the first error.
WriteStep(p, new, next) ==
    \E err \in BOOLEAN :
        /\ Exec(new, err)
        /\ req' = [req EXCEPT ![p] = IF err \/ next = "idle" THEN Idle
                                     ELSE [@ EXCEPT !.pc = next]]
        /\ goal' = IF ~err /\ next = "idle" /\ req[p].clean
                   THEN [goal EXCEPT ![req[p].acct] = req[p].qr] ELSE goal
        /\ UNCHANGED <<qrs, old, session, running, told, dropped>>

WriteCredential(p) ==
    /\ req[p].pc = "credential"
    /\ WriteStep(p, [files EXCEPT !.cred[req[p].acct] = req[p].qr], "index")

\* Mutant: an account of the index is taken to be complete.
WriteIndexOnce(p) ==
    /\ req[p].pc = "index"
    /\ WriteStep(p, [files EXCEPT !.index = @ \cup {req[p].acct}],
                 IF req[p].acct \in files.index THEN "idle" ELSE "channel")
WriteIndex(p) ==
    /\ req[p].pc = "index"
    /\ WriteStep(p, [files EXCEPT !.index = @ \cup {req[p].acct}], "channel")

WriteChannel(p) ==
    /\ req[p].pc = "channel"
    /\ WriteStep(p, [files EXCEPT !.chan = @ \cup {req[p].acct}], "idle")

\* WechatRemoveAccount, once the pod was found.
RemoveAccount(p, a) ==
    /\ req[p].pc = "idle" /\ running
    /\ Begin(p, [Idle EXCEPT !.pc = "rmCredential"], a)
    /\ dropped' = dropped \cup {a}
    /\ UNCHANGED <<qrs, old, session, running, files, faults, told>>

\* Its three commands run whatever became of the one before.
RemoveStep(p, new, next) ==
    \E err \in BOOLEAN :
        LET clean == req[p].clean /\ ~err IN
        /\ Exec(new, err)
        /\ req' = [req EXCEPT ![p] = IF next = "idle" THEN Idle
                                     ELSE [@ EXCEPT !.pc = next, !.clean = clean]]
        /\ goal' = IF next = "idle" /\ clean
                   THEN [goal EXCEPT ![req[p].acct] = None] ELSE goal
        /\ UNCHANGED <<qrs, old, session, running, told, dropped>>

RemoveCredential(p) ==
    /\ req[p].pc = "rmCredential"
    /\ RemoveStep(p, [files EXCEPT !.cred[req[p].acct] = None], "rmIndex")

RemoveIndex(p) ==
    /\ req[p].pc = "rmIndex"
    /\ RemoveStep(p, [files EXCEPT !.index = @ \ {req[p].acct}], "rmChannel")

RemoveChannel(p) ==
    /\ req[p].pc = "rmChannel"
    /\ RemoveStep(p, [files EXCEPT !.chan = @ \ {req[p].acct}], "idle")

(***************************************************************************)
(* The rest of the world                                                   *)
(***************************************************************************)
Confirm(q, a) ==
    /\ qrs[q].status = "wait"
    /\ qrs' = [qrs EXCEPT ![q] = [status |-> "confirmed", acct |-> a]]
    /\ UNCHANGED <<old, session, running, req, files, faults, memory>>

Expire(q) ==
    /\ qrs[q].status = "wait"
    /\ qrs' = [qrs EXCEPT ![q].status = "expired"]
    /\ UNCHANGED <<old, session, running, req, files, faults, memory>>

\* Five minutes after the session was stored.
GrowOld ==
    /\ session # None
    /\ old' = old \cup {session}
    /\ UNCHANGED <<qrs, session, running, req, files, faults, memory>>

\* The bot is stopped or started; its volume stays (BotLifecycle).
Toggle ==
    /\ running' = ~running
    /\ UNCHANGED <<qrs, old, session, req, files, faults, memory>>

\* The server restarts: sessions and goroutines are gone.
Restart ==
    /\ session' = None
    /\ req' = [p \in Requests |-> Idle]
    /\ UNCHANGED <<qrs, old, running, files, faults, memory>>

Next ==
    \/ \E p \in Requests :
        \/ \E q \in QRs : FetchQR(p, q)
        \/ StoreSession(p) \/ ReadSession(p) \/ ExpireSession(p) \/ AskStatus(p)
        \/ AnswerWait(p) \/ AnswerExpired(p) \/ AnswerConfirmed(p)
        \/ WriteCredential(p) \/ WriteIndex(p) \/ WriteChannel(p)
        \/ \E a \in Accounts : RemoveAccount(p, a)
        \/ RemoveCredential(p) \/ RemoveIndex(p) \/ RemoveChannel(p)
    \/ \E q \in QRs : Expire(q) \/ \E a \in Accounts : Confirm(q, a)
    \/ GrowOld \/ Toggle \/ Restart

Spec == Init /\ [][Next]_vars

(***************************************************************************)
(* Properties                                                              *)
(***************************************************************************)
\* A login is used once: as soon as one client was told that its QR code was
\* confirmed or has expired, no later request finds it as the bot's session,
\* in whatever order concurrent polls are answered.
SessionUnused == session # None => session \notin told

\* The plugin reads the credential files and the index, and is switched on by
\* openclaw.json: unless somebody removed it, an account that one of them names
\* is complete in those the writer filled before, whichever command failed.
NamedIsComplete ==
    \A a \in Accounts \ dropped :
        /\ a \in files.chan => a \in files.index
        /\ a \in files.index => files.cred[a] # None

\* An operation on an account that succeeds, and that no operation with another
\* goal overlapped, leaves all three files as it should, whatever failures left
\* there before: a repeated login or removal repairs a half-made one.
GoalReached ==
    \A a \in Accounts : goal[a] # "unsure" =>
        /\ files.cred[a] = goal[a]
        /\ (a \in files.index) = (goal[a] # None)
        /\ (a \in files.chan) = (goal[a] # None)
==============================================================================
