----------------------------- MODULE BotRenewal -----------------------------
(***************************************************************************)
(* What becomes of a renewal, with any overlap and any failure: the bot    *)
(* lifecycle with history variables that remember the latest term a bot    *)
(* was given and which requests and cleanup runs had looked at the row     *)
(* before that.                                                            *)
(***************************************************************************)
EXTENDS BotLifecycle

VARIABLES
    paid,       \* the latest term each bot ever had
    stale,      \* threads whose copy of the row is from before that term
    overwritten,\* bots whose row one of those has saved since
    caught      \* bots that were given that term during the cleanup run on them

history == <<paid, stale, overwritten, caught>>

HoldsCopy(t) == thr[t].op \in {"status", "update"}

Renewed(b) == term'[b] > paid[b]

\* The Save of thread t is a step that writes the row.
Saves(t) == thr[t].pc = "save" /\ thr'[t] # thr[t] /\ row' # row

HistoryInit ==
    /\ paid = term
    /\ stale = {} /\ overwritten = {} /\ caught = {}

Remember ==
    /\ paid' = [b \in Bots |-> IF Renewed(b) THEN term'[b] ELSE paid[b]]
    /\ stale' = {t \in Threads : /\ HoldsCopy(t)'
                                 /\ t \in stale \/ Renewed(thr'[t].bot)}
    /\ overwritten' = {b \in Bots : /\ ~Renewed(b)
                                    /\ \/ b \in overwritten
                                       \/ \E t \in stale : BotOf(t) = b /\ Saves(t)}
    /\ caught' = {b \in Bots : Cleaning(b)' /\ (b \in caught \/ Renewed(b))}

RenewalSpec ==
    Init /\ HistoryInit /\ [][Next /\ Remember]_<<vars, history>>

(***************************************************************************)
(* Properties                                                              *)
(***************************************************************************)
\* A renewal stands, whatever starts, stops, status reads, further updates, jobs,
\* failures and crashes come after or overlap.  There are two ways to lose it: a
\* request that had read the row before saves it after (UpdateBot of PutBot and
\* GetBotStatus), or the cleanup job had listed the bot before
\* (cleanupExpiredBots) and does not look again.  In particular no status written
\* by UpdateBotStatus touches the term, and the cleanup job never works on a bot in
\* a term that was paid for, because of an old term that came back by another way.
PaidTermKept ==
    \A b \in Bots \ overwritten :
        /\ term[b] = paid[b]
        /\ Cleaning(b) /\ b \notin caught => paid[b] <= lapsed[b]
=============================================================================
