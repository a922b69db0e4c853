----------------------------- MODULE BotContract -----------------------------
(***************************************************************************)
(* What the hosting service promises about one bot, seen by its owner and  *)
(* by whoever pays for the cluster: which state the bot is said to be in   *)
(* (phase), and whether it occupies the cluster (held).  A bot is said to  *)
(* be up only after resources were acquired, and said to be down only      *)
(* after they were released.                                               *)
(***************************************************************************)
CONSTANT Bots

VARIABLES phase, held

Known == {"created", "starting", "running", "stopped", "error", "deleted"}
Down  == {"created", "stopped", "deleted", "error"}

Init ==
    /\ phase = [b \in Bots |-> "none"]
    /\ held = [b \in Bots |-> FALSE]

Register(b) ==
    /\ phase[b] = "none"
    /\ phase' = [phase EXCEPT ![b] = "created"]
    /\ UNCHANGED held

Acquire(b) ==
    /\ phase[b] \in Down
    /\ held' = [held EXCEPT ![b] = TRUE]
    /\ UNCHANGED phase

Announce(b) ==
    /\ phase[b] \in Known /\ held[b]
    /\ \E p \in {"starting", "running"} : phase' = [phase EXCEPT ![b] = p]
    /\ UNCHANGED held

GiveUp(b) ==
    /\ phase[b] \in {"starting", "running"} /\ held[b]
    /\ phase' = [phase EXCEPT ![b] = "error"]
    /\ UNCHANGED held

\* A bot that was removed may still be released by a cleanup run under way.
Release(b) ==
    /\ phase[b] \in {"running", "error", "gone"} /\ held[b]
    /\ held' = [held EXCEPT ![b] = FALSE]
    /\ UNCHANGED phase

Retire(b) ==
    /\ phase[b] \in Known /\ ~held[b]
    /\ \E p \in {"stopped", "deleted"} : phase' = [phase EXCEPT ![b] = p]
    /\ UNCHANGED held

\* The one gap: a bot in "error" keeps what it holds when it is removed.
Remove(b) ==
    /\ phase[b] \in Known
    /\ held[b] => phase[b] = "error"
    /\ phase' = [phase EXCEPT ![b] = "gone"]
    /\ UNCHANGED held

Next ==
    \E b \in Bots :
        \/ Register(b) \/ Acquire(b) \/ Announce(b) \/ GiveUp(b)
        \/ Release(b) \/ Retire(b) \/ Remove(b)

Spec == Init /\ [][Next]_<<phase, held>>
=============================================================================
