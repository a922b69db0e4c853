---------------------------- MODULE MCBotRenewal ----------------------------
(***************************************************************************)
(* An instance of the renewals for TLC: every overlap is allowed.          *)
(***************************************************************************)
EXTENDS BotRenewal, TLC

All == [b \in Bots |-> Ops]

\* The threads of the server are interchangeable.
Perms == Permutations(Threads)
=============================================================================
