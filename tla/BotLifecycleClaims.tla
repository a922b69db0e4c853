------------------------- MODULE BotLifecycleClaims -------------------------
(***************************************************************************)
(* What the README of the repository says of the cleanup job and what the  *)
(* code does not keep; the README here describes the counterexample.       *)
(***************************************************************************)
EXTENDS BotLifecycle

\* README.md, cleanup: "Finds bots where `expires_at` is older than the grace
\* period".  The goroutine does not look at expires_at again, so a bot that was
\* renewed after ListExpiredBots is deleted in its new term.
OnlyExpiredAreCleaned ==
    [][\A b \in Bots :
         status'[b] = "deleted" /\ status[b] # "deleted" => Expired(b)]_vars
=============================================================================
