--------------------------- MODULE MCBotLifecycle ---------------------------
(***************************************************************************)
(* Instances of the bot lifecycle for TLC.                                 *)
(***************************************************************************)
EXTENDS BotLifecycleInv, BotLifecycleClaims, TLC

CONSTANTS b1, b2    \* two bots

\* Which operations the callers let run together.
All         == [b \in Bots |-> Ops]
Serial      == [b \in Bots |-> {}]
UpOverlap   == [b \in Bots |-> UpOps]
DownOverlap == [b \in Bots |-> DownOps]
OneOrderly  == [b \in Bots |-> IF b = b1 THEN {} ELSE Ops]
CleanRenew  == [b \in Bots |-> {"cleanup", "update"}]

\* The threads of the server are interchangeable.
Perms == Permutations(Threads)
=============================================================================
