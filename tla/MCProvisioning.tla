---------------------------- MODULE MCProvisioning ----------------------------
(***************************************************************************)
(* An instance of the default model of the platform for TLC.               *)
(***************************************************************************)
EXTENDS Provisioning, TLC

CONSTANTS x, y, platform, private

\* An owner uses the model of one of the defaults on a key of his own.
AdminSettings == {[name |-> x, key |-> platform], [name |-> y, key |-> platform]}
OwnerSettings == {[name |-> x, key |-> private]}

Symmetric == Permutations(Requests) \cup Permutations(Bots)
===============================================================================
