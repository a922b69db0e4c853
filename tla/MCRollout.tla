------------------------------- MODULE MCRollout -------------------------------
(***************************************************************************)
(* Rollout for TLC: Rollout.cfg gives the constants their values.          *)
(***************************************************************************)
EXTENDS Rollout
================================================================================
