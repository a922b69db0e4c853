---------------------------- MODULE MCConfigSync ----------------------------
(***************************************************************************)
(* Instances of the configuration of a bot for TLC.                        *)
(***************************************************************************)
EXTENDS ConfigSyncClaims, ConfigSyncInv, TLC

CONSTANTS anthropic, other, v1, stock

Telegram == {<<"telegram", "a">>, <<"telegram", "b">>}

WithModels == [EmptyConfig EXCEPT !.models = other :> v1, !.agents = other,
                                  !.channels = {<<"telegram", "a">>}]
WholeInput == [EmptyConfig EXCEPT !.models = other :> stock, !.agents = other,
                                  !.channels = {<<"telegram", "b">>}]
LockedInput == [WholeInput EXCEPT !.models = Absent, !.auth = Password]

Whole == {WholeInput, LockedInput}
EitherFlow == Permutations(Flows)

Fresh == {EmptyConfig, WithModels, LockedInput}
=============================================================================
