-------------------------- MODULE ConfigSyncClaims --------------------------
(***************************************************************************)
(* What a comment of the code says of the configuration of a bot and what  *)
(* the code does not keep; the README describes the counterexample.        *)
(***************************************************************************)
EXTENDS ConfigSync

\* botconfig.go: "Always enable HTTP chat completions endpoint".  SyncConfigToPod
\* writes the file from Go types that have no gateway.http, so an upgrade or a PUT
\* of the configuration switches the endpoint off until a container starts again.
ChatEndpointOn == AtRest => "http" \in file.extra
=============================================================================
