----------------------------- MODULE DevicePairing -----------------------------
(***************************************************************************)
(* The devices of one bot with everybody who pairs them: the automatic     *)
(* approval of the proxy and the device handlers, at the same gateway,     *)
(* and a server that may go down.                                          *)
(***************************************************************************)
EXTENDS AutoApprove, GatewayClient

VARIABLE crashed    \* the server has restarted

vars == <<device, approveVars, clientVars, crashed>>

TypeOK ==
    /\ GatewayTypeOK /\ ApproveTypeOK /\ ClientTypeOK
    /\ crashed \in BOOLEAN

Init == GatewayInit /\ ApproveInit /\ ClientInit /\ crashed = FALSE

\* The map of pollers, the goroutines and the connections are in memory only;
\* nothing starts a poller again.
Restart ==
    /\ faults < MaxFaults /\ faults' = faults + 1
    /\ crashed' = TRUE
    /\ activePoller' = FALSE
    /\ job' = [j \in Jobs |-> Free]
    /\ conn' = [c \in Clients |-> Closed]
    /\ stream' = [c \in Clients |-> <<>>]
    /\ server' = [c \in Clients |-> Forsaken(c)]
    /\ UNCHANGED device

Next ==
    \/ ApproveStep /\ UNCHANGED <<clientVars, crashed>>
    \/ ClientStep /\ UNCHANGED <<approveVars, crashed>>
    \/ Restart

\* A goroutine that started goes on: a sleep ends, a command in the pod returns.
\* No fairness of requests, of clients or of the gateway.
Fairness ==
    \A j \in Jobs : WF_vars(JobStep(j) /\ UNCHANGED <<clientVars, crashed>>)

Spec == Init /\ [][Next]_vars /\ Fairness

(***************************************************************************)
(* Properties                                                              *)
(***************************************************************************)
\* A poller that will list again, and more often than commands may still fail.
Watched ==
    \E j \in Jobs : Is(j, "sleep") /\ job[j].left > MaxFaults - faults

\* A device that asks while the poller has enough rounds left is not left pending:
\* an error of one round is only logged and the next one tries again.
PendingApproved ==
    \A d \in Devices :
       (device[d].is = "pending" /\ Watched) ~> (device[d].is # "pending" \/ crashed)
================================================================================
