-------------------------------- MODULE Gateway --------------------------------
(***************************************************************************)
(* The devices that the OpenClaw gateway of one bot knows.  The gateway is *)
(* not part of this repository: what it does is what proxy.go, approve.go  *)
(* and gateway.go count on.  A device that connects unpaired becomes a     *)
(* pending request; an approval names the request, not the device.         *)
(***************************************************************************)
EXTENDS Naturals, Sequences, FiniteSets

CONSTANTS Devices, MaxAsks  \* bound on the requests of one device

ASSUME AsksOK == MaxAsks \in Nat

VARIABLE device     \* state of each device, number of its last request, and
                    \* whether it was ever paired: it then stays in the list
Pairing == {"unknown", "pending", "paired", "revoked"}
Device == [is : Pairing, request : 0 .. MaxAsks, listed : BOOLEAN]

GatewayTypeOK == device \in [Devices -> Device]
GatewayInit ==
    device = [d \in Devices |-> [is |-> "unknown", request |-> 0, listed |-> FALSE]]

Pending == {[dev |-> d, request |-> device[d].request] :
               d \in {e \in Devices : device[e].is = "pending"}}
Requests == [dev : Devices, request : 1 .. MaxAsks]
Listed == {d \in Devices : device[d].listed}
Known == {d \in Devices : device[d].is # "unknown"}

\* An unpaired device connects; while its request is pending it makes no other.
Ask(d) ==
    \/ device[d].is = "pending" /\ UNCHANGED device
    \/ /\ device[d].is \in {"unknown", "revoked"} /\ device[d].request < MaxAsks
       /\ device' = [device EXCEPT ![d].is = "pending", ![d].request = @ + 1]

\* Approving a request that is not pending, and revoking a device that is not
\* paired, are errors.
CanApprove(q) == q \in Pending
Approved(q) == [device EXCEPT ![q.dev].is = "paired", ![q.dev].listed = TRUE]
CanRevoke(d) == device[d].is = "paired"
Revoked(d) == [device EXCEPT ![d].is = "revoked"]
================================================================================
