----------------------------- MODULE GatewayClient -----------------------------
(***************************************************************************)
(* The client of the gateway's websocket (gateway.go) and the handlers     *)
(* that use it (bot_devices.go): one connection per request, a handshake,  *)
(* then one or two calls.  Answers and events come on one stream; a        *)
(* deadline may pass at any read, and what was sent is processed all the   *)
(* same.                                                                   *)
(***************************************************************************)
EXTENDS Gateway

CONSTANTS Clients, MaxEvents    \* bound on the events of one connection

ASSUME EventsOK == MaxEvents \in Nat

VARIABLES
    conn,       \* each handler with its connection
    stream,     \* messages on the way from the gateway
    server      \* the gateway's end: authenticated, the request it has, events

clientVars == <<conn, stream, server>>

\* The operations of a handler, with what they are called with.
Ops == {[method |-> "list"]}
       \cup [method : {"approve"}, request : Requests]
       \cup [method : {"revoke"}, dev : Devices]

\* The request ids: "connect-1", then the counter of the client.
Ids == {"connect-1", "1", "2"}
Id(n) == IF n = 1 THEN "1" ELSE "2"
Request == [id : Ids, op : Ops, method : {"connect", "node.pair.list", "node.list",
                                          "approve", "revoke"}]

Event == [type |-> "event"]
Challenge == [type |-> "challenge"]
Answers == [type : {"res"}, id : Ids, ok : BOOLEAN, payload : SUBSET Devices]

\* known, done: what the properties remember of the gateway, the devices it knew
\* when a list began and whether it carried out the handler's request.
Closed == [pc |-> "closed"]
Conn == {Closed} \cup
        [pc : {"challenge", "response", "call", "read", "cli", "success"},
         op : Ops, calls : 0 .. 2, devices : SUBSET Devices,
         known : SUBSET Devices, done : BOOLEAN]
\* asked: the request the gateway has not answered, if there is one.
Server == [is : {"waiting", "open", "gone"}, asked : SUBSET Request,
           events : 0 .. MaxEvents]
Gone == [is |-> "gone", asked |-> {}, events |-> 0]

ClientTypeOK ==
    /\ conn \in [Clients -> Conn]
    /\ stream \in [Clients -> Seq({Event, Challenge} \cup Answers)]
    /\ server \in [Clients -> Server]
    /\ \A c \in Clients : Cardinality(server[c].asked) <= 1

ClientInit ==
    /\ conn = [c \in Clients |-> Closed]
    /\ stream = [c \in Clients |-> <<>>]
    /\ server = [c \in Clients |-> Gone]

Goto(c, new) == conn' = [conn EXCEPT ![c] = new]
Got(c) == Head(stream[c])
Take(c) == stream' = [stream EXCEPT ![c] = Tail(@)]
\* A handler that has its connection still; a request on one the gateway dropped
\* is lost.
Reading(c) == conn[c].pc \in {"challenge", "response", "call", "read"}
Write(c, request) ==
    server' = [server EXCEPT ![c].asked = IF server[c].is = "gone" THEN {} ELSE {request}]

(***************************************************************************)
(* NewGatewayClient and handleAuth                                         *)
(***************************************************************************)
\* Whether by wss or ws.  A gateway that takes the token of the URL sends no
\* challenge.
Connect(c, op) ==
    /\ conn[c] = Closed /\ server[c].asked = {}
    /\ Goto(c, [pc |-> "challenge", op |-> op, calls |-> 0, devices |-> {},
                known |-> IF op.method = "list" THEN Known ELSE {}, done |-> FALSE])
    /\ \E is \in {"waiting", "open"} :
          /\ server' = [server EXCEPT ![c] = [Gone EXCEPT !.is = is]]
          /\ stream' = [stream EXCEPT ![c] = IF is = "waiting" THEN <<Challenge>> ELSE <<>>]
    /\ UNCHANGED device

\* Any first message but the challenge is taken for being authenticated.
ReadChallenge(c) ==
    LET r == conn[c] IN
    /\ r.pc = "challenge" /\ stream[c] # <<>>
    /\ Take(c)
    /\ IF Got(c) = Challenge
       THEN /\ Goto(c, [r EXCEPT !.pc = "response"])
            /\ Write(c, [id |-> "connect-1", op |-> r.op, method |-> "connect"])
       ELSE Goto(c, [r EXCEPT !.pc = "call"]) /\ UNCHANGED server
    /\ UNCHANGED device

\* Close, with what is unread; the gateway may still have a request.  The list then
\* falls back on the command line; the other handlers answer the error.
Forsaken(c) == IF server[c].asked = {} THEN Gone ELSE [server[c] EXCEPT !.events = 0]
Leave(c, new) ==
    /\ Goto(c, new)
    /\ stream' = [stream EXCEPT ![c] = <<>>]
    /\ server' = [server EXCEPT ![c] = Forsaken(c)]
Fail(c) == Leave(c, IF conn[c].op.method # "list" THEN Closed
                    ELSE [conn[c] EXCEPT !.pc = "cli", !.calls = 0, !.devices = {}])

\* One message is read for the answer, and only an answer can refuse: an event
\* passes for a success.
Refuses(m) == m.type = "res" /\ ~m.ok

ReadResponse(c) ==
    /\ conn[c].pc = "response" /\ stream[c] # <<>>
    /\ IF Refuses(Got(c)) THEN Fail(c)
       ELSE Take(c) /\ Goto(c, [conn[c] EXCEPT !.pc = "call"]) /\ UNCHANGED server
    /\ UNCHANGED device

(***************************************************************************)
(* Call, and what the handlers make of its answer                          *)
(***************************************************************************)
\* Mutant: the paired devices are asked for first.
MethodSwapped(op, n) ==
    CASE op.method # "list" -> op.method
      [] op.method = "list" -> IF n = 1 THEN "node.list" ELSE "node.pair.list"

\* The method of the n-th call: ListBotDevicesViaGateway makes two.
Method(op, n) ==
    CASE op.method # "list" -> op.method
      [] op.method = "list" -> IF n = 1 THEN "node.pair.list" ELSE "node.list"

\* The gateway serves a connection in order, so a call sent while the handshake is
\* still to be answered waits behind it: it is taken up when that one is done.
SendCall(c) ==
    LET r == conn[c]
        n == r.calls + 1
    IN  /\ r.pc = "call" /\ server[c].asked = {}
        /\ Write(c, [id |-> Id(n), op |-> r.op, method |-> Method(r.op, n)])
        /\ Goto(c, [r EXCEPT !.pc = "read", !.calls = n])
        /\ UNCHANGED <<device, stream>>

\* Mutant: any response passes for the answer.
IsAnswerOfAny(m, n) == m.type = "res"
IsAnswer(m, n) == m.type = "res" /\ m.id = Id(n)

\* Mutant: the calls are counted one too far.
ThroughTooLate(r) == r.op.method # "list" \/ r.calls > 2

\* Is there no other call to make?
Through(r) == r.op.method # "list" \/ r.calls = 2

ReadAnswer(c) ==
    LET r == conn[c]
        m == Got(c)
    IN  /\ r.pc = "read" /\ stream[c] # <<>>
        /\ \/ ~IsAnswer(m, r.calls) /\ Take(c) /\ UNCHANGED <<conn, server>>
           \/ IsAnswer(m, r.calls) /\ ~m.ok /\ Fail(c)
           \/ /\ IsAnswer(m, r.calls) /\ m.ok
              /\ LET got == [r EXCEPT !.devices = @ \cup m.payload]
                 IN  IF Through(r) THEN Leave(c, [got EXCEPT !.pc = "success"])
                     ELSE /\ Take(c) /\ Goto(c, [got EXCEPT !.pc = "call"])
                          /\ UNCHANGED server
        /\ UNCHANGED device

\* No connection, an error of a read or a write, or its deadline.
GiveUp(c) ==
    /\ Reading(c)
    /\ Fail(c)
    /\ UNCHANGED device

\* listDevicesViaCLI: one command in the pod lists both.
ListByCLI(c) ==
    /\ conn[c].pc = "cli"
    /\ \/ Goto(c, [conn[c] EXCEPT !.pc = "success", !.devices = Known])
       \/ Goto(c, Closed)
    /\ UNCHANGED <<device, stream, server>>

\* The handler answers the success.
Answered(c) ==
    /\ conn[c].pc = "success"
    /\ Goto(c, Closed)
    /\ UNCHANGED <<device, stream, server>>

(***************************************************************************)
(* The gateway's end of a connection                                       *)
(***************************************************************************)
\* Nobody reads what is sent to a client that closed.
Replied(c, q, ok, payload) ==
    stream' = IF ~Reading(c) THEN stream
              ELSE [stream EXCEPT ![c] = Append(@, [type |-> "res", id |-> q.id,
                                                    ok |-> ok, payload |-> payload])]

Handled(c, is) ==
    server' = [server EXCEPT ![c] = IF ~Reading(c) \/ is = "gone" THEN Gone
                                    ELSE [@ EXCEPT !.asked = {}, !.is = is]]

\* The token is good or not; whatever else comes before is refused.
Authenticate(c, q) ==
    /\ server[c].is = "waiting"
    /\ \E ok \in {q.method = "connect", FALSE} :
          Replied(c, q, ok, {}) /\ Handled(c, IF ok THEN "open" ELSE "waiting")
    /\ UNCHANGED <<device, conn>>

\* Any method may be refused: the scopes of the client are the gateway's matter.
Perform(c, q) ==
    /\ server[c].is = "open"
    /\ Handled(c, "open")
    /\ \/ Replied(c, q, FALSE, {}) /\ UNCHANGED <<device, conn>>
       \/ /\ q.method = "node.pair.list"
          /\ Replied(c, q, TRUE, {p.dev : p \in Pending})
          /\ UNCHANGED <<device, conn>>
       \/ /\ q.method = "node.list"
          /\ Replied(c, q, TRUE, Listed)
          /\ UNCHANGED <<device, conn>>
       \/ /\ \/ /\ q.method = "approve" /\ CanApprove(q.op.request)
                /\ device' = Approved(q.op.request)
             \/ /\ q.method = "revoke" /\ CanRevoke(q.op.dev)
                /\ device' = Revoked(q.op.dev)
          /\ Replied(c, q, TRUE, {})
          /\ conn' = IF conn[c] = Closed THEN conn ELSE [conn EXCEPT ![c].done = TRUE]

Serve(c) == \E q \in server[c].asked : Authenticate(c, q) \/ Perform(c, q)

Emit(c) ==
    /\ Reading(c) /\ server[c].is # "gone" /\ server[c].events < MaxEvents
    /\ stream' = [stream EXCEPT ![c] = Append(@, Event)]
    /\ server' = [server EXCEPT ![c].events = @ + 1]
    /\ UNCHANGED <<device, conn>>

\* The gateway, or the network, drops the connection with what it was asked.
Drop(c) ==
    /\ server[c].is # "gone"
    /\ Handled(c, "gone")
    /\ UNCHANGED <<device, conn, stream>>

ClientStep ==
    \E c \in Clients :
       \/ \E op \in Ops : Connect(c, op)
       \/ ReadChallenge(c) \/ ReadResponse(c) \/ SendCall(c) \/ ReadAnswer(c)
       \/ GiveUp(c) \/ ListByCLI(c) \/ Answered(c)
       \/ Serve(c) \/ Emit(c) \/ Drop(c)

(***************************************************************************)
(* Properties                                                              *)
(***************************************************************************)
\* ApproveDevice and RevokeDevice answer a success only when the gateway carried
\* out that very request: the answer to the handshake, which an event may leave
\* unread in the stream, never passes for it.
Honest ==
    \A c \in Clients :
       conn[c].pc = "success" /\ conn[c].op.method # "list" => conn[c].done

\* A list names every device the gateway knew when it began, though the pending
\* and the paired are asked for one after the other and a device may be approved
\* in between.
ListMissesNone ==
    \A c \in Clients :
       conn[c].pc = "success" /\ conn[c].op.method = "list"
          => conn[c].known \subseteq conn[c].devices
================================================================================
