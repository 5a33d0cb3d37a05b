------------------------------- MODULE Network -------------------------------
(***************************************************************************)
(* The TCP connections between the client application and the servers of   *)
(* its list, as both sides use them: two streams of messages, which either *)
(* side may close.  A message is its type and a number that stands for the *)
(* payload.  Messages are read and written whole.                          *)
(***************************************************************************)
EXTENDS Integers, Sequences

CONSTANTS
  NumServers,      \* lines of the client's server list
  MaxConnections,  \* bound: connections the client may make in all
  Scenarios        \* bounds on what the environment does

ASSUME NetworkAssumption == NumServers \in Nat /\ MaxConnections \in Nat

(* For each behaviour: the servers that are up at first, those that may be  *)
(* stopped and killed, how many tweets others post at each server, how many *)
(* requests the user makes, and whether 1000 seconds may pass without a     *)
(* loss.                                                                    *)
ASSUME ScenariosAssumption ==
  Scenarios \subseteq [up : SUBSET (1..NumServers), stops : SUBSET (1..NumServers),
                      kills : SUBSET (1..NumServers),
                      tweets : Nat, requests : Nat, quiet : BOOLEAN]

Servers == 1..NumServers
Connections == 1..MaxConnections

VARIABLES
  server,     \* each server process: "up", "stopping", "joining" or "down"
  at,         \* the server each connection was made to, in order of time
  toServer,   \* for each connection, what is sent and not read yet
  toClient,
  closed,     \* for each connection, the sides that have closed it; and "reset"
              \* when the client has already written to one that the server closed
  scenario    \* the bounds of this behaviour

netVars == <<server, at, toServer, toClient, closed>>

Packet(type, n) == [type |-> type, n |-> n]

NetworkInit ==
  /\ scenario \in Scenarios
  /\ server = [s \in Servers |-> IF s \in scenario.up THEN "up" ELSE "down"]
  /\ at = <<>>
  /\ toServer = [c \in Connections |-> <<>>]
  /\ toClient = [c \in Connections |-> <<>>]
  /\ closed = [c \in Connections |-> {}]

(* connect succeeds while the server has its listening socket.             *)
Listening(s) == server[s] \in {"up", "stopping"}

(* connect, and the first message.                                         *)
Open(s, packet) ==
  /\ at' = Append(at, s)
  /\ toServer' = [toServer EXCEPT ![Len(at) + 1] = <<packet>>]
  /\ UNCHANGED <<server, toClient, closed>>

(* A write to a connection that the other side has closed is lost.         *)
WriteToClient(c, packets) ==
  toClient' = IF "client" \in closed[c] THEN toClient
              ELSE [toClient EXCEPT ![c] = @ \o packets]

(* What is left of a stream once its reader has closed it is dropped.      *)
ClientCloses(cs) ==
  /\ closed' = [c \in Connections |-> closed[c] \cup IF c \in cs THEN {"client"} ELSE {}]
  /\ toClient' = [c \in Connections |-> IF c \in cs THEN <<>> ELSE toClient[c]]
  /\ UNCHANGED <<server, at, toServer>>

ServerCloses(cs) ==
  /\ closed' = [c \in Connections |-> closed[c] \cup IF c \in cs THEN {"server"} ELSE {}]
  /\ toServer' = [c \in Connections |-> IF c \in cs THEN <<>> ELSE toServer[c]]
  /\ UNCHANGED <<at, toClient>>

=============================================================================
