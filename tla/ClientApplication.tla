-------------------------- MODULE ClientApplication --------------------------
(***************************************************************************)
(* The client application of src/src/main_client.cpp and Client.cpp: the   *)
(* main thread reads commands and tweets, and the front-end thread looks   *)
(* for a server, at first and whenever lookForServer is set.  Both use the *)
(* global socket m_socket_num.                                             *)
(*                                                                         *)
(* The threads meet at frontEndCondVar.  The main thread sets              *)
(* lookForServer and notifies WITHOUT frontEndMutex; the front end has the *)
(* mutex from its check of lookForServer until it waits again.             *)
(***************************************************************************)
EXTENDS Network
LOCAL INSTANCE FiniteSetsExt

VARIABLES
  main,           \* where the main thread is, or how the process has ended
  message,        \* the message it sends
  frontEnd,       \* the front-end thread and its variables
  lookForServer,
  sockets,        \* what each descriptor of the process stands for
  m_socket_num,   \* the current one; at first 0, which is stdin
  pollfd,         \* the one the main thread polls
  history         \* requests made and sent, tweets received

clientVars == <<main, message, frontEnd, lookForServer, sockets, m_socket_num, pollfd, history>>

(***************************************************************************)
(* create   client is not set yet         poll    the loop of the          *)
(* watch    m_socket_num is about to be           controller               *)
(*          read for the poll             read    in receive_message       *)
(* first    waits for the first search    send    in send_message          *)
(* lost     waits for a later search                                       *)
(***************************************************************************)
Ends == {"bye", "refused", "stopped", "noServer", "killed"}

ClientRuns == main \notin Ends

(***************************************************************************)
(* predicate   about to take the mutex    connect   tries attempt's server *)
(* checked     found nothing to do        answer    waits for the answer   *)
(* blocked     waits at frontEndCondVar             over awaited           *)
(* ended       the process has ended                                       *)
(***************************************************************************)

MutexFree == frontEnd.place \in {"predicate", "blocked"}

(* A descriptor is closed, a socket without a connection, or a connection. *)
Free == 0
Unconnected == -1
Descriptors == 1..(1 + NumServers * (MaxConnections + 1))

NoMessage == Packet("none", 0)

ClientInit ==
  /\ main = "create"
  /\ message = NoMessage
  /\ frontEnd = [place |-> "predicate", attempt |-> 1, awaited |-> 0,
                 connected |-> FALSE, firstTime |-> TRUE, serverIndex |-> 1]
  /\ lookForServer = TRUE
  /\ sockets = [d \in Descriptors |-> Free]
  /\ m_socket_num = 0
  /\ pollfd = 0
  /\ history = [requests |-> 0,
                sent |-> [c \in Connections |-> <<>>],
                received |-> [c \in Connections |-> <<>>]]

Behind(d) == IF d = 0 THEN Free ELSE sockets[d]

Current == Behind(m_socket_num)

(* socket: while the list of servers is read, its file has descriptor 1.   *)
Socket ==
  Min({d \in Descriptors : sockets[d] = Free /\ (frontEnd.firstTime => d # 1)})

(* exit, or a signal that ends the process: nothing is left of its state.  *)
Exit(how) ==
  /\ main' = how
  /\ message' = NoMessage
  /\ frontEnd' = [frontEnd EXCEPT !.place = "ended", !.attempt = 1, !.awaited = 0]
  /\ lookForServer' = FALSE
  /\ sockets' = [d \in Descriptors |-> Free]
  /\ m_socket_num' = 0
  /\ pollfd' = 0
  /\ ClientCloses(1..Len(at))

-----------------------------------------------------------------------------
(* Front end: client_front_end.                                            *)
FrontEndGoes(from, to) ==
  /\ frontEnd.place = from
  /\ frontEnd' = [frontEnd EXCEPT !.place = to]

Searching ==
  [frontEnd EXCEPT !.place = "connect", !.connected = FALSE,
                   !.attempt = IF frontEnd.firstTime THEN 1 ELSE frontEnd.serverIndex]

Search ==
  /\ frontEnd.place = "predicate"
  /\ frontEnd' = IF lookForServer THEN Searching ELSE [frontEnd EXCEPT !.place = "checked"]
  /\ UNCHANGED <<netVars, main, lookForServer, sockets, m_socket_num>>

(* The mutex is released.                                                  *)
Block ==
  /\ FrontEndGoes("checked", "blocked")
  /\ UNCHANGED <<netVars, main, lookForServer, sockets, m_socket_num>>

(* Mutated form: the wait has no limit.                                    *)
WaitEndsNever == FALSE

(* After 1000 seconds wait_for returns, and whether lookForServer is set   *)
(* does not matter any more.                                               *)
WaitEnds ==
  /\ lookForServer \/ scenario.quiet
  /\ frontEnd.place = "blocked"
  /\ frontEnd' = Searching
  /\ UNCHANGED <<netVars, main, lookForServer, sockets, m_socket_num>>

(* sign_in calls a client that the main thread has not created yet.        *)
NoClient ==
  /\ frontEnd.place = "connect"
  /\ main = "create"
  /\ Exit("killed")

(* sign_in up to its answer.  A socket that cannot connect is not closed.  *)
(* After MaxConnections connections no other attempt succeeds.             *)
Connect ==
  LET s == frontEnd.attempt
  IN  /\ frontEnd.place = "connect"
      /\ main # "create"
      /\ s <= NumServers
      /\ m_socket_num' = Socket
      /\ \/ /\ Listening(s)
            /\ Len(at) < MaxConnections
            /\ Open(s, Packet(IF frontEnd.firstTime THEN "SIGN_IN" ELSE "RECONNECT", 0))
            /\ sockets' = [sockets EXCEPT ![Socket] = Len(at) + 1]
            /\ frontEnd' = [frontEnd EXCEPT !.place = "answer", !.awaited = Len(at) + 1]
         \/ /\ ~Listening(s) \/ Len(at) = MaxConnections
            /\ sockets' = [sockets EXCEPT ![Socket] = Unconnected]
            /\ frontEnd' = [frontEnd EXCEPT !.attempt = s + 1]
            /\ UNCHANGED netVars
      /\ UNCHANGED <<main, lookForServer>>

NoServerFound ==
  /\ frontEnd.place = "connect"
  /\ frontEnd.attempt > NumServers
  /\ Exit("noServer")

SignedIn ==
  /\ frontEnd' = [frontEnd EXCEPT !.place = "predicate", !.awaited = 0, !.connected = TRUE,
                                  !.firstTime = FALSE, !.serverIndex = frontEnd.attempt]
  /\ lookForServer' = FALSE
  /\ UNCHANGED <<main, message, sockets, m_socket_num, pollfd>>

ReadFrom(c) ==
  /\ toClient[c] # <<>>
  /\ toClient' = [toClient EXCEPT ![c] = Tail(@)]
  /\ UNCHANGED <<server, at, toServer, closed>>

AtEnd(c) == toClient[c] = <<>> /\ "server" \in closed[c]

(* wait_server_response.  At the end of the stream, and when the main      *)
(* thread has closed the socket, the message that was not read is all      *)
(* zeros, and zero is ACK.  Another message would go to an inbox, but none *)
(* comes (AnswerFirst).                                                    *)
Answer ==
  LET c == frontEnd.awaited
      type == IF toClient[c] = <<>> THEN "none" ELSE Head(toClient[c]).type
  IN  /\ frontEnd.place = "answer"
      /\ \/ (AtEnd(c) \/ "client" \in closed[c]) /\ SignedIn /\ UNCHANGED netVars
         \/ type = "ACK" /\ SignedIn /\ ReadFrom(c)
         \/ type = "NACK" /\ Exit("refused")
         \/ type = "SHUTDOWN_REQ" /\ Exit("stopped")
      /\ UNCHANGED history

FrontEndStep ==
  /\ ClientRuns
  /\ \/ /\ Search \/ Block \/ WaitEnds \/ Connect
        /\ UNCHANGED <<message, pollfd, history>>
     \/ /\ NoClient \/ NoServerFound
        /\ UNCHANGED history
     \/ Answer

-----------------------------------------------------------------------------
(* Main thread.                                                            *)
MainGoes(from, to) ==
  /\ main = from
  /\ main' = to

Start ==
  /\ \/ MainGoes("create", "watch") /\ UNCHANGED pollfd
     \/ MainGoes("watch", "first") /\ pollfd' = m_socket_num
  /\ UNCHANGED <<netVars, message, frontEnd, lookForServer, sockets, history>>

WaitFirst ==
  /\ MainGoes("first", "poll")
  /\ MutexFree
  /\ ~lookForServer
  /\ UNCHANGED <<netVars, message, frontEnd, lookForServer, sockets, pollfd, history>>

(* A command from stdin, or its end.                                       *)
Command(type) ==
  /\ MainGoes("poll", "send")
  /\ history.requests < scenario.requests
  /\ history' = [history EXCEPT !.requests = @ + 1]
  /\ message' = Packet(type, history.requests + 1)
  /\ UNCHANGED <<netVars, frontEnd, lookForServer, sockets, pollfd>>

EndOfInput ==
  /\ main = "poll"
  /\ Exit("bye")
  /\ UNCHANGED history

(* Mutated form: nothing is sent.                                          *)
check_server_livenessNot == FALSE

(* Every seven seconds.                                                    *)
check_server_liveness ==
  /\ MainGoes("poll", "send")
  /\ message' = Packet("KEEP_ALIVE", 0)
  /\ UNCHANGED <<netVars, frontEnd, lookForServer, sockets, pollfd, history>>

(* poll reports what it watches; what is read is the current socket.       *)
PollReadable ==
  /\ Behind(pollfd) \in Connections
  /\ toClient[Behind(pollfd)] # <<>> \/ "server" \in closed[Behind(pollfd)]
  /\ MainGoes("poll", "read")
  /\ UNCHANGED <<netVars, message, frontEnd, lookForServer, sockets, pollfd, history>>

client_receiver ==
  /\ main = "read"
  /\ \/ /\ Current \in Connections
        /\ toClient[Current] # <<>>
        /\ LET packet == Head(toClient[Current])
           IN  \/ /\ packet.type = "SHUTDOWN_REQ"
                  /\ Exit("stopped")
                  /\ UNCHANGED history
               \/ /\ packet.type # "SHUTDOWN_REQ"
                  /\ history' = [history EXCEPT !.received[Current] =
                                   IF packet.type = "UPDATE" THEN Append(@, packet) ELSE @]
                  /\ main' = "poll"
                  /\ ReadFrom(Current)
                  /\ UNCHANGED <<message, frontEnd, lookForServer, sockets, m_socket_num, pollfd>>
     \/ /\ Current \in Connections => AtEnd(Current)
        /\ main' = "poll"
        /\ UNCHANGED <<netVars, message, frontEnd, lookForServer, sockets, m_socket_num, pollfd,
                       history>>

(* The current socket is closed and the front end told to look for a       *)
(* server.  A connection that the front end is reading lasts until then.   *)
LoseServer(retry) ==
  /\ main' = "lost"
  /\ message' = retry
  /\ \E closing \in {{Current}, {Current} \ {frontEnd.awaited}} :
       ClientCloses(closing \cap Connections)
  /\ sockets' = [d \in Descriptors |-> IF d = m_socket_num THEN Free ELSE sockets[d]]
  /\ lookForServer' = TRUE
  /\ frontEnd' = IF frontEnd.place = "blocked" THEN [frontEnd EXCEPT !.place = "predicate"]
                 ELSE frontEnd
  /\ UNCHANGED <<m_socket_num, pollfd, history>>

(* poll reports an error of the socket it watches.                         *)
PollHangup ==
  /\ main = "poll"
  /\ Behind(pollfd) = Unconnected
  /\ LoseServer(NoMessage)

(* send_message.                                                           *)
SendDelivers ==
  /\ MainGoes("send", "poll")
  /\ Current \in Connections
  /\ "server" \notin closed[Current]
  /\ toServer' = [toServer EXCEPT ![Current] = Append(@, message)]
  /\ history' = [history EXCEPT !.sent[Current] =
                   IF message.type = "KEEP_ALIVE" THEN @ ELSE Append(@, message)]
  /\ message' = NoMessage
  /\ UNCHANGED <<server, at, toClient, closed, frontEnd, lookForServer, sockets, pollfd>>

(* The server has closed the connection, or the socket is closed.          *)
Disconnected == Current \in Connections => "server" \in closed[Current]

(* The first message written to a connection that the server has closed is *)
(* lost, unless the answer to it is seen in SO_ERROR; FOLLOW does not look.*)
(* Of a closed descriptor SO_ERROR says nothing: error_code is not set.    *)
SendIsLost ==
  /\ MainGoes("send", "poll")
  /\ Disconnected
  /\ Current # Unconnected
  /\ Current \in Connections => "reset" \notin closed[Current]
  /\ closed' = [c \in Connections |->
                 closed[c] \cup IF c = Current THEN {"reset"} ELSE {}]
  /\ message' = NoMessage
  /\ UNCHANGED <<server, at, toServer, toClient, frontEnd, lookForServer, sockets, pollfd, history>>

SendFails ==
  /\ main = "send"
  /\ Disconnected
  /\ Current # Unconnected
  /\ Current \in Connections => "reset" \notin closed[Current]
  /\ message.type # "FOLLOW"
  /\ LoseServer(message)

(* SIGPIPE.                                                                *)
SendKills ==
  /\ main = "send"
  /\ Disconnected
  /\ Current # Free
  /\ Exit("killed")
  /\ UNCHANGED history

(* The search is over, or the 1000 seconds are.                            *)
WaitLost ==
  /\ MutexFree
  /\ ~lookForServer \/ frontEnd.place = "blocked"
  /\ MainGoes("lost", IF message = NoMessage THEN "poll" ELSE "send")
  /\ UNCHANGED <<netVars, message, frontEnd, lookForServer, sockets, pollfd, history>>

MainStep ==
  \/ /\ Start \/ WaitFirst \/ PollReadable \/ SendDelivers \/ SendIsLost \/ WaitLost
     /\ UNCHANGED m_socket_num
  \/ client_receiver \/ PollHangup \/ SendFails \/ SendKills

UserStep ==
  \/ EndOfInput
  \/ \E type \in {"UPDATE", "FOLLOW"} : Command(type) /\ UNCHANGED m_socket_num

KeepAliveStep == check_server_liveness /\ UNCHANGED m_socket_num

=============================================================================
