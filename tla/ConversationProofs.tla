------------------------- MODULE ConversationProofs -------------------------
(***************************************************************************)
(* Requests and tweets arrive, in order and once, for any number of        *)
(* servers, connections and requests, and whatever stops when.             *)
(***************************************************************************)
EXTENDS Conversation, DataLemmas
LOCAL INSTANCE SequencesExt
LOCAL INSTANCE FiniteSetsExt

-----------------------------------------------------------------------------
(* Types.                                                                  *)
Types == {"none", "SIGN_IN", "RECONNECT", "UPDATE", "FOLLOW", "KEEP_ALIVE",
          "ACK", "NACK", "SHUTDOWN_REQ"}

Packets == [type : Types, n : Nat]

Peers ==
  [connector : {"none", "receive", "send", "handle", "sign_in", "join", "closed"},
   signedIn : BOOLEAN, clientShutdownNotice : BOOLEAN,
   incomingPkt : Packets,
   incomingMessages : Seq(Packets), incomingQueueEmpty : BOOLEAN,
   outgoingMessages : Seq(Packets), outgoingQueueEmpty : BOOLEAN,
   speaker : {"top", "asleep", "work", "stopped"}, next : Nat,
   listener : {"pitstop", "forward", "stopped"}, outTweets : Seq(Packets),
   executed : Seq(Packets), forwarded : Seq(Packets)]

NetworkTyped ==
  /\ server \in [Servers -> {"up", "stopping", "joining", "down"}]
  /\ at \in Seq(Servers) /\ Len(at) <= MaxConnections
  /\ toServer \in [Connections -> Seq(Packets)]
  /\ toClient \in [Connections -> Seq(Packets)]
  /\ closed \in [Connections -> SUBSET {"client", "server", "reset"}]
  /\ scenario \in Scenarios

ServersTyped ==
  /\ peer \in [Connections -> Peers]
  /\ posted \in [Servers -> Nat] /\ fetched \in [Servers -> Nat]
  /\ \A s \in Servers : fetched[s] <= posted[s]

Messages == {p \in Packets : p.type \in {"UPDATE", "FOLLOW", "KEEP_ALIVE"}}

FrontEnds ==
  [place : {"predicate", "checked", "blocked", "connect", "answer", "ended"},
   attempt : 1..(NumServers + 1), awaited : Nat, connected : BOOLEAN, firstTime : BOOLEAN,
   serverIndex : 1..(NumServers + 1)]

Histories == [requests : Nat, sent : [Connections -> Seq(Packets)],
              received : [Connections -> Seq(Packets)]]

ClientTyped ==
  /\ main \in {"create", "watch", "first", "poll", "read", "send", "lost"} \cup Ends
  /\ message \in Messages \cup {NoMessage}
  /\ frontEnd \in FrontEnds
  /\ lookForServer \in BOOLEAN
  /\ sockets \in [Descriptors -> {Free, Unconnected} \cup 1..Len(at)]
  /\ m_socket_num \in {0} \cup Descriptors
  /\ pollfd \in {0} \cup Descriptors
  /\ history \in Histories

Typed == NetworkTyped /\ ServersTyped /\ ClientTyped

-----------------------------------------------------------------------------
(* The invariant of the client.  As long as it has not been answered for   *)
(* the first time its main thread waits; it writes and reads nothing.      *)
WaitsAtFirst ==
  ClientRuns /\ frontEnd.firstTime => main \in {"create", "watch", "first"} /\ lookForServer

(* The front end waits for the answer over the current socket, which the   *)
(* main thread may have closed; it does not count as connected.            *)
SearchOK ==
  /\ frontEnd.place \in {"connect", "answer"} => ~frontEnd.connected
  /\ frontEnd.place = "answer" =>
       frontEnd.awaited \in 1..Len(at) /\ Current \in {frontEnd.awaited, Free}

(* Descriptors suffice: a search uses up one for each server, at most.     *)
Used == {d \in Descriptors : sockets[d] # Free}
Tried == IF frontEnd.place = "connect" THEN frontEnd.attempt - 1 ELSE 0
SocketsSuffice == Cardinality(Used) <= NumServers * Len(at) + Tried

ClientOK ==
  /\ main = "send" => message # NoMessage
  /\ ~ClientRuns => m_socket_num = 0 /\ frontEnd.place = "ended"
  /\ WaitsAtFirst /\ SearchOK /\ SocketsSuffice

-----------------------------------------------------------------------------
(* The invariant of a connection.  What the connector has in hands.        *)
Up(c) == Made(c) /\ server[at[c]] = "up"

ConnectorOK(c) ==
  /\ peer[c].connector \in {"none", "receive"} =>
       peer[c].incomingPkt = NoPacket /\ ~peer[c].clientShutdownNotice
  /\ peer[c].clientShutdownNotice => peer[c].incomingPkt = NoPacket
  /\ peer[c].connector = "handle" /\ Up(c) => peer[c].incomingPkt # NoPacket
  /\ peer[c].connector = "sign_in" => peer[c].incomingPkt.type = "SIGN_IN"
  /\ peer[c].connector = "join" => peer[c].clientShutdownNotice
  /\ "server" \in closed[c] => peer[c].connector = "closed"

(* The speaker begins at the first packet, and the listener has tweets in  *)
(* hands between fetching and forwarding only.                             *)
OthersOK(c) ==
  /\ peer[c].next \in 1..(Len(peer[c].incomingMessages) + 1)
  /\ peer[c].speaker # "work" => peer[c].next = 1
  /\ peer[c].listener # "forward" => peer[c].outTweets = <<>>
  /\ \A k \in 1..Len(peer[c].outTweets) : peer[c].outTweets[k].type = "UPDATE"

(* Before the sign-in nothing is executed or forwarded, and what the       *)
(* client may read is a refusal.                                           *)
Refusals(packets) == \A k \in 1..Len(packets) : packets[k].type \in {"NACK", "SHUTDOWN_REQ"}

NothingYet(c) ==
  /\ peer[c].executed = <<>> /\ peer[c].incomingMessages = <<>>
  /\ peer[c].outgoingMessages = <<>> /\ peer[c].forwarded = <<>>
  /\ peer[c].listener # "forward"

SignInOK(c) ==
  ~peer[c].signedIn =>
    /\ NothingYet(c)
    /\ "server" \notin closed[c] => Refusals(toClient[c]) /\ history.received[c] = <<>>

Untouched(c) ==
  /\ peer[c] = NewPeer /\ toServer[c] = <<>> /\ toClient[c] = <<>> /\ closed[c] = {}
  /\ history.sent[c] = <<>> /\ history.received[c] = <<>>

(* A sign-in that is not answered is all there is on its connection, and   *)
(* the client does nothing but wait for the answer.                        *)
Asking(c) ==
  \/ peer[c].incomingPkt.type = "SIGN_IN"
  \/ \E k \in 1..Len(toServer[c]) : toServer[c][k].type = "SIGN_IN"

AskedOnly(c) ==
  /\ history.sent[c] = <<>> /\ peer[c].executed = <<>> /\ peer[c].incomingMessages = <<>>
  /\ toClient[c] = <<>> /\ "server" \notin closed[c]
  /\ \/ /\ peer[c].connector \in {"none", "receive"} /\ Len(toServer[c]) = 1
        /\ ~peer[c].signedIn
     \/ /\ peer[c].connector \in {"send", "handle", "sign_in"} /\ toServer[c] = <<>>
        /\ peer[c].connector = "sign_in" \/ ~peer[c].signedIn

AskingOK(c) ==
  Asking(c) =>
    /\ AskedOnly(c)
    /\ ClientRuns => /\ frontEnd.firstTime /\ frontEnd.place = "answer"
                     /\ frontEnd.awaited = c /\ "client" \notin closed[c]

(* The connection that the front end waits for: after the first time it    *)
(* gets refusals only; and the first packet, if there is one, is an        *)
(* answer.  Otherwise the answer is still to come.                         *)
AwaitedOK(c) ==
  frontEnd.place = "answer" /\ frontEnd.awaited = c =>
    /\ ~frontEnd.firstTime => ~peer[c].signedIn /\ ~Asking(c) /\ Refusals(toClient[c])
    /\ toClient[c] # <<>> => toClient[c][1].type \in {"ACK", "NACK", "SHUTDOWN_REQ"}
    /\ toClient[c] = <<>> /\ peer[c].signedIn /\ closed[c] \cap {"client", "server"} = {} =>
         Asking(c)

CurrentOK(c) ==
  Current = c =>
    /\ "client" \notin closed[c]
    /\ frontEnd.connected /\ ~lookForServer /\ frontEnd.place # "answer" =>
         peer[c].signedIn \/ "server" \in closed[c]

(* What has been queued for the speaker and executed, and what is coming.  *)
Queued(c) == SubSeq(peer[c].incomingMessages, peer[c].next, Len(peer[c].incomingMessages))
Done(c) == peer[c].executed \o Queued(c)
Coming(c) == Requests(<<peer[c].incomingPkt>>) \o Requests(toServer[c])

RequestsOK(c) ==
  /\ \E rest \in Seq(Packets) : Done(c) \o rest = history.sent[c]
  /\ Working(c) => Done(c) \o Coming(c) = history.sent[c]

(* The tweets on their way, from the client back to the listener.          *)
Flow(c) == Tweets(toClient[c]) \o (Tweets(peer[c].outgoingMessages) \o peer[c].outTweets)

TweetsOK(c) ==
  "client" \notin closed[c] /\ Working(c) =>
    history.received[c] \o Flow(c) = peer[c].forwarded

ConnectionOK(c) ==
  /\ ~Made(c) => Untouched(c)
  /\ ConnectorOK(c) /\ OthersOK(c) /\ SignInOK(c)
  /\ AskingOK(c) /\ AwaitedOK(c) /\ CurrentOK(c)
  /\ RequestsOK(c) /\ TweetsOK(c)

ConvInv == Typed /\ ClientOK /\ \A c \in Connections : ConnectionOK(c)

-----------------------------------------------------------------------------
(* A connection that a step does not touch.                                *)
LEMMA ConnectionKept ==
  ASSUME NEW c \in Connections, ConnectionOK(c),
         peer'[c] = peer[c], toServer'[c] = toServer[c], toClient'[c] = toClient[c],
         closed'[c] = closed[c], UNCHANGED <<at, clientVars>>, Up(c)' => Up(c)
  PROVE  ConnectionOK(c)'
<1>1. (Working(c))' => Working(c)
  BY DEF Working, Up, Made
<1>2. Asking(c)' <=> Asking(c)
  BY DEF Asking
<1>3. Current' = Current
  BY DEF Current, Behind, clientVars, Free
<1>4. (~Made(c) => Untouched(c))'
  BY DEF ConnectionOK, Made, Untouched, clientVars
<1>5. ConnectorOK(c)' /\ OthersOK(c)' /\ SignInOK(c)'
  BY DEF ConnectionOK, ConnectorOK, OthersOK, SignInOK, NothingYet, Refusals, clientVars
<1>6. AskingOK(c)' /\ AwaitedOK(c)' /\ CurrentOK(c)'
  BY <1>2, <1>3 DEF ConnectionOK, AskingOK, AskedOnly, AwaitedOK, CurrentOK, Refusals, ClientRuns, clientVars
<1>7. RequestsOK(c)' /\ TweetsOK(c)'
  BY <1>1 DEF ConnectionOK, RequestsOK, TweetsOK, Done, Coming, Queued, Flow, clientVars, Requests, Tweets
<1> QED
  BY <1>4, <1>5, <1>6, <1>7 DEF ConnectionOK

-----------------------------------------------------------------------------
(* Streams of packets.                                                     *)
LEMMA EmptyStream ==
  /\ <<>> \in Seq(Packets) /\ Requests(<<>>) = <<>> /\ Tweets(<<>>) = <<>>
  /\ Len(<<>>) = 0
<1> DEFINE none == <<>>
<1>1. none \in Seq(Packets) /\ Len(none) = 0
  BY EmptySeq
<1> HIDE DEF none
<1>2. ASSUME NEW types
      PROVE  Selected(none, types) = <<>>
  <2>1. \A i \in 1..Len(none) : none[i].type \notin types
    BY <1>1
  <2> QED
    BY <1>1, <2>1, SelectedNone
<1> QED
  BY <1>1, <1>2 DEF none, Requests, Tweets

LEMMA StreamOfConcat ==
  ASSUME NEW q \in Seq(Packets), NEW p \in Seq(Packets)
  PROVE  /\ q \o p \in Seq(Packets)
         /\ Requests(q) \in Seq(Packets) /\ Tweets(q) \in Seq(Packets)
         /\ Requests(q \o p) = Requests(q) \o Requests(p)
         /\ Tweets(q \o p) = Tweets(q) \o Tweets(p)
<1>1. q \o p \in Seq(Packets)
  BY ConcatProperties
<1>2. ASSUME NEW types
      PROVE  /\ Selected(q, types) \in Seq(Packets)
             /\ Selected(q \o p, types) = Selected(q, types) \o Selected(p, types)
  <2>1. Selected(q, types) \in Seq(Packets)
    BY SelectedAtRank
  <2>2. Selected(q \o p, types) = Selected(q, types) \o Selected(p, types)
    BY SelectedOfConcat
  <2> QED
    BY <2>1, <2>2
<1> QED
  BY <1>1, <1>2, Zenon DEF Requests, Tweets

LEMMA StreamOfOne ==
  ASSUME NEW x \in Packets
  PROVE  /\ <<x>> \in Seq(Packets)
         /\ Requests(<<x>>) = IF x.type \in {"UPDATE", "FOLLOW"} THEN <<x>> ELSE <<>>
         /\ Tweets(<<x>>) = IF x.type = "UPDATE" THEN <<x>> ELSE <<>>
<1> DEFINE q == <<x>>
<1>1. q \in Seq(Packets) /\ Len(q) = 1 /\ \A k \in 1..Len(q) : q[k] = x
  OBVIOUS
<1> HIDE DEF q
<1>2. ASSUME NEW types
      PROVE  Selected(q, types) = IF x.type \in types THEN q ELSE <<>>
  <2>1. CASE x.type \in types
    BY <1>1, <2>1, SelectedAll
  <2>2. CASE x.type \notin types
    BY <1>1, <2>2, SelectedNone
  <2> QED
    BY <2>1, <2>2
<1> QED
  BY <1>1, <1>2 DEF q, Requests, Tweets

LEMMA HeadAndTail ==
  ASSUME NEW q \in Seq(Packets), q # <<>>
  PROVE  /\ Head(q) \in Packets /\ Tail(q) \in Seq(Packets) /\ q = <<Head(q)>> \o Tail(q)
         /\ Head(q) = q[1] /\ Len(q) \in Nat \ {0} /\ Len(Tail(q)) = Len(q) - 1
         /\ \A k \in 1..Len(Tail(q)) : Tail(q)[k] = q[k + 1]
         /\ Len(q) = 1 => Tail(q) = <<>>
<1>1. Len(q) \in Nat \ {0}
  BY EmptySeq
<1>2. /\ Head(q) \in Packets /\ Tail(q) \in Seq(Packets) /\ Len(Tail(q)) = Len(q) - 1
      /\ \A k \in 1..Len(Tail(q)) : Tail(q)[k] = q[k + 1]
  BY HeadTailProperties
<1>3. SubSeq(q, 1, Len(q)) = <<q[1]>> \o SubSeq(q, 2, Len(q))
  BY <1>1, SubSeqRecursiveFirst
<1>4. SubSeq(q, 1, Len(q)) = q /\ SubSeq(q, 2, Len(q)) = Tail(q)
  BY SubSeqFull, TailIsSubSeq
<1>5. Head(q) = q[1]
  OBVIOUS
<1> DEFINE r == Tail(q)
<1>6. r \in Seq(Packets) /\ (Len(q) = 1 => Len(r) = 0)
  BY <1>2
<1> HIDE DEF r
<1>7. Len(q) = 1 => r = <<>>
  BY <1>6, EmptySeq
<1> QED
  BY <1>1, <1>2, <1>3, <1>4, <1>5, <1>7 DEF r

LEMMA StreamOfHead ==
  ASSUME NEW q \in Seq(Packets), q # <<>>
  PROVE  /\ Requests(q) = Requests(<<Head(q)>>) \o Requests(Tail(q))
         /\ Tweets(q) = Tweets(<<Head(q)>>) \o Tweets(Tail(q))
<1> DEFINE o == <<Head(q)>>
           r == Tail(q)
<1>1. o \in Seq(Packets) /\ r \in Seq(Packets) /\ q = o \o r
  BY HeadAndTail, StreamOfOne
<1> HIDE DEF o, r
<1>2. Requests(o \o r) = Requests(o) \o Requests(r) /\ Tweets(o \o r) = Tweets(o) \o Tweets(r)
  BY <1>1, StreamOfConcat
<1> QED
  BY <1>1, <1>2 DEF o, r

LEMMA Appended ==
  ASSUME NEW q \in Seq(Packets), NEW x \in Packets
  PROVE  Append(q, x) \in Seq(Packets) /\ Append(q, x) = q \o <<x>>
  BY AppendProperties, AppendIsConcat

LEMMA Regroup ==
  ASSUME NEW q \in Seq(Packets), NEW p \in Seq(Packets), NEW r \in Seq(Packets)
  PROVE  (q \o p) \o r = q \o (p \o r)
  BY ConcatAssociative

(* Concatenation, opaque, so that the provers only regroup.               *)
Join(q, p) == q \o p

LEMMA JoinRegroups ==
  /\ \A q, p \in Seq(Packets) : Join(q, p) \in Seq(Packets)
  /\ \A q, p, r \in Seq(Packets) : Join(Join(q, p), r) = Join(q, Join(p, r))
<1>1. ASSUME NEW q \in Seq(Packets), NEW p \in Seq(Packets)
      PROVE  Join(q, p) \in Seq(Packets)
  BY ConcatProperties DEF Join
<1>2. ASSUME NEW q \in Seq(Packets), NEW p \in Seq(Packets), NEW r \in Seq(Packets)
      PROVE  Join(Join(q, p), r) = Join(q, Join(p, r))
  BY Regroup DEF Join
<1> QED
  BY <1>1, <1>2

LEMMA RegroupFour ==
  \A a, b, s, r \in Seq(Packets) :
     /\ Join(Join(a, b), Join(s, r)) = Join(a, Join(b, Join(s, r)))
     /\ Join(Join(a, Join(b, s)), r) = Join(a, Join(b, Join(s, r)))
  BY JoinRegroups

LEMMA NothingAdded ==
  ASSUME NEW q \in Seq(Packets)
  PROVE  q \o <<>> = q /\ <<>> \o q = q
  BY ConcatEmptySeq

-----------------------------------------------------------------------------
(* The steps of a connection.  They touch no other connection, and not the *)
(* client.                                                                 *)
ConnectionOnly(c) ==
  /\ UNCHANGED <<server, at>>
  /\ peer' \in [Connections -> Peers]
  /\ toServer' \in [Connections -> Seq(Packets)]
  /\ toClient' \in [Connections -> Seq(Packets)]
  /\ closed' \in [Connections -> SUBSET {"client", "server", "reset"}]
  /\ \A d \in Connections \ {c} :
       /\ peer'[d] = peer[d] /\ toServer'[d] = toServer[d]
       /\ toClient'[d] = toClient[d] /\ closed'[d] = closed[d]

LEMMA ConnectionTypes ==
  ASSUME NetworkTyped, ServersTyped, NEW c \in Connections
  PROVE  /\ peer[c] \in Peers
         /\ peer[c].incomingPkt \in Packets
         /\ peer[c].incomingMessages \in Seq(Packets) /\ peer[c].outgoingMessages \in Seq(Packets)
         /\ peer[c].outTweets \in Seq(Packets)
         /\ peer[c].executed \in Seq(Packets) /\ peer[c].forwarded \in Seq(Packets)
         /\ peer[c].next \in Nat
         /\ toServer[c] \in Seq(Packets) /\ toClient[c] \in Seq(Packets)
         /\ closed[c] \in SUBSET {"client", "server", "reset"}
         /\ NoPacket \in Packets /\ NoPacket.type = "none"
<1>1. /\ peer[c] \in Peers /\ toServer[c] \in Seq(Packets) /\ toClient[c] \in Seq(Packets)
      /\ closed[c] \in SUBSET {"client", "server", "reset"}
  BY DEF NetworkTyped, ServersTyped
<1>2. NoPacket \in Packets /\ NoPacket.type = "none"
  BY DEF NoPacket, Packet, Packets, Types
<1> QED
  BY <1>1, <1>2 DEF Peers

(* A function changed at one place.                                        *)
LEMMA Updated ==
  ASSUME NEW D, NEW S, NEW f \in [D -> S], NEW c \in D, NEW x \in S,
         NEW g, g = [f EXCEPT ![c] = x]
  PROVE  g \in [D -> S] /\ g[c] = x /\ \A d \in D \ {c} : g[d] = f[d]
  OBVIOUS

(* What most steps leave alone.                                            *)
KeepsSession(c) == /\ peer'[c].signedIn = peer[c].signedIn
                   /\ peer'[c].clientShutdownNotice = peer[c].clientShutdownNotice
KeepsRequests(c) == /\ peer'[c].executed = peer[c].executed
                    /\ peer'[c].incomingMessages = peer[c].incomingMessages
                    /\ peer'[c].next = peer[c].next
KeepsOutgoing(c) == peer'[c].outgoingMessages = peer[c].outgoingMessages
KeepsTweets(c) == /\ peer'[c].outTweets = peer[c].outTweets
                  /\ peer'[c].forwarded = peer[c].forwarded
KeepsThreads(c) == /\ peer'[c].speaker = peer[c].speaker
                   /\ peer'[c].listener = peer[c].listener
KeepsConnector(c) == /\ peer'[c].connector = peer[c].connector
                     /\ peer'[c].incomingPkt = peer[c].incomingPkt

(* What the front end waits for is the same.                               *)
LEMMA ClientWaitsOn ==
  ASSUME NEW c \in Connections, AskingOK(c), AwaitedOK(c), CurrentOK(c), UNCHANGED clientVars,
         toClient'[c] = toClient[c], closed'[c] = closed[c],
         peer'[c].signedIn = peer[c].signedIn,
         Asking(c)' <=> Asking(c), Asking(c) /\ AskedOnly(c) => AskedOnly(c)'
  PROVE  AskingOK(c)' /\ AwaitedOK(c)' /\ CurrentOK(c)'
<1>1. Current' = Current
  BY DEF Current, Behind, clientVars, Free
<1> QED
  BY <1>1 DEF AskingOK, AwaitedOK, CurrentOK, Refusals, ClientRuns, clientVars

LEMMA ReceivePreserves ==
  ASSUME Typed, NEW c \in Connections, Made(c), ConnectionOK(c), UNCHANGED clientVars,
         Receive(c)
  PROVE  ConnectionOnly(c) /\ ConnectionOK(c)'
<1> DEFINE q == toServer[c]
           p == [peer[c] EXCEPT !.connector = "send", !.incomingPkt = Head(q)]
<1>1. /\ q # <<>> /\ peer[c].connector = "receive"
      /\ peer' = [peer EXCEPT ![c] = p] /\ toServer' = [toServer EXCEPT ![c] = Tail(q)]
      /\ UNCHANGED <<server, at, toClient, closed>>
  BY DEF Receive
<1>2. q \in Seq(Packets) /\ peer[c] \in Peers
  BY ConnectionTypes DEF Typed
<1>3. /\ Head(q) \in Packets /\ Tail(q) \in Seq(Packets) /\ q = <<Head(q)>> \o Tail(q)
      /\ Head(q) = q[1] /\ Len(q) \in Nat \ {0} /\ Len(Tail(q)) = Len(q) - 1
      /\ \A k \in 1..Len(Tail(q)) : Tail(q)[k] = q[k + 1]
      /\ Len(q) = 1 => Tail(q) = <<>>
  BY <1>1, <1>2, HeadAndTail
<1>4. p \in Peers
  BY <1>2, <1>3 DEF Peers
<1>5. ConnectionOnly(c) /\ peer'[c] = p /\ toServer'[c] = Tail(q)
  <2> HIDE DEF p, q
  <2> QED
    BY <1>1, <1>3, <1>4, Updated DEF ConnectionOnly, Typed, NetworkTyped, ServersTyped
<1>6. /\ KeepsSession(c) /\ KeepsRequests(c) /\ KeepsOutgoing(c) /\ KeepsTweets(c) /\ KeepsThreads(c)
      /\ peer'[c].connector = "send" /\ peer'[c].incomingPkt = Head(q)
  BY <1>2, <1>5 DEF KeepsSession, KeepsRequests, KeepsOutgoing, KeepsTweets, KeepsThreads, Peers
<1>7. /\ peer[c].incomingPkt = NoPacket /\ ~peer[c].clientShutdownNotice
      /\ "server" \notin closed[c] /\ NoPacket.type = "none" /\ NoPacket \in Packets
  BY <1>1, ConnectionTypes DEF ConnectionOK, ConnectorOK, Typed
<1> HIDE DEF p
<1>8. ConnectorOK(c)' /\ OthersOK(c)' /\ SignInOK(c)' /\ (~Made(c) => Untouched(c))'
  BY <1>1, <1>6, <1>7 DEF ConnectionOK, ConnectorOK, OthersOK, SignInOK, NothingYet, Refusals,
       clientVars, KeepsSession, KeepsRequests, KeepsOutgoing, KeepsTweets, KeepsThreads, Made
<1>9. Asking(c)' <=> Asking(c)
  <2>1. Asking(c) <=> \E k \in 1..Len(q) : q[k].type = "SIGN_IN"
    BY <1>7 DEF Asking
  <2>2. Asking(c)' <=> \/ q[1].type = "SIGN_IN"
                      \/ \E k \in 1..Len(Tail(q)) : q[k + 1].type = "SIGN_IN"
    BY <1>3, <1>5, <1>6 DEF Asking
  <2>3. \A k \in 1..Len(q) : k = 1 \/ (k - 1 \in 1..Len(Tail(q)) /\ k = (k - 1) + 1)
    BY <1>3
  <2>4. 1 \in 1..Len(q) /\ \A k \in 1..Len(Tail(q)) : k + 1 \in 1..Len(q)
    BY <1>3
  <2> QED
    BY <2>1, <2>2, <2>3, <2>4
<1>10. AskedOnly(c) => AskedOnly(c)'
  BY <1>1, <1>3, <1>5, <1>6 DEF AskedOnly, clientVars, KeepsSession, KeepsRequests
<1>11. AskingOK(c)' /\ AwaitedOK(c)' /\ CurrentOK(c)'
  BY <1>1, <1>6, <1>9, <1>10, ClientWaitsOn DEF ConnectionOK, KeepsSession
<1>12. Coming(c)' = Coming(c)
  <2>1. /\ Requests(q) = Requests(<<Head(q)>>) \o Requests(Tail(q))
        /\ Requests(q) \in Seq(Packets) /\ Requests(<<NoPacket>>) = <<>>
    BY <1>1, <1>2, <1>7, StreamOfHead, StreamOfConcat, StreamOfOne
  <2>2. Coming(c) = Requests(<<NoPacket>>) \o Requests(q)
    BY <1>7 DEF Coming
  <2>3. Coming(c)' = Requests(<<Head(q)>>) \o Requests(Tail(q))
    BY <1>5, <1>6 DEF Coming
  <2> QED
    BY <2>1, <2>2, <2>3, NothingAdded
<1>13. /\ Done(c)' = Done(c) /\ Flow(c)' = Flow(c) /\ Working(c)' = Working(c)
       /\ peer'[c].forwarded = peer[c].forwarded
  BY <1>1, <1>6 DEF Done, Queued, Flow, Tweets, Working, Made, KeepsSession, KeepsRequests,
       KeepsOutgoing, KeepsTweets
<1>14. RequestsOK(c)' /\ TweetsOK(c)'
  BY <1>1, <1>12, <1>13 DEF ConnectionOK, RequestsOK, TweetsOK, clientVars
<1> QED
  BY <1>5, <1>8, <1>11, <1>14 DEF ConnectionOK

-----------------------------------------------------------------------------
(* A step of the server's threads that changes nothing on the network.     *)
LEMMA PeerStep ==
  ASSUME Typed, NEW c \in Connections, NEW p \in Peers, UNCHANGED netVars,
         peer' = [peer EXCEPT ![c] = p]
  PROVE  /\ ConnectionOnly(c) /\ peer'[c] = p
         /\ toServer'[c] = toServer[c] /\ toClient'[c] = toClient[c] /\ closed'[c] = closed[c]
<1>1. UNCHANGED <<server, at, toServer, toClient, closed>>
  BY DEF netVars
<1>2. peer' \in [Connections -> Peers] /\ peer'[c] = p
      /\ \A d \in Connections \ {c} : peer'[d] = peer[d]
  BY Updated DEF Typed, ServersTyped
<1> QED
  BY <1>1, <1>2 DEF ConnectionOnly, Typed, NetworkTyped

(* Such a step of the speaker or the listener.                             *)
LEMMA WorkerStep ==
  ASSUME NEW c \in Connections, Made(c), ConnectionOK(c), UNCHANGED <<clientVars, netVars>>,
         KeepsConnector(c), KeepsSession(c), OthersOK(c)',
         ~peer[c].signedIn => NothingYet(c)',
         AskedOnly(c) => /\ peer'[c].executed = peer[c].executed
                         /\ peer'[c].incomingMessages = peer[c].incomingMessages,
         Done(c)' = Done(c),
         \/ Flow(c)' = Flow(c) /\ peer'[c].forwarded = peer[c].forwarded
         \/ \E q \in Seq(Packets) : /\ Flow(c) \in Seq(Packets) /\ Flow(c)' = Flow(c) \o q
                                    /\ peer'[c].forwarded = peer[c].forwarded \o q,
         history.received[c] \in Seq(Packets)
  PROVE  ConnectionOK(c)'
<1>1. UNCHANGED <<server, at, toServer, toClient, closed>>
  BY DEF netVars
<1>2. (~Made(c) => Untouched(c))' /\ ConnectorOK(c)' /\ SignInOK(c)'
  BY <1>1 DEF ConnectionOK, ConnectorOK, SignInOK, Refusals, clientVars, KeepsConnector, KeepsSession,
       Made, Up
<1>3. (Asking(c)' <=> Asking(c)) /\ (AskedOnly(c) => AskedOnly(c)')
  BY <1>1 DEF Asking, AskedOnly, KeepsConnector, KeepsSession, clientVars
<1>4. AskingOK(c)' /\ AwaitedOK(c)' /\ CurrentOK(c)'
  BY <1>1, <1>3, ClientWaitsOn DEF ConnectionOK, KeepsSession
<1>5. Coming(c)' = Coming(c) /\ Working(c)' = Working(c)
  BY <1>1 DEF Coming, Requests, Working, Made, KeepsConnector, KeepsSession
<1>6. RequestsOK(c)'
  BY <1>5 DEF ConnectionOK, RequestsOK, clientVars
<1>7. TweetsOK(c)'
  <2>1. CASE Flow(c)' = Flow(c) /\ peer'[c].forwarded = peer[c].forwarded
    BY <1>1, <1>5, <2>1 DEF ConnectionOK, TweetsOK, clientVars
  <2>2. CASE \E q \in Seq(Packets) : /\ Flow(c) \in Seq(Packets) /\ Flow(c)' = Flow(c) \o q
                                     /\ peer'[c].forwarded = peer[c].forwarded \o q
    <3>1. PICK q \in Seq(Packets) : /\ Flow(c) \in Seq(Packets) /\ Flow(c)' = Flow(c) \o q
                                    /\ peer'[c].forwarded = peer[c].forwarded \o q
      BY <2>2
    <3>2. (history.received[c] \o Flow(c)) \o q = history.received[c] \o (Flow(c) \o q)
      BY <3>1, Regroup
    <3> QED
      BY <1>1, <1>5, <3>1, <3>2 DEF ConnectionOK, TweetsOK, clientVars
  <2> QED
    BY <2>1, <2>2
<1> QED
  BY <1>2, <1>4, <1>6, <1>7 DEF ConnectionOK

LEMMA SpeakerTopPreserves ==
  ASSUME Typed, NEW c \in Connections, Made(c), ConnectionOK(c), UNCHANGED <<clientVars, netVars>>,
         SpeakerTop(c)
  PROVE  ConnectionOnly(c) /\ ConnectionOK(c)'
<1> DEFINE p == [peer[c] EXCEPT !.speaker = IF peer[c].clientShutdownNotice THEN "stopped"
                                            ELSE "asleep"]
<1>1. peer[c] \in Peers
  BY ConnectionTypes DEF Typed
<1>2. p \in Peers
  BY <1>1 DEF Peers
<1>3. peer' = [peer EXCEPT ![c] = p] /\ peer[c].speaker = "top"
  BY DEF SpeakerTop
<1>4. ConnectionOnly(c) /\ peer'[c] = p
  <2> HIDE DEF p
  <2> QED
    BY <1>2, <1>3, PeerStep
<1>5. /\ KeepsSession(c) /\ KeepsRequests(c) /\ KeepsOutgoing(c) /\ KeepsTweets(c) /\ KeepsConnector(c)
      /\ peer'[c].speaker # "work" /\ peer'[c].listener = peer[c].listener
  BY <1>1, <1>4 DEF KeepsSession, KeepsRequests, KeepsOutgoing, KeepsTweets, KeepsConnector,
       Peers
<1> HIDE DEF p
<1>6. OthersOK(c)' /\ (~peer[c].signedIn => NothingYet(c)')
  BY <1>3, <1>5 DEF ConnectionOK, OthersOK, SignInOK, NothingYet, KeepsRequests, KeepsOutgoing,
       KeepsTweets
<1>7. Done(c)' = Done(c) /\ Flow(c)' = Flow(c)
  BY <1>5 DEF Done, Queued, Flow, Tweets, KeepsRequests, KeepsOutgoing, KeepsTweets, netVars
<1>8. history.received[c] \in Seq(Packets)
  BY DEF Typed, ClientTyped, Histories
<1> QED
  BY <1>4, <1>5, <1>6, <1>7, <1>8, WorkerStep DEF KeepsRequests, KeepsTweets

LEMMA SpeakerWakesPreserves ==
  ASSUME Typed, NEW c \in Connections, Made(c), ConnectionOK(c), UNCHANGED <<clientVars, netVars>>,
         SpeakerWakes(c)
  PROVE  ConnectionOnly(c) /\ ConnectionOK(c)'
<1> DEFINE p == [peer[c] EXCEPT !.speaker = "work", !.next = 1]
<1>1. peer[c] \in Peers
  BY ConnectionTypes DEF Typed
<1>2. p \in Peers
  BY <1>1 DEF Peers
<1>3. peer' = [peer EXCEPT ![c] = p] /\ peer[c].speaker = "asleep"
  BY DEF SpeakerWakes
<1>4. peer[c].next = 1
  BY <1>3 DEF ConnectionOK, OthersOK
<1>5. ConnectionOnly(c) /\ peer'[c] = p
  <2> HIDE DEF p
  <2> QED
    BY <1>2, <1>3, PeerStep
<1>6. /\ KeepsSession(c) /\ KeepsRequests(c) /\ KeepsOutgoing(c) /\ KeepsTweets(c) /\ KeepsConnector(c)
      /\ peer'[c].speaker = "work" /\ peer'[c].listener = peer[c].listener
  BY <1>1, <1>5, <1>4 DEF KeepsSession, KeepsRequests, KeepsOutgoing, KeepsTweets, KeepsConnector,
       Peers
<1> HIDE DEF p
<1>7. OthersOK(c)' /\ (~peer[c].signedIn => NothingYet(c)')
  BY <1>3, <1>6 DEF ConnectionOK, OthersOK, SignInOK, NothingYet, KeepsRequests, KeepsOutgoing,
       KeepsTweets
<1>8. Done(c)' = Done(c) /\ Flow(c)' = Flow(c)
  BY <1>6 DEF Done, Queued, Flow, Tweets, KeepsRequests, KeepsOutgoing, KeepsTweets, netVars
<1>9. history.received[c] \in Seq(Packets)
  BY DEF Typed, ClientTyped, Histories
<1> QED
  BY <1>5, <1>6, <1>7, <1>8, <1>9, WorkerStep DEF KeepsRequests, KeepsTweets

(* A request that is executed is the first of the queued ones.             *)
LEMMA FirstOfQueued ==
  ASSUME NEW queue \in Seq(Packets), NEW k \in 1..Len(queue), NEW done \in Seq(Packets)
  PROVE  (done \o <<queue[k]>>) \o SubSeq(queue, k + 1, Len(queue))
           = done \o SubSeq(queue, k, Len(queue))
<1> DEFINE rest == SubSeq(queue, k + 1, Len(queue))
           first == <<queue[k]>>
<1>1. Len(queue) \in Nat /\ Len(queue) \in k..Len(queue) /\ queue[k] \in Packets
  BY SequenceFacts
<1>2. SubSeq(queue, k, Len(queue)) = first \o rest
  BY <1>1, SubSeqRecursiveFirst
<1>3. first \in Seq(Packets)
  BY <1>1, StreamOfOne
<1>4. rest \in Seq(Packets)
  <2>1. \A i \in (k + 1)..Len(queue) : queue[i] \in Packets
    BY <1>1, SequenceFacts
  <2>2. k + 1 \in Int /\ Len(queue) \in Int
    BY <1>1
  <2> QED
    BY <2>1, <2>2, SubSeqProperties
<1> HIDE DEF rest, first
<1>5. (done \o first) \o rest = done \o (first \o rest)
  BY <1>3, <1>4, Regroup
<1> QED
  BY <1>2, <1>5 DEF rest, first

LEMMA ExecutePreserves ==
  ASSUME Typed, NEW c \in Connections, Made(c), ConnectionOK(c), UNCHANGED <<clientVars, netVars>>,
         Execute(c)
  PROVE  ConnectionOnly(c) /\ ConnectionOK(c)'
<1> DEFINE queue == peer[c].incomingMessages
           k == peer[c].next
           request == queue[k]
           ack == Packet("ACK", request.n)
           done == Append(peer[c].executed, request)
           out == Append(peer[c].outgoingMessages, ack)
           p == [peer[c] EXCEPT !.next = k + 1, !.executed = done, !.outgoingMessages = out]
<1>1. /\ peer[c] \in Peers /\ queue \in Seq(Packets) /\ peer[c].executed \in Seq(Packets)
      /\ peer[c].outgoingMessages \in Seq(Packets) /\ peer[c].outTweets \in Seq(Packets)
      /\ k \in Nat /\ toClient[c] \in Seq(Packets)
  BY ConnectionTypes DEF Typed
<1>2. /\ peer[c].speaker = "work" /\ k <= Len(queue) /\ peer' = [peer EXCEPT ![c] = p]
      /\ k \in 1..(Len(queue) + 1)
  BY DEF Execute, ConnectionOK, OthersOK
<1>3. /\ Len(queue) \in Nat /\ k \in 1..Len(queue) /\ request \in Packets
  BY <1>1, <1>2, SequenceFacts
<1>4. ack \in Packets /\ ack.type = "ACK"
  <2>1. request.n \in Nat
    BY <1>3 DEF Packets
  <2> HIDE DEF request
  <2> QED
    BY <2>1 DEF Packets, Types, Packet
<1> HIDE DEF request, ack
<1>5. /\ done \in Seq(Packets) /\ done = peer[c].executed \o <<request>>
      /\ out \in Seq(Packets) /\ out = peer[c].outgoingMessages \o <<ack>>
  BY <1>1, <1>3, <1>4, Appended
<1> HIDE DEF done, out
<1>6. p \in Peers
  <2> DEFINE next == k + 1
  <2>1. next \in Nat
    BY <1>1
  <2> HIDE DEF next
  <2>2. [peer[c] EXCEPT !.next = next, !.executed = done, !.outgoingMessages = out] \in Peers
    BY <1>1, <1>5, <2>1 DEF Peers
  <2> QED
    BY <2>2 DEF next
<1>7. ConnectionOnly(c) /\ peer'[c] = p
  <2> HIDE DEF p
  <2> QED
    BY <1>2, <1>6, PeerStep
<1>8. /\ KeepsSession(c) /\ KeepsThreads(c) /\ KeepsTweets(c) /\ KeepsConnector(c)
      /\ peer'[c].next = k + 1 /\ peer'[c].incomingMessages = queue
      /\ peer'[c].executed = done /\ peer'[c].outgoingMessages = out
  BY <1>1, <1>7 DEF KeepsSession, KeepsThreads, KeepsTweets, KeepsConnector, Peers
<1> HIDE DEF p
<1>9. queue # <<>>
  BY <1>3, EmptySeq
<1>10. OthersOK(c)' /\ peer[c].signedIn /\ ~AskedOnly(c)
  BY <1>2, <1>3, <1>8, <1>9 DEF ConnectionOK, OthersOK, SignInOK, NothingYet, AskedOnly, KeepsThreads,
       KeepsTweets
<1>11. Done(c)' = Done(c)
  <2>1. done \o SubSeq(queue, k + 1, Len(queue)) = peer[c].executed \o SubSeq(queue, k, Len(queue))
    BY <1>1, <1>3, <1>5, FirstOfQueued DEF request
  <2> QED
    BY <1>8, <2>1 DEF Done, Queued
<1>12. Flow(c)' = Flow(c)
  <2> DEFINE o == <<ack>>
             was == peer[c].outgoingMessages
  <2>1. o \in Seq(Packets) /\ Tweets(o) = <<>> /\ was \in Seq(Packets)
    BY <1>1, <1>4, StreamOfOne
  <2>2. out = was \o o
    BY <1>5
  <2> HIDE DEF o, was
  <2>3. Tweets(was \o o) = Tweets(was) \o Tweets(o) /\ Tweets(was) \in Seq(Packets)
    BY <2>1, StreamOfConcat
  <2>4. Tweets(out) = Tweets(was)
    BY <2>1, <2>2, <2>3, NothingAdded
  <2> QED
    BY <1>8, <2>4 DEF Flow, KeepsTweets, netVars, Tweets, was
<1>13. history.received[c] \in Seq(Packets)
  BY DEF Typed, ClientTyped, Histories
<1> QED
  BY <1>7, <1>8, <1>10, <1>11, <1>12, <1>13, WorkerStep DEF KeepsTweets

LEMMA EndRoundPreserves ==
  ASSUME Typed, NEW c \in Connections, Made(c), ConnectionOK(c), UNCHANGED <<clientVars, netVars>>,
         EndRound(c)
  PROVE  ConnectionOnly(c) /\ ConnectionOK(c)'
<1> DEFINE queue == peer[c].incomingMessages
           k == peer[c].next
           p == [peer[c] EXCEPT !.speaker = "top", !.next = 1, !.incomingMessages = <<>>,
                                !.incomingQueueEmpty = TRUE]
<1>1. /\ peer[c] \in Peers /\ queue \in Seq(Packets) /\ k \in Nat
      /\ peer[c].executed \in Seq(Packets)
  BY ConnectionTypes DEF Typed
<1>2. /\ peer[c].speaker = "work" /\ k > Len(queue) /\ peer' = [peer EXCEPT ![c] = p]
  BY DEF EndRound
<1>3. p \in Peers
  BY <1>1, EmptyStream DEF Peers
<1>4. ConnectionOnly(c) /\ peer'[c] = p
  <2> HIDE DEF p
  <2> QED
    BY <1>2, <1>3, PeerStep
<1>5. /\ KeepsSession(c) /\ KeepsOutgoing(c) /\ KeepsTweets(c) /\ KeepsConnector(c)
      /\ peer'[c].next = 1 /\ peer'[c].incomingMessages = <<>>
      /\ peer'[c].executed = peer[c].executed
      /\ peer'[c].speaker = "top" /\ peer'[c].listener = peer[c].listener
  BY <1>1, <1>4 DEF KeepsSession, KeepsOutgoing, KeepsTweets, KeepsConnector, Peers
<1> HIDE DEF p
<1>6. OthersOK(c)' /\ (~peer[c].signedIn => NothingYet(c)') /\ (AskedOnly(c) => queue = <<>>)
  BY <1>5, EmptyStream DEF ConnectionOK, OthersOK, SignInOK, NothingYet, AskedOnly, KeepsOutgoing,
       KeepsTweets
<1>7. Done(c)' = Done(c) /\ Flow(c)' = Flow(c)
  <2>1. SubSeq(queue, k, Len(queue)) = <<>>
    <3>1. k \in Int /\ Len(queue) \in Int /\ Len(queue) < k
      BY <1>1, <1>2, SequenceFacts
    <3> QED
      BY <3>1, SubSeqEmpty
  <2>2. SubSeq(peer'[c].incomingMessages, peer'[c].next, Len(peer'[c].incomingMessages)) = <<>>
    BY <1>5, EmptyStream, SubSeqEmpty
  <2> QED
    BY <1>5, <2>1, <2>2 DEF Done, Queued, Flow, Tweets, KeepsOutgoing, KeepsTweets, netVars
<1>8. history.received[c] \in Seq(Packets)
  BY DEF Typed, ClientTyped, Histories
<1> QED
  BY <1>4, <1>5, <1>6, <1>7, <1>8, WorkerStep DEF KeepsTweets

(* Fetched tweets are in the listener's hands ...                          *)
LEMMA ListenerFetchesPreserves ==
  ASSUME Typed, NEW c \in Connections, Made(c), ConnectionOK(c), UNCHANGED <<clientVars, netVars>>,
         ListenerFetches(c)
  PROVE  ConnectionOnly(c) /\ ConnectionOK(c)'
<1> DEFINE first == fetched[at[c]]
           n == posted[at[c]] - first
           tweets == [i \in 1..n |-> Packet("UPDATE", first + i)]
           all == peer[c].forwarded \o tweets
           p == [peer[c] EXCEPT !.listener = "forward", !.outTweets = tweets, !.forwarded = all]
<1>1. /\ peer[c] \in Peers /\ peer[c].forwarded \in Seq(Packets)
      /\ peer[c].outgoingMessages \in Seq(Packets) /\ toClient[c] \in Seq(Packets)
  BY ConnectionTypes DEF Typed
<1>2. /\ peer[c].listener = "pitstop" /\ peer[c].signedIn /\ peer' = [peer EXCEPT ![c] = p]
  BY DEF ListenerFetches
<1>3. tweets \in Seq(Packets) /\ \A k \in 1..Len(tweets) : tweets[k].type = "UPDATE"
  <2>1. at[c] \in Servers
    <3>1. at \in Seq(Servers) /\ c \in 1..Len(at)
      BY DEF Typed, NetworkTyped, Made, Connections
    <3> QED
      BY <3>1, SequenceFacts
  <2>2. first \in Nat /\ n \in Nat
    BY <2>1 DEF Typed, ServersTyped
  <2> HIDE DEF first, n
  <2>3. \A i \in 1..n : Packet("UPDATE", first + i) \in Packets
    BY <2>2 DEF Packet, Packets, Types
  <2>4. tweets \in [1..n -> Packets]
    BY <2>3
  <2>5. tweets \in Seq(Packets) /\ Len(tweets) = n
    BY <2>2, <2>4, SeqDef, LenProperties
  <2> QED
    BY <2>5 DEF Packet
<1> HIDE DEF tweets
<1>4. all \in Seq(Packets)
  BY <1>1, <1>3, ConcatProperties
<1>5. p \in Peers
  <2> HIDE DEF all
  <2> QED
    BY <1>1, <1>3, <1>4 DEF Peers
<1>6. ConnectionOnly(c) /\ peer'[c] = p
  <2> HIDE DEF p
  <2> QED
    BY <1>2, <1>5, PeerStep
<1>7. /\ KeepsSession(c) /\ KeepsRequests(c) /\ KeepsOutgoing(c) /\ KeepsConnector(c)
      /\ peer'[c].speaker = peer[c].speaker /\ peer'[c].listener = "forward"
      /\ peer'[c].outTweets = tweets /\ peer'[c].forwarded = peer[c].forwarded \o tweets
  <2> HIDE DEF all
  <2>1. peer'[c].forwarded = all
    BY <1>1, <1>6 DEF Peers
  <2> QED
    BY <1>1, <1>6, <2>1 DEF KeepsSession, KeepsRequests, KeepsOutgoing, KeepsConnector, Peers, all
<1> HIDE DEF p, all
<1>8. OthersOK(c)' /\ peer[c].outTweets = <<>>
  BY <1>2, <1>3, <1>7 DEF ConnectionOK, OthersOK, KeepsRequests
<1>9. Done(c)' = Done(c)
  BY <1>7 DEF Done, Queued, KeepsRequests
<1>10. Flow(c) \in Seq(Packets) /\ Flow(c)' = Flow(c) \o tweets
  <2> DEFINE t == Tweets(toClient[c])
             o == Tweets(peer[c].outgoingMessages)
  <2>1. t \in Seq(Packets) /\ o \in Seq(Packets)
    BY <1>1, StreamOfConcat
  <2>2. Flow(c) = t \o (o \o <<>>)
    BY <1>8 DEF Flow
  <2>3. Flow(c)' = t \o (o \o tweets)
    BY <1>7 DEF Flow, netVars, KeepsOutgoing, Tweets
  <2> HIDE DEF t, o
  <2>4. o \o <<>> = o /\ (t \o o) \o tweets = t \o (o \o tweets) /\ t \o o \in Seq(Packets)
    BY <1>3, <2>1, NothingAdded, Regroup, ConcatProperties
  <2> QED
    BY <2>2, <2>3, <2>4
<1>11. history.received[c] \in Seq(Packets)
  BY DEF Typed, ClientTyped, Histories
<1> QED
  BY <1>2, <1>3, <1>6, <1>7, <1>8, <1>9, <1>10, <1>11, WorkerStep DEF KeepsRequests

(* ... and then in the outgoing queue.                                     *)
LEMMA ListenerForwardsPreserves ==
  ASSUME Typed, NEW c \in Connections, Made(c), ConnectionOK(c), UNCHANGED <<clientVars, netVars>>,
         ListenerForwards(c)
  PROVE  ConnectionOnly(c) /\ ConnectionOK(c)'
<1> DEFINE tweets == peer[c].outTweets
           was == peer[c].outgoingMessages
           out == was \o tweets
           p == [peer[c] EXCEPT !.listener = "pitstop", !.outTweets = <<>>,
                                !.outgoingMessages = out, !.outgoingQueueEmpty = FALSE]
<1>1. /\ peer[c] \in Peers /\ tweets \in Seq(Packets) /\ was \in Seq(Packets)
      /\ toClient[c] \in Seq(Packets)
  BY ConnectionTypes DEF Typed
<1>2. /\ peer[c].listener = "forward" /\ peer' = [peer EXCEPT ![c] = p]
      /\ \A k \in 1..Len(tweets) : tweets[k].type = "UPDATE"
  BY DEF ListenerForwards, ConnectionOK, OthersOK
<1>3. out \in Seq(Packets)
  BY <1>1, ConcatProperties
<1> HIDE DEF out
<1>4. p \in Peers
  BY <1>1, <1>3, EmptyStream DEF Peers
<1>5. ConnectionOnly(c) /\ peer'[c] = p
  <2> HIDE DEF p
  <2> QED
    BY <1>2, <1>4, PeerStep
<1>6. /\ KeepsSession(c) /\ KeepsRequests(c) /\ KeepsConnector(c)
      /\ peer'[c].speaker = peer[c].speaker /\ peer'[c].listener = "pitstop"
      /\ peer'[c].outTweets = <<>> /\ peer'[c].forwarded = peer[c].forwarded
      /\ peer'[c].outgoingMessages = out
  BY <1>1, <1>5 DEF KeepsSession, KeepsRequests, KeepsConnector, Peers
<1> HIDE DEF p
<1>7. OthersOK(c)' /\ peer[c].signedIn
  BY <1>2, <1>6, EmptyStream DEF ConnectionOK, OthersOK, SignInOK, NothingYet, KeepsRequests
<1>8. Done(c)' = Done(c)
  BY <1>6 DEF Done, Queued, KeepsRequests
<1>9. Flow(c)' = Flow(c)
  <2>1. Tweets(tweets) = tweets
    BY <1>1, <1>2, SelectedAll DEF Tweets
  <2>2. Flow(c) = Tweets(toClient[c]) \o (Tweets(was) \o tweets)
    BY DEF Flow
  <2>3. Flow(c)' = Tweets(toClient[c]) \o (Tweets(out) \o <<>>)
    BY <1>6 DEF Flow, netVars, Tweets
  <2> HIDE DEF was, tweets
  <2>4. Tweets(was \o tweets) = Tweets(was) \o Tweets(tweets)
    BY <1>1, StreamOfConcat
  <2>5. Tweets(out) \o <<>> = Tweets(out)
    BY <1>3, StreamOfConcat, NothingAdded
  <2> QED
    BY <2>1, <2>2, <2>3, <2>4, <2>5 DEF out
<1>10. history.received[c] \in Seq(Packets)
  BY DEF Typed, ClientTyped, Histories
<1> QED
  BY <1>5, <1>6, <1>7, <1>8, <1>9, <1>10, WorkerStep DEF KeepsRequests

LEMMA ListenerStopsPreserves ==
  ASSUME Typed, NEW c \in Connections, Made(c), ConnectionOK(c), UNCHANGED <<clientVars, netVars>>,
         ListenerStops(c)
  PROVE  ConnectionOnly(c) /\ ConnectionOK(c)'
<1> DEFINE p == [peer[c] EXCEPT !.listener = "stopped"]
<1>1. peer[c] \in Peers
  BY ConnectionTypes DEF Typed
<1>2. peer' = [peer EXCEPT ![c] = p] /\ peer[c].listener = "pitstop"
  BY DEF ListenerStops
<1>3. p \in Peers
  BY <1>1 DEF Peers
<1>4. ConnectionOnly(c) /\ peer'[c] = p
  <2> HIDE DEF p
  <2> QED
    BY <1>2, <1>3, PeerStep
<1>5. /\ KeepsSession(c) /\ KeepsRequests(c) /\ KeepsOutgoing(c) /\ KeepsTweets(c) /\ KeepsConnector(c)
      /\ peer'[c].listener = "stopped" /\ peer'[c].speaker = peer[c].speaker
  BY <1>1, <1>4 DEF KeepsSession, KeepsRequests, KeepsOutgoing, KeepsTweets, KeepsConnector, Peers
<1> HIDE DEF p
<1>6. OthersOK(c)' /\ (~peer[c].signedIn => NothingYet(c)')
  BY <1>2, <1>5 DEF ConnectionOK, OthersOK, SignInOK, NothingYet, KeepsRequests, KeepsOutgoing,
       KeepsTweets
<1>7. Done(c)' = Done(c) /\ Flow(c)' = Flow(c)
  BY <1>5 DEF Done, Queued, Flow, Tweets, KeepsRequests, KeepsOutgoing, KeepsTweets, netVars
<1>8. history.received[c] \in Seq(Packets)
  BY DEF Typed, ClientTyped, Histories
<1> QED
  BY <1>4, <1>5, <1>6, <1>7, <1>8, WorkerStep DEF KeepsRequests, KeepsTweets

-----------------------------------------------------------------------------
(* A step of the connector that leaves the queues and the other threads    *)
(* alone.                                                                  *)
LEMMA QueuesKept ==
  ASSUME NEW c \in Connections, Made(c), ConnectionOK(c), UNCHANGED <<clientVars, netVars>>,
         KeepsThreads(c), KeepsRequests(c), KeepsOutgoing(c), KeepsTweets(c)
  PROVE  /\ (~Made(c) => Untouched(c))' /\ OthersOK(c)'
         /\ Done(c)' = Done(c) /\ Flow(c)' = Flow(c) /\ (NothingYet(c)' <=> NothingYet(c))
<1>1. (~Made(c) => Untouched(c))'
  BY DEF Made, netVars
<1>2. OthersOK(c)' /\ (NothingYet(c)' <=> NothingYet(c))
  BY DEF ConnectionOK, OthersOK, NothingYet, KeepsThreads, KeepsRequests, KeepsOutgoing, KeepsTweets
<1>3. Done(c)' = Done(c) /\ Flow(c)' = Flow(c)
  BY DEF Done, Queued, Flow, Tweets, netVars, KeepsRequests, KeepsOutgoing, KeepsTweets
<1> QED
  BY <1>1, <1>2, <1>3

LEMMA AcceptPreserves ==
  ASSUME Typed, NEW c \in Connections, Made(c), ConnectionOK(c), UNCHANGED <<clientVars, netVars>>,
         Accept(c)
  PROVE  ConnectionOnly(c) /\ ConnectionOK(c)'
<1> DEFINE p == [peer[c] EXCEPT !.connector = "receive"]
<1>1. peer[c] \in Peers
  BY ConnectionTypes DEF Typed
<1>2. peer' = [peer EXCEPT ![c] = p] /\ peer[c].connector = "none"
  BY DEF Accept
<1>3. p \in Peers
  BY <1>1 DEF Peers
<1>4. ConnectionOnly(c) /\ peer'[c] = p
  <2> HIDE DEF p
  <2> QED
    BY <1>2, <1>3, PeerStep
<1>5. /\ KeepsSession(c) /\ KeepsRequests(c) /\ KeepsOutgoing(c) /\ KeepsTweets(c) /\ KeepsThreads(c)
      /\ peer'[c].connector = "receive" /\ peer'[c].incomingPkt = peer[c].incomingPkt
  BY <1>1, <1>4 DEF KeepsSession, KeepsRequests, KeepsOutgoing, KeepsTweets, KeepsThreads, Peers
<1> HIDE DEF p
<1>6. UNCHANGED <<server, at, toServer, toClient, closed>>
  BY DEF netVars
<1>7. /\ (~Made(c) => Untouched(c))' /\ OthersOK(c)'
      /\ Done(c)' = Done(c) /\ Flow(c)' = Flow(c) /\ (NothingYet(c)' <=> NothingYet(c))
  BY <1>5, QueuesKept
<1>8. ConnectorOK(c)' /\ SignInOK(c)'
  BY <1>2, <1>5, <1>6, <1>7 DEF ConnectionOK, ConnectorOK, SignInOK, Refusals, KeepsSession, clientVars
<1>9. (Asking(c)' <=> Asking(c)) /\ (AskedOnly(c) => AskedOnly(c)')
  BY <1>2, <1>5, <1>6 DEF Asking, AskedOnly, KeepsSession, KeepsRequests, clientVars
<1>10. AskingOK(c)' /\ AwaitedOK(c)' /\ CurrentOK(c)'
  BY <1>5, <1>6, <1>9, ClientWaitsOn DEF ConnectionOK, KeepsSession
<1>11. Coming(c)' = Coming(c) /\ Working(c)' = Working(c)
  BY <1>5, <1>6 DEF Coming, Requests, Working, Made, KeepsSession
<1>12. RequestsOK(c)' /\ TweetsOK(c)'
  BY <1>5, <1>6, <1>7, <1>11 DEF ConnectionOK, RequestsOK, TweetsOK, clientVars, KeepsTweets
<1> QED
  BY <1>4, <1>7, <1>8, <1>10, <1>12 DEF ConnectionOK

LEMMA ReceiveNothingPreserves ==
  ASSUME Typed, NEW c \in Connections, Made(c), ConnectionOK(c), UNCHANGED <<clientVars, netVars>>,
         ReceiveNothing(c)
  PROVE  ConnectionOnly(c) /\ ConnectionOK(c)'
<1>1. PICK notice \in BOOLEAN :
        /\ peer' = [peer EXCEPT ![c] = [peer[c] EXCEPT !.connector = "send",
                                                       !.clientShutdownNotice = notice]]
        /\ peer[c].connector = "receive" /\ toServer[c] = <<>>
        /\ peer[c].clientShutdownNotice => notice
  <2>1. peer[c] \in Peers /\ peer[c].connector = "receive" /\ ~peer[c].clientShutdownNotice
    BY ConnectionTypes DEF Typed, ReceiveNothing, ConnectionOK, ConnectorOK
  <2>2. CASE "client" \in closed[c]
    BY <2>2, <2>1 DEF ReceiveNothing
  <2>3. CASE "client" \notin closed[c]
    <3>1. [peer[c] EXCEPT !.connector = "send", !.clientShutdownNotice = FALSE]
            = [peer[c] EXCEPT !.connector = "send"]
      BY <2>1 DEF Peers
    <3>2. peer' = [peer EXCEPT ![c] = [peer[c] EXCEPT !.connector = "send"]]
      BY <2>3 DEF ReceiveNothing
    <3> QED
      BY <2>1, <3>1, <3>2 DEF ReceiveNothing
  <2> QED
    BY <2>2, <2>3
<1> DEFINE p == [peer[c] EXCEPT !.connector = "send", !.clientShutdownNotice = notice]
<1>2. peer[c] \in Peers /\ NoPacket.type = "none"
  BY ConnectionTypes DEF Typed
<1>3. p \in Peers
  BY <1>2 DEF Peers
<1>4. ConnectionOnly(c) /\ peer'[c] = p
  <2>1. peer' = [peer EXCEPT ![c] = p]
    BY <1>1
  <2> HIDE DEF p
  <2> QED
    BY <1>3, <2>1, PeerStep
<1>5. /\ KeepsRequests(c) /\ KeepsOutgoing(c) /\ KeepsTweets(c) /\ KeepsThreads(c)
      /\ peer'[c].signedIn = peer[c].signedIn /\ peer'[c].clientShutdownNotice = notice
      /\ peer'[c].connector = "send" /\ peer'[c].incomingPkt = peer[c].incomingPkt
  BY <1>2, <1>4 DEF KeepsRequests, KeepsOutgoing, KeepsTweets, KeepsThreads, Peers
<1> HIDE DEF p
<1>6. UNCHANGED <<server, at, toServer, toClient, closed>>
  BY DEF netVars
<1>7. /\ (~Made(c) => Untouched(c))' /\ OthersOK(c)'
      /\ Done(c)' = Done(c) /\ Flow(c)' = Flow(c) /\ (NothingYet(c)' <=> NothingYet(c))
  BY <1>5, QueuesKept
<1>8. peer[c].incomingPkt = NoPacket /\ "server" \notin closed[c]
  BY <1>1 DEF ConnectionOK, ConnectorOK
<1>9. ConnectorOK(c)' /\ SignInOK(c)'
  BY <1>5, <1>6, <1>7, <1>8 DEF ConnectionOK, ConnectorOK, SignInOK, Refusals, clientVars
<1>10. ~Asking(c) /\ ~Asking(c)'
  <2>1. \A k \in 1..Len(toServer[c]) : FALSE
    BY <1>1, EmptyStream
  <2> QED
    BY <1>2, <1>5, <1>6, <1>8, <2>1 DEF Asking
<1>11. AskingOK(c)' /\ AwaitedOK(c)' /\ CurrentOK(c)'
  BY <1>5, <1>6, <1>10, ClientWaitsOn DEF ConnectionOK
<1>12. Coming(c)' = Coming(c) /\ (Working(c)' => Working(c))
  BY <1>1, <1>5, <1>6 DEF Coming, Requests, Working, Made
<1>13. RequestsOK(c)' /\ TweetsOK(c)'
  BY <1>5, <1>6, <1>7, <1>12 DEF ConnectionOK, RequestsOK, TweetsOK, clientVars, KeepsTweets
<1> QED
  BY <1>4, <1>7, <1>9, <1>11, <1>13 DEF ConnectionOK

(* A connection that asks has nothing else on it.                          *)
LEMMA AskingIsAlone ==
  ASSUME Typed, NEW c \in Connections, ConnectionOK(c), Asking(c)
  PROVE  /\ AskedOnly(c) /\ Done(c) = <<>>
         /\ peer[c].outTweets = <<>> \/ peer[c].signedIn
<1>1. AskedOnly(c)
  BY DEF ConnectionOK, AskingOK
<1>2. peer[c].next \in Nat /\ peer[c].next >= 1
  BY DEF ConnectionOK, OthersOK
<1>3. Queued(c) = <<>>
  BY <1>1, <1>2, EmptyStream, SubSeqEmpty DEF AskedOnly, Queued
<1>4. Done(c) = <<>>
  BY <1>1, <1>3, EmptyStream, NothingAdded DEF AskedOnly, Done
<1> QED
  BY <1>1, <1>4 DEF ConnectionOK, SignInOK, NothingYet, OthersOK

LEMMA IdentifyPreserves ==
  ASSUME Typed, NEW c \in Connections, Made(c), ConnectionOK(c), UNCHANGED <<clientVars, netVars>>,
         ~ClientRuns => frontEnd.place = "ended",
         peer[c].connector = "handle", Identify(c)
  PROVE  ConnectionOnly(c) /\ ConnectionOK(c)'
<1>1. PICK known \in BOOLEAN :
        peer' = [peer EXCEPT ![c].connector = "sign_in", ![c].signedIn = known]
  BY DEF Identify
<1> DEFINE p == [peer[c] EXCEPT !.connector = "sign_in", !.signedIn = known]
<1>2. peer[c] \in Peers /\ peer[c].incomingPkt.type = "SIGN_IN" /\ NoPacket.type = "none"
      /\ peer[c].incomingPkt \in Packets /\ toServer[c] \in Seq(Packets)
  BY ConnectionTypes DEF Typed, Identify
<1>3. p \in Peers
  BY <1>2 DEF Peers
<1>4. ConnectionOnly(c) /\ peer'[c] = p
  <2>1. peer' = [peer EXCEPT ![c] = p]
    BY <1>1
  <2> HIDE DEF p
  <2> QED
    BY <1>3, <2>1, PeerStep
<1>5. /\ KeepsRequests(c) /\ KeepsOutgoing(c) /\ KeepsTweets(c) /\ KeepsThreads(c)
      /\ peer'[c].clientShutdownNotice = peer[c].clientShutdownNotice
      /\ peer'[c].connector = "sign_in" /\ peer'[c].incomingPkt = peer[c].incomingPkt
  BY <1>2, <1>4 DEF KeepsRequests, KeepsOutgoing, KeepsTweets, KeepsThreads, Peers
<1> HIDE DEF p
<1>6. UNCHANGED <<server, at, toServer, toClient, closed>>
  BY DEF netVars
<1>7. /\ (~Made(c) => Untouched(c))' /\ OthersOK(c)'
      /\ Done(c)' = Done(c) /\ Flow(c)' = Flow(c) /\ (NothingYet(c)' <=> NothingYet(c))
  BY <1>5, QueuesKept
<1>8. Asking(c) /\ Asking(c)'
  BY <1>2, <1>5 DEF Asking
<1>9. /\ AskedOnly(c) /\ Done(c) = <<>>
      /\ peer[c].outTweets = <<>> \/ peer[c].signedIn
  BY <1>8, AskingIsAlone
<1>10. /\ ~peer[c].signedIn /\ toServer[c] = <<>> /\ toClient[c] = <<>> /\ "server" \notin closed[c]
       /\ history.sent[c] = <<>> /\ NothingYet(c) /\ history.received[c] = <<>>
       /\ peer[c].outTweets = <<>>
  <2>1. /\ ~peer[c].signedIn /\ toServer[c] = <<>> /\ toClient[c] = <<>>
        /\ "server" \notin closed[c] /\ history.sent[c] = <<>>
    BY <1>9 DEF AskedOnly
  <2> QED
    BY <1>9, <2>1 DEF ConnectionOK, SignInOK
<1>11. ConnectorOK(c)' /\ SignInOK(c)'
  BY <1>2, <1>5, <1>6, <1>7, <1>10, EmptyStream DEF ConnectionOK, ConnectorOK, SignInOK, Refusals,
       clientVars
<1>12. AskedOnly(c)'
  BY <1>5, <1>6, <1>9, <1>10 DEF AskedOnly, KeepsRequests, clientVars
<1>13. AskingOK(c)' /\ AwaitedOK(c)' /\ CurrentOK(c)'
  <2>1. Current' = Current
    BY DEF Current, Behind, clientVars, Free
  <2>2. AskingOK(c)'
    BY <1>6, <1>8, <1>12 DEF ConnectionOK, AskingOK, ClientRuns, clientVars
  <2>3. AwaitedOK(c)'
    BY <1>6, <1>8, <1>10 DEF ConnectionOK, AskingOK, AwaitedOK, clientVars
  <2>4. CurrentOK(c)'
    BY <1>6, <1>10, <2>1 DEF ConnectionOK, CurrentOK, clientVars
  <2> QED
    BY <2>2, <2>3, <2>4
<1>14. RequestsOK(c)'
  <2>1. Requests(<<peer[c].incomingPkt>>) = <<>> /\ Requests(<<>>) = <<>>
    BY <1>2, StreamOfOne, EmptyStream
  <2>2. Coming(c)' = <<>>
    BY <1>5, <1>6, <1>10, <2>1, EmptyStream, NothingAdded DEF Coming
  <2>3. <<>> \o <<>> = <<>>
    BY EmptyStream, NothingAdded
  <2> QED
    BY <1>7, <1>9, <1>10, <2>2, <2>3, EmptyStream DEF RequestsOK, clientVars
<1>15. TweetsOK(c)'
  <2>1. Flow(c) = <<>>
    BY <1>10, EmptyStream, NothingAdded DEF Flow, NothingYet
  <2> QED
    BY <1>5, <1>7, <1>10, <2>1, EmptyStream, NothingAdded DEF TweetsOK, NothingYet, KeepsTweets,
         clientVars
<1> QED
  BY <1>4, <1>7, <1>11, <1>13, <1>14, <1>15 DEF ConnectionOK

(* Once the connector has received a sign-in, there is none to come.       *)
LEMMA NoOtherSignIn ==
  ASSUME Typed, NEW c \in Connections, ConnectionOK(c),
         peer[c].connector \in {"send", "handle", "sign_in", "join", "closed"}
  PROVE  /\ \A k \in 1..Len(toServer[c]) : toServer[c][k].type # "SIGN_IN"
         /\ Asking(c) <=> peer[c].incomingPkt.type = "SIGN_IN"
<1>1. Asking(c) => toServer[c] = <<>>
  BY AskingIsAlone DEF AskedOnly
<1>2. \A k \in 1..Len(toServer[c]) : toServer[c][k].type # "SIGN_IN"
  BY <1>1, EmptyStream DEF Asking
<1> QED
  BY <1>2 DEF Asking

(* A request goes to the end of the queue; another packet is dropped.      *)
LEMMA HandleRequestPreserves ==
  ASSUME Typed, NEW c \in Connections, Made(c), ConnectionOK(c), UNCHANGED <<clientVars, netVars>>,
         peer[c].connector = "handle", ~serverShutdownNotice(c), HandleRequest(c)
  PROVE  ConnectionOnly(c) /\ ConnectionOK(c)'
<1> DEFINE pkt == peer[c].incomingPkt
           queue == peer[c].incomingMessages
           request == pkt.type \in {"UPDATE", "FOLLOW"}
           longer == IF request THEN Append(queue, pkt) ELSE queue
           flag == peer[c].incomingQueueEmpty /\ ~request
           p == [peer[c] EXCEPT !.connector = "receive", !.incomingPkt = NoPacket,
                                !.incomingMessages = longer, !.incomingQueueEmpty = flag]
<1>1. /\ peer[c] \in Peers /\ pkt \in Packets /\ queue \in Seq(Packets)
      /\ peer[c].executed \in Seq(Packets) /\ toServer[c] \in Seq(Packets)
      /\ NoPacket \in Packets /\ NoPacket.type = "none"
  BY ConnectionTypes DEF Typed
<1>2. /\ peer[c].signedIn /\ pkt.type # "SIGN_IN" /\ pkt # NoPacket
      /\ request => peer[c].speaker # "work"
  BY DEF HandleRequest, ConnectionOK, ConnectorOK, Up, serverShutdownNotice
<1>3. ~peer[c].clientShutdownNotice /\ "server" \notin closed[c]
  BY <1>2 DEF ConnectionOK, ConnectorOK
<1>4. peer' = [peer EXCEPT ![c] = p]
  <2>1. peer' = [peer EXCEPT ![c] = [Handled(c, "receive") EXCEPT
                    !.incomingMessages = longer, !.incomingQueueEmpty = flag]]
    BY <1>1 DEF HandleRequest, Handled, Peers
  <2>2. [Handled(c, "receive") EXCEPT !.incomingMessages = longer, !.incomingQueueEmpty = flag] = p
    <3> HIDE DEF longer, flag
    <3> QED
      BY <1>1 DEF Handled, Peers
  <2> QED
    BY <2>1, <2>2
<1>5. longer \in Seq(Packets) /\ flag \in BOOLEAN
  BY <1>1, Appended
<1> HIDE DEF longer, flag
<1>6. p \in Peers
  BY <1>1, <1>5 DEF Peers
<1>7. ConnectionOnly(c) /\ peer'[c] = p
  <2> HIDE DEF p
  <2> QED
    BY <1>4, <1>6, PeerStep
<1>8. /\ KeepsSession(c) /\ KeepsOutgoing(c) /\ KeepsTweets(c) /\ KeepsThreads(c)
      /\ peer'[c].connector = "receive" /\ peer'[c].incomingPkt = NoPacket
      /\ peer'[c].executed = peer[c].executed /\ peer'[c].next = peer[c].next
      /\ peer'[c].incomingMessages = longer
  BY <1>1, <1>7 DEF KeepsSession, KeepsOutgoing, KeepsTweets, KeepsThreads, Peers
<1> HIDE DEF p
<1>9. UNCHANGED <<server, at, toServer, toClient, closed>>
  BY DEF netVars
<1>10. ~Asking(c) /\ ~Asking(c)'
  BY <1>1, <1>2, <1>8, <1>9, NoOtherSignIn DEF Asking
<1>11. AskingOK(c)' /\ AwaitedOK(c)' /\ CurrentOK(c)'
  BY <1>8, <1>9, <1>10, ClientWaitsOn DEF ConnectionOK, KeepsSession
<1>12. Len(queue) \in Nat /\ Len(longer) \in Nat /\ Len(longer) >= Len(queue)
  BY <1>1, SequenceFacts, AppendProperties DEF longer
<1>13. /\ (~Made(c) => Untouched(c))' /\ ConnectorOK(c)' /\ OthersOK(c)' /\ SignInOK(c)'
  <2>1. (~Made(c) => Untouched(c))' /\ ConnectorOK(c)' /\ SignInOK(c)'
    BY <1>1, <1>2, <1>3, <1>8, <1>9 DEF ConnectionOK, ConnectorOK, SignInOK, KeepsSession, Made
  <2>2. peer'[c].next \in 1..(Len(longer) + 1)
    BY <1>1, <1>8, <1>12 DEF ConnectionOK, OthersOK
  <2>3. OthersOK(c)'
    BY <1>8, <2>2 DEF ConnectionOK, OthersOK, KeepsThreads, KeepsTweets
  <2> QED
    BY <2>1, <2>3
<1>14. Done(c)' \o Coming(c)' = Done(c) \o Coming(c) /\ Coming(c)' \in Seq(Packets)
  <2> DEFINE one == <<pkt>>
             rest == Requests(toServer[c])
  <2>1. /\ one \in Seq(Packets) /\ rest \in Seq(Packets)
        /\ Requests(one) = IF request THEN one ELSE <<>>
        /\ Requests(<<NoPacket>>) = <<>>
    BY <1>1, StreamOfOne, StreamOfConcat
  <2>2. Coming(c) = Requests(one) \o rest
    BY DEF Coming
  <2>3. Coming(c)' = rest
    <3>1. Coming(c)' = Requests(<<NoPacket>>) \o rest
      BY <1>8, <1>9 DEF Coming
    <3> QED
      BY <2>1, <3>1, NothingAdded
  <2>4. CASE ~request
    <3>1. longer = queue /\ Coming(c) = rest
      BY <2>1, <2>2, <2>4, NothingAdded DEF longer
    <3> QED
      BY <1>8, <2>1, <2>3, <3>1 DEF Done, Queued
  <2>5. CASE request
    <3>1. longer = queue \o one /\ peer[c].next = 1 /\ Coming(c) = one \o rest
      BY <1>1, <1>2, <2>1, <2>2, <2>5, Appended DEF longer, ConnectionOK, OthersOK
    <3>2. Done(c) = peer[c].executed \o queue
      BY <1>1, <3>1, SubSeqFull DEF Done, Queued
    <3>3. Done(c)' = peer[c].executed \o longer
      <4>1. SubSeq(longer, 1, Len(longer)) = longer
        BY <1>5, SubSeqFull
      <4> QED
        BY <1>8, <3>1, <4>1 DEF Done, Queued
    <3> HIDE DEF one, rest, queue
    <3> DEFINE done == peer[c].executed
    <3>4. done \in Seq(Packets) /\ queue \in Seq(Packets)
      BY <1>1
    <3> HIDE DEF done
    <3>5. /\ (done \o (queue \o one)) \o rest = done \o ((queue \o one) \o rest)
          /\ (queue \o one) \o rest = queue \o (one \o rest)
          /\ (done \o queue) \o (one \o rest) = done \o (queue \o (one \o rest))
      <4>1. one \in Seq(Packets) /\ rest \in Seq(Packets)
        BY <2>1
      <4>2. (queue \o one) \o rest = queue \o (one \o rest)
        BY <3>4, <4>1, Regroup
      <4>3. /\ Join(Join(done, queue), Join(one, rest)) = Join(done, Join(queue, Join(one, rest)))
            /\ Join(Join(done, Join(queue, one)), rest) = Join(done, Join(queue, Join(one, rest)))
        BY <3>4, <4>1, RegroupFour
      <4> QED
        BY <4>2, <4>3 DEF Join
    <3> QED
      BY <2>1, <2>3, <3>1, <3>2, <3>3, <3>5 DEF done
  <2> QED
    BY <2>4, <2>5
<1>15. Working(c)
  BY <1>2, <1>3 DEF Working, serverShutdownNotice
<1>16. RequestsOK(c)'
  BY <1>9, <1>14, <1>15 DEF ConnectionOK, RequestsOK, clientVars
<1>17. TweetsOK(c)'
  BY <1>8, <1>9, <1>15 DEF ConnectionOK, TweetsOK, Flow, Tweets, KeepsOutgoing, KeepsTweets, clientVars
<1> QED
  BY <1>7, <1>11, <1>13, <1>16, <1>17 DEF ConnectionOK

-----------------------------------------------------------------------------
(* A write to the client.                                                  *)
LEMMA WriteStep ==
  ASSUME Typed, NEW c \in Connections, NEW p \in Peers, NEW out \in Seq(Packets),
         WriteToClient(c, out), UNCHANGED <<server, at, toServer, closed>>,
         peer' = [peer EXCEPT ![c] = p]
  PROVE  /\ ConnectionOnly(c) /\ peer'[c] = p
         /\ toServer'[c] = toServer[c] /\ closed'[c] = closed[c]
         /\ toClient'[c] = IF "client" \in closed[c] THEN toClient[c] ELSE toClient[c] \o out
<1>1. /\ peer' \in [Connections -> Peers] /\ peer'[c] = p
      /\ \A d \in Connections \ {c} : peer'[d] = peer[d]
  BY Updated DEF Typed, ServersTyped
<1> DEFINE stream == IF "client" \in closed[c] THEN toClient[c] ELSE toClient[c] \o out
<1>2. toClient[c] \in Seq(Packets) /\ stream \in Seq(Packets)
  BY ConnectionTypes, ConcatProperties DEF Typed
<1>3. toClient \in [Connections -> Seq(Packets)]
  BY DEF Typed, NetworkTyped
<1>4. /\ toClient' \in [Connections -> Seq(Packets)] /\ toClient'[c] = stream
      /\ \A d \in Connections \ {c} : toClient'[d] = toClient[d]
  <2>1. CASE "client" \in closed[c]
    BY <1>3, <2>1 DEF WriteToClient
  <2>2. CASE "client" \notin closed[c]
    <3>1. toClient' = [toClient EXCEPT ![c] = stream]
      BY <2>2 DEF WriteToClient
    <3> HIDE DEF stream
    <3> QED
      BY <1>2, <1>3, <3>1, Updated
  <2> QED
    BY <2>1, <2>2
<1> HIDE DEF stream
<1>5. ConnectionOnly(c)
  BY <1>1, <1>4 DEF ConnectionOnly, Typed, NetworkTyped
<1> QED
  BY <1>1, <1>4, <1>5 DEF stream

(* An answer to what the connector has received.                           *)
LEMMA AnswerPreserves ==
  ASSUME Typed, NEW c \in Connections, Made(c), ConnectionOK(c), UNCHANGED clientVars,
         NEW type \in {"ACK", "NACK", "SHUTDOWN_REQ"}, NEW place \in {"receive", "join"},
         Answers(c, type), peer' = [peer EXCEPT ![c] = Handled(c, place)],
         peer[c].connector \in {"handle", "sign_in"},
         ~peer[c].signedIn => type # "ACK",
         place = "receive" => ~peer[c].clientShutdownNotice,
         peer[c].signedIn /\ place = "receive" => peer[c].incomingPkt.type = "SIGN_IN"
  PROVE  ConnectionOnly(c) /\ ConnectionOK(c)'
<1> DEFINE answer == Packet(type, 0)
           out == <<answer>>
           notice == peer[c].clientShutdownNotice \/ place = "join"
           p == [peer[c] EXCEPT !.connector = place, !.incomingPkt = NoPacket,
                                !.clientShutdownNotice = notice]
           was == toClient[c]
<1>1. /\ peer[c] \in Peers /\ peer[c].incomingPkt \in Packets /\ was \in Seq(Packets)
      /\ toServer[c] \in Seq(Packets) /\ NoPacket \in Packets /\ NoPacket.type = "none"
      /\ peer[c].outgoingMessages \in Seq(Packets) /\ peer[c].outTweets \in Seq(Packets)
  BY ConnectionTypes DEF Typed
<1>2. answer \in Packets /\ answer.type = type /\ answer.type \notin {"UPDATE", "FOLLOW"}
  BY DEF Packet, Packets, Types
<1>3. notice \in BOOLEAN /\ peer' = [peer EXCEPT ![c] = p]
  BY DEF Handled
<1> HIDE DEF notice
<1>4. p \in Peers
  BY <1>1, <1>3 DEF Peers
<1> HIDE DEF answer
<1>5. out \in Seq(Packets) /\ Tweets(out) = <<>>
  BY <1>2, StreamOfOne
<1>6. UNCHANGED <<server, at, toServer, closed>> /\ WriteToClient(c, out)
  BY DEF Answers, answer
<1>7. /\ ConnectionOnly(c) /\ peer'[c] = p
      /\ toClient'[c] = IF "client" \in closed[c] THEN was ELSE was \o out
  <2> HIDE DEF p, out
  <2> QED
    BY <1>4, <1>5, <1>6, <1>3, WriteStep
<1>8. /\ KeepsRequests(c) /\ KeepsOutgoing(c) /\ KeepsTweets(c) /\ KeepsThreads(c)
      /\ peer'[c].signedIn = peer[c].signedIn
      /\ peer'[c].clientShutdownNotice = notice
      /\ peer'[c].connector = place /\ peer'[c].incomingPkt = NoPacket
  <2>1. peer[c] \in Peers /\ peer'[c] = p
    BY <1>1, <1>7
  <2>2. /\ p.signedIn = peer[c].signedIn /\ p.clientShutdownNotice = notice
        /\ p.connector = place /\ p.incomingPkt = NoPacket
    BY <2>1 DEF Peers
  <2>3. /\ p.executed = peer[c].executed /\ p.incomingMessages = peer[c].incomingMessages
        /\ p.next = peer[c].next /\ p.outgoingMessages = peer[c].outgoingMessages
        /\ p.outTweets = peer[c].outTweets /\ p.forwarded = peer[c].forwarded
        /\ p.speaker = peer[c].speaker /\ p.listener = peer[c].listener
    BY <2>1 DEF Peers
  <2> HIDE DEF p
  <2> QED
    BY <2>1, <2>2, <2>3 DEF KeepsRequests, KeepsOutgoing, KeepsTweets, KeepsThreads
<1> HIDE DEF p
<1>9. /\ \A k \in 1..Len(was) : k \in 1..Len(was \o out) /\ (was \o out)[k] = was[k]
      /\ \A k \in 1..Len(was \o out) : (was \o out)[k] \in {was[j] : j \in 1..Len(was)} \cup {answer}
      /\ was = <<>> => was \o out = out
      /\ was \o out # <<>>
      /\ was # <<>> => 1 \in 1..Len(was)
  <2>1. Len(was) \in Nat /\ Len(out) = 1 /\ out[1] = answer
    BY <1>1, <1>5, SequenceFacts
  <2>2. /\ was \o out \in Seq(Packets) /\ Len(was \o out) = Len(was) + 1
        /\ \A k \in 1..(Len(was) + 1) :
             (was \o out)[k] = IF k <= Len(was) THEN was[k] ELSE out[k - Len(was)]
    BY <1>1, <1>5, <2>1, ConcatProperties
  <2> HIDE DEF out
  <2>3. was = <<>> => was \o out = out
    BY <1>5, NothingAdded
  <2>4. was # <<>> => Len(was) # 0
    BY <1>1, EmptySeq
  <2>5. was \o out # <<>>
    BY <2>1, <2>2, EmptyStream
  <2>6. \A k \in 1..(Len(was) + 1) : k <= Len(was) \/ k - Len(was) = 1
    BY <2>1
  <2> QED
    BY <2>1, <2>2, <2>3, <2>4, <2>5, <2>6
<1>10. /\ (~Made(c) => Untouched(c))' /\ ConnectorOK(c)' /\ OthersOK(c)'
      /\ (NothingYet(c)' <=> NothingYet(c))
  <2>1. (~Made(c) => Untouched(c))'
    BY <1>6 DEF Made
  <2>2. ConnectorOK(c)'
    BY <1>6, <1>8 DEF ConnectionOK, ConnectorOK, notice
  <2>3. OthersOK(c)' /\ (NothingYet(c)' <=> NothingYet(c))
    BY <1>8 DEF ConnectionOK, OthersOK, NothingYet, KeepsThreads, KeepsRequests, KeepsOutgoing,
         KeepsTweets
  <2> QED
    BY <2>1, <2>2, <2>3
<1>11. /\ ~peer[c].signedIn /\ Refusals(was) => Refusals(toClient[c])'
       /\ toClient'[c] # <<>> => \/ was # <<>> /\ toClient'[c][1] = was[1]
                                 \/ toClient'[c][1] = answer
       /\ toClient'[c] = <<>> => "client" \in closed[c]
  <2>1. toClient'[c] \in {was, was \o out}
    BY <1>7
  <2>2. ~peer[c].signedIn /\ Refusals(was) => Refusals(was \o out)
    BY <1>2, <1>9 DEF Refusals
  <2>3. /\ was # <<>> => (was \o out)[1] = was[1]
        /\ was = <<>> => (was \o out)[1] = answer
    BY <1>9
  <2> HIDE DEF out, was
  <2>4. toClient[c]' = toClient'[c]
    OBVIOUS
  <2>5. ~peer[c].signedIn /\ Refusals(was) => Refusals(toClient[c])'
    BY <2>1, <2>2 DEF Refusals
  <2>6. CASE "client" \in closed[c]
    BY <1>7, <2>5, <2>6
  <2>7. CASE "client" \notin closed[c]
    <3>1. toClient'[c] = was \o out
      BY <1>7, <2>7
    <3>2. was \o out # <<>>
      BY <1>9
    <3> QED
      BY <2>3, <2>5, <3>1, <3>2
  <2> QED
    BY <2>6, <2>7
<1> HIDE DEF out, was
<1>12. SignInOK(c)'
  BY <1>6, <1>8, <1>10, <1>11 DEF ConnectionOK, SignInOK, clientVars, was
<1>13. ~Asking(c)'
  BY <1>1, <1>6, <1>8, NoOtherSignIn DEF Asking
<1>14. AskingOK(c)' /\ AwaitedOK(c)' /\ CurrentOK(c)'
  <2>1. Current' = Current
    BY DEF Current, Behind, clientVars, Free
  <2>2. AskingOK(c)'
    BY <1>13 DEF AskingOK
  <2>3. AwaitedOK(c)'
    <3>1. SUFFICES ASSUME frontEnd.place = "answer", frontEnd.awaited = c
                   PROVE  /\ ~frontEnd.firstTime => ~peer[c].signedIn /\ Refusals(toClient[c])'
                          /\ toClient'[c] # <<>> =>
                               toClient'[c][1].type \in {"ACK", "NACK", "SHUTDOWN_REQ"}
                          /\ toClient'[c] = <<>> => "client" \in closed[c]
      BY <1>6, <1>8, <1>13 DEF AwaitedOK, clientVars
    <3>2. ~frontEnd.firstTime => ~peer[c].signedIn /\ Refusals(was)
      BY <3>1 DEF ConnectionOK, AwaitedOK, was
    <3>3. was # <<>> => was[1].type \in {"ACK", "NACK", "SHUTDOWN_REQ"}
      BY <3>1 DEF ConnectionOK, AwaitedOK, was
    <3> QED
      BY <1>2, <1>11, <3>2, <3>3
  <2>4. CurrentOK(c)'
    BY <1>6, <1>8, <2>1 DEF ConnectionOK, CurrentOK, clientVars
  <2> QED
    BY <2>2, <2>3, <2>4
<1>15. Working(c)' => Working(c) /\ Coming(c)' = Coming(c)
  <2>1. SUFFICES ASSUME Working(c)'
                 PROVE  Working(c) /\ Coming(c)' = Coming(c)
    OBVIOUS
  <2>2. peer[c].signedIn /\ place = "receive" /\ Working(c)
    BY <1>6, <1>8, <2>1 DEF Working, Made, notice
  <2>3. peer[c].incomingPkt.type = "SIGN_IN"
    BY <2>2
  <2>4. Requests(<<peer[c].incomingPkt>>) = <<>> /\ Requests(<<NoPacket>>) = <<>>
    BY <1>1, <2>3, StreamOfOne
  <2> QED
    BY <1>6, <1>8, <2>2, <2>4 DEF Coming
<1>16. Done(c)' = Done(c) /\ (Working(c)' /\ "client" \notin closed[c] => Flow(c)' = Flow(c))
  <2>1. Done(c)' = Done(c)
    BY <1>8 DEF Done, Queued, KeepsRequests
  <2>2. Tweets(was \o out) = Tweets(was)
    <3>1. Tweets(was \o out) = Tweets(was) \o Tweets(out) /\ Tweets(was) \in Seq(Packets)
      BY <1>1, <1>5, StreamOfConcat
    <3> QED
      BY <1>5, <3>1, NothingAdded
  <2> QED
    BY <1>7, <1>8, <2>1, <2>2 DEF Flow, Tweets, KeepsOutgoing, KeepsTweets, was
<1>17. RequestsOK(c)' /\ TweetsOK(c)'
  BY <1>6, <1>8, <1>15, <1>16 DEF ConnectionOK, RequestsOK, TweetsOK, clientVars, KeepsTweets
<1> QED
  BY <1>7, <1>10, <1>12, <1>14, <1>17 DEF ConnectionOK

LEMMA HandleShutdownPreserves ==
  ASSUME Typed, NEW c \in Connections, Made(c), ConnectionOK(c), UNCHANGED clientVars,
         peer[c].connector = "handle", HandleShutdown(c)
  PROVE  ConnectionOnly(c) /\ ConnectionOK(c)'
<1>1. Answers(c, "SHUTDOWN_REQ") /\ peer' = [peer EXCEPT ![c] = Handled(c, "join")]
  BY DEF HandleShutdown
<1> QED
  BY <1>1, AnswerPreserves

LEMMA HandleUnauthenticatedPreserves ==
  ASSUME Typed, NEW c \in Connections, Made(c), ConnectionOK(c), UNCHANGED clientVars,
         peer[c].connector = "handle", ~serverShutdownNotice(c), HandleUnauthenticated(c)
  PROVE  ConnectionOnly(c) /\ ConnectionOK(c)'
<1>1. /\ Answers(c, "NACK") /\ peer' = [peer EXCEPT ![c] = Handled(c, "receive")]
      /\ ~peer[c].signedIn
  BY DEF HandleUnauthenticated
<1>2. ~peer[c].clientShutdownNotice
  BY DEF ConnectionOK, ConnectorOK, Up, serverShutdownNotice
<1> QED
  BY <1>1, <1>2, AnswerPreserves

LEMMA AnswerSignInPreserves ==
  ASSUME Typed, NEW c \in Connections, Made(c), ConnectionOK(c), UNCHANGED clientVars,
         AnswerSignIn(c)
  PROVE  ConnectionOnly(c) /\ ConnectionOK(c)'
<1>1. peer[c].connector = "sign_in" /\ peer[c].incomingPkt.type = "SIGN_IN"
  BY DEF AnswerSignIn, ConnectionOK, ConnectorOK
<1>2. ~peer[c].clientShutdownNotice
  BY <1>1, ConnectionTypes DEF ConnectionOK, ConnectorOK, Typed
<1>3. PICK ok \in BOOLEAN :
        /\ ok => peer[c].signedIn
        /\ Answers(c, IF ok THEN "ACK" ELSE "NACK")
        /\ peer' = [peer EXCEPT ![c] = Handled(c, IF ok THEN "receive" ELSE "join")]
  BY DEF AnswerSignIn
<1>4. CASE ok
  <2>1. /\ peer[c].signedIn /\ Answers(c, "ACK")
        /\ peer' = [peer EXCEPT ![c] = Handled(c, "receive")]
    BY <1>3, <1>4
  <2> QED
    BY <1>1, <1>2, <2>1, AnswerPreserves
<1>5. CASE ~ok
  <2>1. Answers(c, "NACK") /\ peer' = [peer EXCEPT ![c] = Handled(c, "join")]
    BY <1>3, <1>5
  <2> QED
    BY <1>1, <2>1, AnswerPreserves
<1> QED
  BY <1>4, <1>5

(* The outgoing queue is written: before the sign-in is answered there is  *)
(* nothing in it.                                                          *)
LEMMA SendOutgoingPreserves ==
  ASSUME Typed, NEW c \in Connections, Made(c), ConnectionOK(c), UNCHANGED clientVars,
         SendOutgoing(c)
  PROVE  ConnectionOnly(c) /\ ConnectionOK(c)'
<1> DEFINE out == peer[c].outgoingMessages
           was == toClient[c]
           more == peer[c].incomingPkt # NoPacket \/ serverShutdownNotice(c)
           place == IF more THEN "handle"
                    ELSE IF peer[c].clientShutdownNotice THEN "join" ELSE "receive"
           flag == out # <<>> \/ peer[c].outgoingQueueEmpty
           p == [peer[c] EXCEPT !.connector = place, !.outgoingMessages = <<>>,
                                !.outgoingQueueEmpty = flag]
<1>1. /\ peer[c] \in Peers /\ out \in Seq(Packets) /\ was \in Seq(Packets)
      /\ peer[c].outTweets \in Seq(Packets) /\ NoPacket.type = "none"
  BY ConnectionTypes DEF Typed
<1>2. /\ peer[c].connector = "send" /\ UNCHANGED <<server, at, toServer, closed>>
      /\ WriteToClient(c, out) /\ peer' = [peer EXCEPT ![c] = p]
  BY DEF SendOutgoing
<1>3. place \in {"handle", "join", "receive"} /\ flag \in BOOLEAN
  BY <1>1 DEF Peers
<1> HIDE DEF place, flag
<1>4. p \in Peers
  BY <1>1, <1>3, EmptyStream DEF Peers
<1>5. /\ ConnectionOnly(c) /\ peer'[c] = p
      /\ toClient'[c] = IF "client" \in closed[c] THEN was ELSE was \o out
  <2> HIDE DEF p, out
  <2> QED
    BY <1>1, <1>2, <1>4, WriteStep
<1>6. /\ KeepsRequests(c) /\ KeepsSession(c) /\ KeepsTweets(c) /\ KeepsThreads(c)
      /\ peer'[c].connector = place /\ peer'[c].incomingPkt = peer[c].incomingPkt
      /\ peer'[c].outgoingMessages = <<>>
  <2>1. p.connector = place /\ p.incomingPkt = peer[c].incomingPkt /\ p.outgoingMessages = <<>>
    BY <1>1 DEF Peers
  <2>2. /\ p.executed = peer[c].executed /\ p.incomingMessages = peer[c].incomingMessages
        /\ p.next = peer[c].next
        /\ p.outTweets = peer[c].outTweets /\ p.forwarded = peer[c].forwarded
        /\ p.speaker = peer[c].speaker /\ p.listener = peer[c].listener
        /\ p.signedIn = peer[c].signedIn /\ p.clientShutdownNotice = peer[c].clientShutdownNotice
    BY <1>1 DEF Peers
  <2> HIDE DEF p
  <2> QED
    BY <1>5, <2>1, <2>2 DEF KeepsRequests, KeepsSession, KeepsTweets, KeepsThreads
<1> HIDE DEF p
<1>7. ~peer[c].signedIn => out = <<>> /\ toClient'[c] = was
  <2>1. ~peer[c].signedIn => out = <<>>
    BY DEF ConnectionOK, SignInOK, NothingYet
  <2>2. was \o <<>> = was
    BY <1>1, NothingAdded
  <2> QED
    BY <1>5, <2>1, <2>2
<1>8. "server" \notin closed[c]
  BY <1>2 DEF ConnectionOK, ConnectorOK
<1>9. (~Made(c) => Untouched(c))' /\ ConnectorOK(c)' /\ OthersOK(c)' /\ SignInOK(c)'
  <2>1. (~Made(c) => Untouched(c))'
    BY <1>2 DEF Made
  <2>2. ConnectorOK(c)'
    BY <1>2, <1>6, <1>8 DEF ConnectionOK, ConnectorOK, KeepsSession, place, Up, serverShutdownNotice
  <2>3. OthersOK(c)'
    BY <1>6 DEF ConnectionOK, OthersOK, KeepsThreads, KeepsRequests, KeepsTweets
  <2>4. SignInOK(c)'
    BY <1>2, <1>6, <1>7 DEF ConnectionOK, SignInOK, NothingYet, Refusals, KeepsThreads,
         KeepsRequests, KeepsSession, KeepsTweets, clientVars
  <2> QED
    BY <2>1, <2>2, <2>3, <2>4
<1>10. Asking(c)' <=> Asking(c)
  BY <1>2, <1>6 DEF Asking
<1>11. Asking(c) => ~peer[c].signedIn /\ AskedOnly(c) /\ peer[c].incomingPkt # NoPacket
  <2>1. Asking(c) => AskedOnly(c) /\ ~peer[c].signedIn
    BY <1>2, AskingIsAlone DEF AskedOnly
  <2> QED
    BY <1>1, <1>2, <2>1, NoOtherSignIn
<1>12. Asking(c) => AskedOnly(c)'
  BY <1>2, <1>6, <1>7, <1>11 DEF AskedOnly, KeepsSession, KeepsRequests, clientVars, place
<1>13. AskingOK(c)' /\ AwaitedOK(c)' /\ CurrentOK(c)'
  <2>1. Current' = Current
    BY DEF Current, Behind, clientVars, Free
  <2>2. AskingOK(c)' /\ CurrentOK(c)'
    BY <1>2, <1>6, <1>10, <1>12, <2>1 DEF ConnectionOK, AskingOK, CurrentOK, ClientRuns, KeepsSession,
         clientVars
  <2>3. AwaitedOK(c)'
    <3>1. CASE toClient'[c] = toClient[c]
      BY <1>2, <1>6, <1>10, <3>1 DEF ConnectionOK, AwaitedOK, Refusals, KeepsSession, clientVars
    <3>2. CASE toClient'[c] # toClient[c]
      <4>1. peer[c].signedIn /\ ~Asking(c) /\ "client" \notin closed[c] /\ toClient'[c] = was \o out
        BY <1>5, <1>7, <1>11, <3>2
      <4>2. SUFFICES ASSUME frontEnd.place = "answer", frontEnd.awaited = c
                     PROVE  /\ frontEnd.firstTime /\ toClient'[c] # <<>>
                            /\ toClient'[c][1].type \in {"ACK", "NACK", "SHUTDOWN_REQ"}
        BY DEF AwaitedOK, clientVars
      <4>3. closed[c] \cap {"client", "server"} = {}
        BY <1>8, <4>1
      <4>4. frontEnd.firstTime /\ was # <<>> /\ was[1].type \in {"ACK", "NACK", "SHUTDOWN_REQ"}
        BY <4>1, <4>2, <4>3 DEF ConnectionOK, AwaitedOK
      <4>5. Len(was) \in Nat \ {0} /\ Len(out) \in Nat
        BY <1>1, <4>4, EmptySeq, SequenceFacts
      <4>6. (was \o out)[1] = was[1] /\ Len(was \o out) # 0
        <5>1. /\ Len(was \o out) = Len(was) + Len(out)
              /\ \A i \in 1..(Len(was) + Len(out)) :
                   (was \o out)[i] = IF i <= Len(was) THEN was[i] ELSE out[i - Len(was)]
          BY <1>1, ConcatProperties
        <5> DEFINE m == Len(was)
                   n == Len(out)
        <5>2. m \in Nat \ {0} /\ n \in Nat
          BY <4>5
        <5> HIDE DEF m, n
        <5>3. 1 \in 1..(m + n) /\ 1 <= m /\ m + n # 0
          BY <5>2
        <5>4. 1 \in 1..(Len(was) + Len(out)) /\ 1 <= Len(was) /\ Len(was) + Len(out) # 0
          BY <5>3 DEF m, n
        <5> QED
          BY <5>1, <5>4
      <4> QED
        BY <4>1, <4>4, <4>6, EmptyStream
    <3> QED
      BY <3>1, <3>2
  <2> QED
    BY <2>2, <2>3
<1>14. Done(c)' = Done(c) /\ Coming(c)' = Coming(c) /\ Working(c)' = Working(c)
  BY <1>2, <1>6 DEF Done, Queued, Coming, Requests, Working, Made, KeepsSession, KeepsRequests
<1>15. "client" \notin closed[c] => Flow(c)' = Flow(c)
  <2> DEFINE t == Tweets(was)
             o == Tweets(out)
             r == peer[c].outTweets
  <2>1. /\ t \in Seq(Packets) /\ o \in Seq(Packets) /\ r \in Seq(Packets)
        /\ Tweets(was \o out) = t \o o
    BY <1>1, StreamOfConcat
  <2>2. Flow(c) = t \o (o \o r)
    BY DEF Flow
  <2>3. "client" \notin closed[c] => Flow(c)' = Tweets(was \o out) \o (Tweets(<<>>) \o r)
    BY <1>5, <1>6 DEF Flow, Tweets, KeepsTweets
  <2> HIDE DEF t, o, r
  <2>4. Tweets(<<>>) \o r = r /\ (t \o o) \o r = t \o (o \o r)
    BY <2>1, EmptyStream, NothingAdded, Regroup
  <2> QED
    BY <2>1, <2>2, <2>3, <2>4
<1>16. RequestsOK(c)' /\ TweetsOK(c)'
  BY <1>2, <1>6, <1>14, <1>15 DEF ConnectionOK, RequestsOK, TweetsOK, clientVars, KeepsTweets
<1> QED
  BY <1>5, <1>9, <1>13, <1>16 DEF ConnectionOK

-----------------------------------------------------------------------------
(* The end of a connection at the server, and of the server.  Whatever is  *)
(* in the threads' hands is gone, but nothing has been executed or         *)
(* forwarded out of order.                                                 *)
LEMMA ConnectionEnds ==
  ASSUME NEW c \in Connections, ConnectionOK(c), UNCHANGED <<at, clientVars>>,
         toServer'[c] = <<>>, toClient'[c] = toClient[c], closed'[c] = closed[c] \cup {"server"},
         Made(c), NoPacket.type = "none",
         peer'[c].connector = "closed", peer'[c].incomingPkt = NoPacket,
         OthersOK(c)', ~Working(c)',
         ~peer'[c].signedIn => NothingYet(c)',
         \/ Done(c)' = Done(c) /\ peer'[c].signedIn = peer[c].signedIn
         \/ Done(c)' = <<>> /\ ~peer'[c].signedIn,
         history.sent[c] \in Seq(Packets)
  PROVE  ConnectionOK(c)'
<1>1. (~Made(c) => Untouched(c))' /\ ConnectorOK(c)' /\ SignInOK(c)'
  BY DEF Made, ConnectorOK, SignInOK
<1>2. ~Asking(c)'
  <2>1. \A k \in 1..Len(<<>>) : FALSE
    BY EmptyStream
  <2> QED
    BY <2>1 DEF Asking
<1>3. Current' = Current
  BY DEF Current, Behind, clientVars, Free
<1>4. AskingOK(c)' /\ AwaitedOK(c)' /\ CurrentOK(c)'
  BY <1>2, <1>3 DEF ConnectionOK, AskingOK, AwaitedOK, CurrentOK, Refusals, clientVars
<1>5. RequestsOK(c)' /\ TweetsOK(c)'
  <2>1. <<>> \o history.sent[c] = history.sent[c]
    BY NothingAdded
  <2> QED
    BY <2>1 DEF ConnectionOK, RequestsOK, TweetsOK, clientVars
<1> QED
  BY <1>1, <1>4, <1>5 DEF ConnectionOK

LEMMA CloseConnectionPreserves ==
  ASSUME Typed, NEW c \in Connections, Made(c), ConnectionOK(c), UNCHANGED clientVars,
         CloseConnection(c)
  PROVE  ConnectionOnly(c) /\ ConnectionOK(c)'
<1> DEFINE p == [peer[c] EXCEPT !.connector = "closed"]
<1>1. peer[c] \in Peers /\ NoPacket.type = "none" /\ NoPacket \in Packets
  BY ConnectionTypes DEF Typed
<1>2. /\ peer[c].connector = "join" /\ UNCHANGED <<server, at, toClient>>
      /\ peer' = [peer EXCEPT ![c] = p]
      /\ toServer' = [d \in Connections |-> IF d \in {c} THEN <<>> ELSE toServer[d]]
      /\ closed' = [d \in Connections |-> closed[d] \cup IF d \in {c} THEN {"server"} ELSE {}]
  BY DEF CloseConnection, ServerCloses
<1>3. p \in Peers
  BY <1>1 DEF Peers
<1>4. ConnectionOnly(c) /\ peer'[c] = p
  <2> HIDE DEF p
  <2>1. /\ peer' \in [Connections -> Peers] /\ peer'[c] = p
        /\ \A d \in Connections \ {c} : peer'[d] = peer[d]
    BY <1>2, <1>3, Updated DEF Typed, ServersTyped
  <2>2. /\ toServer' \in [Connections -> Seq(Packets)]
        /\ \A d \in Connections \ {c} : toServer'[d] = toServer[d]
    BY <1>2, EmptyStream DEF Typed, NetworkTyped
  <2>3. /\ closed' \in [Connections -> SUBSET {"client", "server", "reset"}]
        /\ \A d \in Connections \ {c} : closed'[d] = closed[d]
    BY <1>2 DEF Typed, NetworkTyped
  <2> QED
    BY <1>2, <2>1, <2>2, <2>3 DEF ConnectionOnly, Typed, NetworkTyped
<1>5. toServer'[c] = <<>> /\ closed'[c] = closed[c] \cup {"server"} /\ toClient'[c] = toClient[c]
  BY <1>2
<1>6. /\ KeepsSession(c) /\ KeepsRequests(c) /\ KeepsOutgoing(c) /\ KeepsTweets(c) /\ KeepsThreads(c)
      /\ peer'[c].connector = "closed" /\ peer'[c].incomingPkt = peer[c].incomingPkt
  BY <1>1, <1>4 DEF KeepsSession, KeepsRequests, KeepsOutgoing, KeepsTweets, KeepsThreads, Peers
<1> HIDE DEF p
<1>7. peer[c].clientShutdownNotice /\ peer[c].incomingPkt = NoPacket
  BY <1>2 DEF ConnectionOK, ConnectorOK
<1>8. OthersOK(c)' /\ (NothingYet(c)' <=> NothingYet(c)) /\ Done(c)' = Done(c)
  <2>1. OthersOK(c)' /\ (NothingYet(c)' <=> NothingYet(c))
    BY <1>6 DEF ConnectionOK, OthersOK, NothingYet, KeepsThreads, KeepsRequests, KeepsOutgoing,
         KeepsTweets
  <2>2. Done(c)' = Done(c)
    BY <1>6 DEF Done, Queued, KeepsRequests
  <2> QED
    BY <2>1, <2>2
<1>9. ~Working(c)' /\ (~peer'[c].signedIn => NothingYet(c)')
  BY <1>6, <1>7, <1>8 DEF Working, KeepsSession, ConnectionOK, SignInOK
<1>10. history.sent[c] \in Seq(Packets)
  BY DEF Typed, ClientTyped, Histories
<1> QED
  BY <1>1, <1>2, <1>4, <1>5, <1>6, <1>7, <1>8, <1>9, <1>10, ConnectionEnds DEF KeepsSession

(* What a server leaves behind.                                            *)
ServerOnly ==
  /\ UNCHANGED at
  /\ server' \in [Servers -> {"up", "stopping", "joining", "down"}]
  /\ \A s \in Servers : server'[s] = "up" => server[s] = "up"
  /\ peer' \in [Connections -> Peers]
  /\ toServer' \in [Connections -> Seq(Packets)]
  /\ toClient' \in [Connections -> Seq(Packets)]
  /\ closed' \in [Connections -> SUBSET {"client", "server", "reset"}]

LEMMA ConnectionsMade ==
  ASSUME NetworkTyped
  PROVE  /\ Len(at) \in Nat
         /\ \A c \in Connections : Made(c) <=> c \in 1..Len(at)
         /\ \A c \in Connections : Made(c) => at[c] \in Servers
         /\ \A c \in 1..Len(at) : c \in Connections
<1>1. Len(at) \in Nat /\ Len(at) <= MaxConnections /\ \A c \in 1..Len(at) : at[c] \in Servers
  BY SequenceFacts DEF NetworkTyped
<1>2. MaxConnections \in Nat
  BY NetworkAssumption
<1> QED
  BY <1>1, <1>2 DEF Made, Connections

LEMMA ServerEndsPreserves ==
  ASSUME Typed, \A c \in Connections : ConnectionOK(c), UNCHANGED clientVars,
         NEW s \in Servers, ServerEnds(s)
  PROVE  ServerOnly /\ \A c \in Connections : ConnectionOK(c)'
<1> DEFINE mine == ConnectionsOf(s)
           p == [NewPeer EXCEPT !.connector = "closed"]
<1>1. /\ server' = [server EXCEPT ![s] = "down"] /\ UNCHANGED <<at, toClient>>
      /\ peer' = [c \in Connections |-> IF c \in mine THEN p ELSE peer[c]]
      /\ toServer' = [c \in Connections |-> IF c \in mine THEN <<>> ELSE toServer[c]]
      /\ closed' = [c \in Connections |-> closed[c] \cup IF c \in mine THEN {"server"} ELSE {}]
  BY DEF ServerEnds, ServerCloses
<1>2. NoPacket \in Packets /\ NoPacket.type = "none"
  BY DEF NoPacket, Packet, Packets, Types
<1>3. p \in Peers
  BY <1>2, EmptyStream DEF NewPeer, Peers
<1>4. /\ p.connector = "closed" /\ p.incomingPkt = NoPacket /\ ~p.signedIn
      /\ p.incomingMessages = <<>> /\ p.next = 1 /\ p.speaker = "top" /\ p.listener = "pitstop"
      /\ p.outTweets = <<>> /\ p.executed = <<>> /\ p.outgoingMessages = <<>> /\ p.forwarded = <<>>
  BY DEF NewPeer
<1> HIDE DEF p
<1>5. ServerOnly
  <2>1. /\ server' \in [Servers -> {"up", "stopping", "joining", "down"}]
        /\ \A r \in Servers : server'[r] = "up" => server[r] = "up"
    BY <1>1 DEF Typed, NetworkTyped
  <2>2. peer' \in [Connections -> Peers]
    BY <1>1, <1>3 DEF Typed, ServersTyped
  <2>3. toServer' \in [Connections -> Seq(Packets)]
    BY <1>1, EmptyStream DEF Typed, NetworkTyped
  <2>4. closed' \in [Connections -> SUBSET {"client", "server", "reset"}]
    BY <1>1 DEF Typed, NetworkTyped
  <2> QED
    BY <1>1, <2>1, <2>2, <2>3, <2>4 DEF ServerOnly, Typed, NetworkTyped
<1>6. ASSUME NEW c \in Connections, c \notin mine
      PROVE  ConnectionOK(c)'
  <2>1. /\ peer'[c] = peer[c] /\ toServer'[c] = toServer[c] /\ toClient'[c] = toClient[c]
        /\ closed'[c] = closed[c] /\ UNCHANGED at
    BY <1>1, <1>6
  <2>2. Up(c)' => Up(c)
    BY <1>1, <1>5, ConnectionsMade DEF Up, Made, ServerOnly, Typed
  <2> QED
    BY <2>1, <2>2, ConnectionKept
<1>7. ASSUME NEW c \in Connections, c \in mine
      PROVE  ConnectionOK(c)'
  <2>1. /\ peer'[c] = p /\ toServer'[c] = <<>> /\ toClient'[c] = toClient[c]
        /\ closed'[c] = closed[c] \cup {"server"} /\ UNCHANGED at /\ Made(c)
    BY <1>1, <1>7 DEF ConnectionsOf
  <2>2. OthersOK(c)'
    BY <1>4, <2>1, EmptyStream DEF OthersOK
  <2>3. ~Working(c)' /\ NothingYet(c)' /\ ~peer'[c].signedIn
    BY <1>4, <2>1 DEF Working, NothingYet
  <2>4. Done(c)' = <<>>
    <3>1. SubSeq(<<>>, 1, Len(<<>>)) = <<>>
      BY EmptyStream, SubSeqEmpty
    <3> QED
      BY <1>4, <2>1, <3>1, EmptyStream, NothingAdded DEF Done, Queued
  <2>5. history.sent[c] \in Seq(Packets)
    BY DEF Typed, ClientTyped, Histories
  <2> QED
    BY <1>2, <1>4, <2>1, <2>2, <2>3, <2>4, <2>5, ConnectionEnds
<1> QED
  BY <1>5, <1>6, <1>7

LEMMA StopAcceptingPreserves ==
  ASSUME Typed, \A c \in Connections : ConnectionOK(c), UNCHANGED clientVars,
         NEW s \in Servers, StopAccepting(s)
  PROVE  ServerOnly /\ \A c \in Connections : ConnectionOK(c)'
<1> DEFINE unaccepted == {c \in ConnectionsOf(s) : peer[c].connector = "none"}
           p(c) == [peer[c] EXCEPT !.connector = "closed"]
<1>1. /\ server' = [server EXCEPT ![s] = "joining"] /\ UNCHANGED <<at, toClient>>
      /\ server[s] = "stopping"
      /\ peer' = [c \in Connections |-> IF c \in unaccepted THEN p(c) ELSE peer[c]]
      /\ toServer' = [c \in Connections |-> IF c \in unaccepted THEN <<>> ELSE toServer[c]]
      /\ closed' = [c \in Connections |->
                      closed[c] \cup IF c \in unaccepted THEN {"server"} ELSE {}]
  BY DEF StopAccepting, ServerCloses
<1>2. NoPacket \in Packets /\ NoPacket.type = "none"
  BY DEF NoPacket, Packet, Packets, Types
<1>3. ASSUME NEW c \in Connections
      PROVE  peer[c] \in Peers /\ p(c) \in Peers
  <2>1. peer[c] \in Peers
    BY ConnectionTypes DEF Typed
  <2> QED
    BY <2>1 DEF Peers
<1>4. ServerOnly
  <2>1. /\ server' \in [Servers -> {"up", "stopping", "joining", "down"}]
        /\ \A r \in Servers : server'[r] = "up" => server[r] = "up"
    BY <1>1 DEF Typed, NetworkTyped
  <2>2. peer' \in [Connections -> Peers]
    <3> HIDE DEF p, unaccepted
    <3> QED
      BY <1>1, <1>3
  <2>3. toServer' \in [Connections -> Seq(Packets)]
    BY <1>1, EmptyStream DEF Typed, NetworkTyped
  <2>4. closed' \in [Connections -> SUBSET {"client", "server", "reset"}]
    BY <1>1 DEF Typed, NetworkTyped
  <2> QED
    BY <1>1, <2>1, <2>2, <2>3, <2>4 DEF ServerOnly, Typed, NetworkTyped
<1>5. ASSUME NEW c \in Connections, c \notin unaccepted
      PROVE  ConnectionOK(c)'
  <2>1. /\ peer'[c] = peer[c] /\ toServer'[c] = toServer[c] /\ toClient'[c] = toClient[c]
        /\ closed'[c] = closed[c] /\ UNCHANGED at
    <3> HIDE DEF unaccepted
    <3> QED
      BY <1>1, <1>5
  <2>2. Up(c)' => Up(c)
    BY <1>1, <1>4, ConnectionsMade DEF Up, Made, ServerOnly, Typed
  <2> QED
    BY <2>1, <2>2, ConnectionKept
<1>6. ASSUME NEW c \in Connections, c \in unaccepted
      PROVE  ConnectionOK(c)'
  <2>1. /\ peer'[c] = p(c) /\ toServer'[c] = <<>> /\ toClient'[c] = toClient[c]
        /\ closed'[c] = closed[c] \cup {"server"} /\ UNCHANGED at
    <3> HIDE DEF unaccepted, p
    <3> QED
      BY <1>1, <1>6
  <2>2. Made(c) /\ at[c] = s /\ peer[c].connector = "none"
    BY <1>6 DEF ConnectionsOf
  <2>3. /\ KeepsSession(c) /\ KeepsRequests(c) /\ KeepsOutgoing(c) /\ KeepsTweets(c)
        /\ KeepsThreads(c)
        /\ peer'[c].connector = "closed" /\ peer'[c].incomingPkt = peer[c].incomingPkt
    <3>1. peer[c] \in Peers
      BY <1>3
    <3> QED
      BY <2>1, <3>1 DEF KeepsSession, KeepsRequests, KeepsOutgoing, KeepsTweets, KeepsThreads, Peers
  <2>4. peer[c].incomingPkt = NoPacket
    BY <2>2 DEF ConnectionOK, ConnectorOK
  <2>5. OthersOK(c)' /\ (NothingYet(c)' <=> NothingYet(c))
    BY <2>3 DEF ConnectionOK, OthersOK, NothingYet, KeepsThreads, KeepsRequests, KeepsOutgoing,
         KeepsTweets
  <2>6. Done(c)' = Done(c)
    BY <2>3 DEF Done, Queued, KeepsRequests
  <2>7. ~Working(c)' /\ (~peer'[c].signedIn => NothingYet(c)')
    <3>1. server'[s] = "joining"
      BY <1>1 DEF Typed, NetworkTyped
    <3> QED
      BY <2>1, <2>2, <2>3, <2>5, <3>1 DEF Working, KeepsSession, ConnectionOK, SignInOK
  <2>8. history.sent[c] \in Seq(Packets)
    BY DEF Typed, ClientTyped, Histories
  <2> HIDE DEF p, unaccepted
  <2> QED
    BY <1>2, <2>1, <2>2, <2>3, <2>4, <2>5, <2>6, <2>7, <2>8, ConnectionEnds DEF KeepsSession
<1> QED
  BY <1>4, <1>5, <1>6

LEMMA StopPreserves ==
  ASSUME Typed, \A c \in Connections : ConnectionOK(c), UNCHANGED clientVars,
         NEW s \in Servers, Stop(s)
  PROVE  ServerOnly /\ \A c \in Connections : ConnectionOK(c)'
<1>1. server' = [server EXCEPT ![s] = "stopping"]
      /\ UNCHANGED <<at, toServer, toClient, closed, peer>>
  BY DEF Stop, serverVars
<1>2. ServerOnly
  BY <1>1 DEF ServerOnly, Typed, NetworkTyped, ServersTyped
<1>3. ASSUME NEW c \in Connections
      PROVE  ConnectionOK(c)'
  <2>1. Up(c)' => Up(c)
    BY <1>1, <1>2, ConnectionsMade DEF Up, Made, ServerOnly, Typed
  <2> QED
    BY <1>1, <2>1, ConnectionKept
<1> QED
  BY <1>2, <1>3

(* Every step of the servers.                                              *)
LEMMA ConnectionStepPreserves ==
  ASSUME Typed, \A d \in Connections : ConnectionOK(d), UNCHANGED clientVars,
         ~ClientRuns => frontEnd.place = "ended",
         NEW c \in Connections, ConnectionStep(c)
  PROVE  ServerOnly /\ \A d \in Connections : ConnectionOK(d)'
<1>1. Made(c) /\ at[c] \in Servers
  BY ConnectionsMade DEF ConnectionStep, Alive, Typed
<1>2. ASSUME ConnectionOnly(c), ConnectionOK(c)'
      PROVE  ServerOnly /\ \A d \in Connections : ConnectionOK(d)'
  <2>1. ServerOnly
    BY <1>2 DEF ConnectionOnly, ServerOnly, Typed, NetworkTyped
  <2>2. ASSUME NEW d \in Connections, d # c
        PROVE  ConnectionOK(d)'
    BY <1>2, <2>2, ConnectionKept DEF ConnectionOnly, Up, Made
  <2> QED
    BY <1>2, <2>1, <2>2
<1>3. CASE Accept(c)
  BY <1>1, <1>2, <1>3, AcceptPreserves DEF Accept
<1>4. CASE Receive(c)
  BY <1>1, <1>2, <1>4, ReceivePreserves
<1>5. CASE ReceiveNothing(c)
  BY <1>1, <1>2, <1>5, ReceiveNothingPreserves DEF ReceiveNothing
<1>6. CASE SendOutgoing(c)
  BY <1>1, <1>2, <1>6, SendOutgoingPreserves
<1>7. CASE WriteKills(c)
  BY <1>1, <1>7, ServerEndsPreserves DEF WriteKills
<1>8. CASE Handle(c)
  <2>1. CASE HandleShutdown(c)
    BY <1>1, <1>2, <1>8, <2>1, HandleShutdownPreserves DEF Handle
  <2>2. CASE ~serverShutdownNotice(c) /\ Identify(c)
    BY <1>1, <1>2, <1>8, <2>2, IdentifyPreserves DEF Handle, Identify
  <2>3. CASE ~serverShutdownNotice(c) /\ HandleUnauthenticated(c)
    BY <1>1, <1>2, <1>8, <2>3, HandleUnauthenticatedPreserves DEF Handle
  <2>4. CASE ~serverShutdownNotice(c) /\ HandleRequest(c)
    BY <1>1, <1>2, <1>8, <2>4, HandleRequestPreserves DEF Handle, HandleRequest
  <2> QED
    BY <1>8, <2>1, <2>2, <2>3, <2>4 DEF Handle
<1>9. CASE AnswerSignIn(c)
  BY <1>1, <1>2, <1>9, AnswerSignInPreserves
<1>10. CASE CloseConnection(c)
  BY <1>1, <1>2, <1>10, CloseConnectionPreserves
<1>11. CASE SpeakerStep(c)
  BY <1>1, <1>2, <1>11, SpeakerTopPreserves, SpeakerWakesPreserves, ExecutePreserves,
     EndRoundPreserves DEF SpeakerStep, netVars
<1>12. CASE ListenerStep(c)
  BY <1>1, <1>2, <1>12, ListenerFetchesPreserves, ListenerForwardsPreserves, ListenerStopsPreserves
     DEF ListenerStep, ListenerFetches, ListenerForwards, ListenerStops
<1> QED
  BY <1>3, <1>4, <1>5, <1>6, <1>7, <1>8, <1>9, <1>10, <1>11, <1>12
     DEF ConnectionStep, ConnectorStep

(* What is said of the client alone holds on.                              *)
Counted == /\ posted \in [Servers -> Nat] /\ fetched \in [Servers -> Nat]
           /\ \A s \in Servers : fetched[s] <= posted[s]

LEMMA ServerSide ==
  ASSUME ConvInv, UNCHANGED <<clientVars, scenario>>, ServerOnly, Counted',
         \A c \in Connections : ConnectionOK(c)'
  PROVE  ConvInv'
<1>1. NetworkTyped'
  BY DEF ConvInv, Typed, NetworkTyped, ServerOnly
<1>2. ServersTyped'
  BY DEF ServersTyped, ServerOnly, Counted
<1>3. ClientTyped'
  BY DEF ConvInv, Typed, ClientTyped, ServerOnly, clientVars, Free, Unconnected, Histories
<1>4. ClientOK'
  <2>1. Current' = Current /\ Used' = Used /\ Tried' = Tried
    BY DEF Current, Behind, Used, Tried, clientVars, Free
  <2> QED
    BY <2>1 DEF ConvInv, ClientOK, WaitsAtFirst, SearchOK, SocketsSuffice, ClientRuns, ServerOnly,
         clientVars
<1> QED
  BY <1>1, <1>2, <1>3, <1>4 DEF ConvInv, Typed

LEMMA ServerStepPreserves ==
  ASSUME ConvInv, UNCHANGED <<clientVars, scenario>>,
         \/ \E c \in Connections : ConnectionStep(c)
         \/ \E s \in Servers : Stop(s) \/ ControllerStep(s) \/ Kill(s) \/ Post(s)
  PROVE  ConvInv'
<1>1. /\ Typed /\ Counted /\ (~ClientRuns => frontEnd.place = "ended")
      /\ \A d \in Connections : ConnectionOK(d)
  BY DEF ConvInv, ClientOK, Typed, ServersTyped, Counted
<1>2. ASSUME UNCHANGED <<posted, fetched>>
      PROVE  Counted'
  BY <1>1, <1>2 DEF Counted
<1>3. ASSUME NEW c \in Connections, ConnectionStep(c)
      PROVE  ConvInv'
  <2>1. ServerOnly /\ \A d \in Connections : ConnectionOK(d)'
    BY <1>1, <1>3, ConnectionStepPreserves
  <2>2. at[c] \in Servers
    BY <1>1, <1>3, ConnectionsMade DEF ConnectionStep, Alive, Typed
  <2>3. Counted'
    <3>1. CASE ListenerFetches(c)
      <4>1. fetched' = [fetched EXCEPT ![at[c]] = posted[at[c]]] /\ posted' = posted
        BY <3>1 DEF ListenerFetches
      <4> QED
        BY <1>1, <2>2, <4>1 DEF Counted
    <3>2. CASE ~ListenerFetches(c)
      <4>1. UNCHANGED <<posted, fetched>>
        BY <1>3, <3>2 DEF ConnectionStep, Accept, ConnectorStep, SpeakerStep, ListenerStep,
             ListenerForwards, ListenerStops
      <4> QED
        BY <1>2, <4>1
    <3> QED
      BY <3>1, <3>2
  <2> QED
    BY <2>1, <2>3, ServerSide
<1>4. ASSUME NEW s \in Servers, Stop(s)
      PROVE  ConvInv'
  BY <1>1, <1>2, <1>4, StopPreserves, ServerSide DEF Stop, serverVars
<1>5. ASSUME NEW s \in Servers, ControllerStep(s) \/ Kill(s)
      PROVE  ConvInv'
  <2>1. StopAccepting(s) \/ ServerEnds(s)
    BY <1>5 DEF ControllerStep, EndOfMain, Kill
  <2>2. UNCHANGED <<posted, fetched>>
    BY <1>5 DEF ControllerStep, StopAccepting, EndOfMain, Kill
  <2> QED
    BY <1>1, <1>2, <2>1, <2>2, StopAcceptingPreserves, ServerEndsPreserves, ServerSide
<1>6. ASSUME NEW s \in Servers, Post(s)
      PROVE  ConvInv'
  <2>1. /\ posted' = [posted EXCEPT ![s] = @ + 1] /\ fetched' = fetched
        /\ UNCHANGED <<server, at, toServer, toClient, closed, peer>>
    BY <1>6 DEF Post, netVars
  <2>2. Counted'
    BY <1>1, <2>1 DEF Counted
  <2>3. ServerOnly
    BY <1>1, <2>1 DEF ServerOnly, Typed, NetworkTyped, ServersTyped
  <2>4. ASSUME NEW c \in Connections
        PROVE  ConnectionOK(c)'
    BY <1>1, <2>1, ConnectionKept DEF Up, Made
  <2> QED
    BY <2>2, <2>3, <2>4, ServerSide
<1> QED
  BY <1>3, <1>4, <1>5, <1>6

-----------------------------------------------------------------------------
(* The steps of the client.  The parts of a connection that do not speak   *)
(* of the client's threads.                                                *)
LEMMA ConnectionSame ==
  ASSUME NEW c \in Connections, ConnectionOK(c), UNCHANGED <<server, peer>>,
         Made(c)' <=> Made(c), Made(c) => at'[c] = at[c],
         toServer'[c] = toServer[c], toClient'[c] = toClient[c],
         \/ closed'[c] = closed[c]
         \/ Made(c) /\ closed'[c] = closed[c] \cup {"reset"},
         history'.sent[c] = history.sent[c], history'.received[c] = history.received[c]
  PROVE  /\ Asking(c)' <=> Asking(c)
         /\ AskedOnly(c)' <=> AskedOnly(c)
         /\ AskingOK(c)' /\ AwaitedOK(c)' /\ CurrentOK(c)' => ConnectionOK(c)'
<1>1. (Asking(c)' <=> Asking(c)) /\ (AskedOnly(c)' <=> AskedOnly(c))
  BY DEF Asking, AskedOnly
<1>2. /\ Working(c)' <=> Working(c)
      /\ Up(c)' <=> Up(c)
  BY DEF Working, Up
<1>3. (~Made(c) => Untouched(c))'
  BY DEF ConnectionOK, Untouched
<1>4. ConnectorOK(c)' /\ OthersOK(c)' /\ SignInOK(c)'
  BY <1>2 DEF ConnectionOK, ConnectorOK, OthersOK, SignInOK, NothingYet, Refusals
<1>5. RequestsOK(c)' /\ TweetsOK(c)'
  BY <1>2 DEF ConnectionOK, RequestsOK, TweetsOK, Done, Coming, Queued, Flow, Requests, Tweets
<1> QED
  BY <1>1, <1>3, <1>4, <1>5 DEF ConnectionOK

KeepsHistory == /\ history' \in Histories
                /\ history'.sent = history.sent /\ history'.received = history.received

(* The main thread goes on, and the network and the front end do not.      *)
LEMMA MainMoves ==
  ASSUME ConvInv, ClientRuns, KeepsHistory,
         UNCHANGED <<netVars, serverVars, scenario, frontEnd, lookForServer, sockets, m_socket_num>>,
         main' \in {"watch", "first", "poll", "read", "send"},
         frontEnd.firstTime => main' \in {"watch", "first"},
         message' \in Messages \cup {NoMessage}, main' = "send" => message' # NoMessage,
         pollfd' \in {0} \cup Descriptors
  PROVE  ConvInv'
<1>1. NetworkTyped' /\ ServersTyped'
  BY DEF ConvInv, Typed, NetworkTyped, ServersTyped, netVars, serverVars
<1>2. ClientTyped'
  BY DEF ConvInv, Typed, ClientTyped, KeepsHistory, netVars, Free, Unconnected
<1>3. ClientRuns' /\ Current' = Current
  BY DEF ClientRuns, Ends, Current, Behind, Free
<1>4. ClientOK'
  <2>1. Used' = Used /\ Tried' = Tried
    BY DEF Used, Tried, Free
  <2> QED
    BY <1>3, <2>1 DEF ConvInv, ClientOK, WaitsAtFirst, SearchOK, SocketsSuffice, netVars
<1>5. ASSUME NEW c \in Connections
      PROVE  ConnectionOK(c)'
  <2>1. ConnectionOK(c)
    BY DEF ConvInv
  <2>2. /\ Asking(c)' <=> Asking(c)
        /\ AskedOnly(c)' <=> AskedOnly(c)
        /\ AskingOK(c)' /\ AwaitedOK(c)' /\ CurrentOK(c)' => ConnectionOK(c)'
    BY <2>1, ConnectionSame DEF KeepsHistory, netVars, serverVars, Made
  <2>3. AskingOK(c)' /\ AwaitedOK(c)' /\ CurrentOK(c)'
    BY <1>3, <2>1, <2>2 DEF ConnectionOK, AskingOK, AwaitedOK, CurrentOK, Refusals, netVars, serverVars
  <2> QED
    BY <2>2, <2>3
<1> QED
  BY <1>1, <1>2, <1>4, <1>5 DEF ConvInv, Typed

(* What holds of the client between two steps.                             *)
LEMMA ClientFacts ==
  ASSUME ConvInv
  PROVE  /\ Typed /\ ClientOK /\ NetworkTyped /\ ServersTyped /\ ClientTyped
         /\ \A c \in Connections : ConnectionOK(c)
         /\ ClientRuns /\ frontEnd.firstTime => main \in {"create", "watch", "first"} /\ lookForServer
         /\ frontEnd \in FrontEnds /\ history \in Histories
  BY DEF ConvInv, Typed, ClientTyped, ClientOK, WaitsAtFirst

LEMMA MainOnlyPreserves ==
  ASSUME ConvInv, UNCHANGED <<serverVars, scenario, m_socket_num>>,
         Start \/ WaitFirst \/ PollReadable \/ WaitLost \/ check_server_liveness
         \/ (\E type \in {"UPDATE", "FOLLOW"} : Command(type))
  PROVE  ConvInv'
<1>1. /\ ClientRuns /\ frontEnd.firstTime => main \in {"create", "watch", "first"} /\ lookForServer
      /\ message \in Messages \cup {NoMessage} /\ pollfd \in {0} \cup Descriptors
      /\ m_socket_num \in {0} \cup Descriptors /\ history \in Histories
      /\ NetworkTyped
  BY ClientFacts DEF ClientTyped
<1>2. UNCHANGED history => KeepsHistory
  BY <1>1 DEF KeepsHistory
<1>3. CASE Start
  BY <1>1, <1>2, <1>3, MainMoves DEF Start, MainGoes, ClientRuns, Ends
<1>4. CASE WaitFirst
  BY <1>1, <1>2, <1>4, MainMoves DEF WaitFirst, MainGoes, ClientRuns, Ends
<1>5. CASE PollReadable
  BY <1>1, <1>2, <1>5, MainMoves DEF PollReadable, MainGoes, ClientRuns, Ends
<1>6. CASE WaitLost
  BY <1>1, <1>2, <1>6, MainMoves DEF WaitLost, MainGoes, ClientRuns, Ends
<1>7. CASE check_server_liveness
  <2>1. Packet("KEEP_ALIVE", 0) \in Messages /\ Packet("KEEP_ALIVE", 0) # NoMessage
    BY DEF Packet, Messages, Packets, Types, NoMessage
  <2> QED
    BY <1>1, <1>2, <1>7, <2>1, MainMoves DEF check_server_liveness, MainGoes, ClientRuns, Ends
<1>8. ASSUME NEW type \in {"UPDATE", "FOLLOW"}, Command(type)
      PROVE  ConvInv'
  <2>1. history.requests \in Nat
    BY <1>1 DEF Histories
  <2>2. message' \in Messages /\ message' # NoMessage
    BY <1>8, <2>1 DEF Command, Packet, Messages, Packets, Types, NoMessage
  <2>3. KeepsHistory
    <3>1. history' = [history EXCEPT !.requests = history.requests + 1]
      BY <1>8 DEF Command
    <3> DEFINE Sequences == [Connections -> Seq(Packets)]
    <3>2. history \in [requests : Nat, sent : Sequences, received : Sequences]
      BY <1>1 DEF Histories
    <3> HIDE DEF Sequences
    <3>3. history' \in [requests : Nat, sent : Sequences, received : Sequences]
      BY <2>1, <3>1, <3>2
    <3>4. history'.sent = history.sent /\ history'.received = history.received
      BY <3>1, <3>2
    <3> QED
      BY <3>3, <3>4 DEF KeepsHistory, Histories, Sequences
  <2> QED
    BY <1>1, <1>8, <2>2, <2>3, MainMoves DEF Command, MainGoes, ClientRuns, Ends
<1> QED
  BY <1>3, <1>4, <1>5, <1>6, <1>7, <1>8

(* The client closes a connection.                                         *)
LEMMA ConnectionLeft ==
  ASSUME NEW c \in Connections, ConnectionOK(c), UNCHANGED <<server, peer, at>>, Made(c),
         toServer'[c] = toServer[c], toClient'[c] = <<>>, closed'[c] = closed[c] \cup {"client"},
         history'.sent[c] = history.sent[c], history'.received[c] = history.received[c]
  PROVE  /\ Asking(c)' <=> Asking(c)
         /\ AskedOnly(c) => AskedOnly(c)'
         /\ AskingOK(c)' /\ AwaitedOK(c)' /\ CurrentOK(c)' => ConnectionOK(c)'
<1>1. (Asking(c)' <=> Asking(c)) /\ (AskedOnly(c) => AskedOnly(c)')
  BY DEF Asking, AskedOnly
<1>2. /\ Working(c)' <=> Working(c)
      /\ Up(c)' <=> Up(c)
      /\ Made(c)'
  BY DEF Working, Up, Made
<1>3. ConnectorOK(c)' /\ OthersOK(c)'
  BY <1>2 DEF ConnectionOK, ConnectorOK, OthersOK
<1>4. SignInOK(c)'
  <2>1. Refusals(<<>>)
    BY EmptyStream DEF Refusals
  <2> QED
    BY <2>1 DEF ConnectionOK, SignInOK, NothingYet
<1>5. RequestsOK(c)' /\ TweetsOK(c)'
  BY <1>2 DEF ConnectionOK, RequestsOK, TweetsOK, Done, Coming, Queued, Requests
<1> QED
  BY <1>1, <1>2, <1>3, <1>4, <1>5 DEF ConnectionOK

(* Closing some of the connections that were made.                         *)
LEMMA ClosesTyped ==
  ASSUME NetworkTyped, NEW cs \in SUBSET (1..Len(at)), ClientCloses(cs), UNCHANGED scenario
  PROVE  NetworkTyped'
<1>1. closed' \in [Connections -> SUBSET {"client", "server", "reset"}]
  BY DEF ClientCloses, NetworkTyped
<1>2. toClient' \in [Connections -> Seq(Packets)]
  BY EmptyStream DEF ClientCloses, NetworkTyped
<1> QED
  BY <1>1, <1>2 DEF ClientCloses, NetworkTyped

LEMMA Attempts == NumServers \in Nat /\ 1 \in 1..(NumServers + 1) /\ 1 \in Descriptors
<1>1. NumServers \in Nat /\ MaxConnections \in Nat
  BY NetworkAssumption
<1> DEFINE more == NumServers * (MaxConnections + 1)
<1>2. more \in Nat
  BY <1>1
<1> HIDE DEF more
<1>3. 1 \in 1..(1 + more)
  BY <1>2
<1> QED
  BY <1>1, <1>3 DEF Descriptors, more

(* The process ends, however it does.                                      *)
LEMMA ExitPreserves ==
  ASSUME ConvInv, UNCHANGED <<serverVars, scenario, history>>, NEW how \in Ends, Exit(how)
  PROVE  ConvInv'
<1>1. /\ main' = how /\ message' = NoMessage
      /\ frontEnd' = [frontEnd EXCEPT !.place = "ended", !.attempt = 1, !.awaited = 0]
      /\ lookForServer' = FALSE /\ sockets' = [d \in Descriptors |-> Free]
      /\ m_socket_num' = 0 /\ pollfd' = 0 /\ ClientCloses(1..Len(at))
      /\ UNCHANGED <<peer, posted, fetched, server, at, toServer>>
  BY DEF Exit, ClientCloses, serverVars
<1>2. NetworkTyped' /\ ServersTyped'
  BY <1>1, ClientFacts, ClosesTyped DEF ServersTyped
<1>3. frontEnd' \in FrontEnds /\ frontEnd'.place = "ended"
  BY <1>1, ClientFacts, Attempts DEF FrontEnds
<1>4. ClientTyped'
  BY <1>1, <1>3, ClientFacts DEF ClientTyped, Free, Unconnected, Histories
<1>5. ~ClientRuns' /\ Current' = 0 /\ main' # "send"
  BY <1>1 DEF ClientRuns, Current, Behind, Free, Ends
<1>6. ClientOK'
  <2>1. Used' = {}
    BY <1>1 DEF Used, Free
  <2>2. Cardinality(Used') = 0 /\ Tried' = 0
    BY <1>3, <2>1, FS_EmptySet DEF Tried
  <2> DEFINE room == NumServers * Len(at)
  <2>3. room \in Nat
    <3>1. NumServers \in Nat /\ Len(at) \in Nat
      BY Attempts, ClientFacts, ConnectionsMade
    <3> QED
      BY <3>1
  <2>4. SocketsSuffice'
    <3>1. NumServers * Len(at') = room
      BY <1>1
    <3> HIDE DEF room
    <3> QED
      BY <2>2, <2>3, <3>1 DEF SocketsSuffice
  <2>5. WaitsAtFirst' /\ SearchOK'
    BY <1>3, <1>5 DEF WaitsAtFirst, SearchOK
  <2> QED
    BY <1>1, <1>3, <1>5, <2>4, <2>5 DEF ClientOK
<1>7. ASSUME NEW c \in Connections
      PROVE  ConnectionOK(c)'
  <2>1. ConnectionOK(c) /\ (Made(c) <=> c \in 1..Len(at)) /\ (Made(c)' <=> Made(c))
    BY <1>1, ClientFacts, ConnectionsMade DEF Made
  <2>2. AwaitedOK(c)' /\ CurrentOK(c)'
    BY <1>3, <1>5, NetworkAssumption DEF AwaitedOK, CurrentOK, Connections
  <2>3. CASE Made(c)
    <3>1. toClient'[c] = <<>> /\ closed'[c] = closed[c] \cup {"client"}
      BY <1>1, <2>1, <2>3 DEF ClientCloses
    <3>2. /\ Asking(c)' <=> Asking(c)
          /\ AskedOnly(c) => AskedOnly(c)'
          /\ AskingOK(c)' /\ AwaitedOK(c)' /\ CurrentOK(c)' => ConnectionOK(c)'
      BY <1>1, <2>1, <2>3, <3>1, ConnectionLeft
    <3> QED
      BY <1>5, <2>1, <2>2, <3>2 DEF ConnectionOK, AskingOK
  <2>4. CASE ~Made(c)
    <3>1. toClient'[c] = toClient[c] /\ closed'[c] = closed[c]
      BY <1>1, <2>1, <2>4, ClientFacts DEF ClientCloses, NetworkTyped
    <3>2. /\ Asking(c)' <=> Asking(c)
          /\ AskedOnly(c)' <=> AskedOnly(c)
          /\ AskingOK(c)' /\ AwaitedOK(c)' /\ CurrentOK(c)' => ConnectionOK(c)'
      BY <1>1, <2>1, <2>4, <3>1, ConnectionSame
    <3> QED
      BY <1>5, <2>1, <2>2, <3>2 DEF ConnectionOK, AskingOK
  <2> QED
    BY <2>3, <2>4
<1> QED
  BY <1>2, <1>4, <1>6, <1>7 DEF ConvInv, Typed

-----------------------------------------------------------------------------
(* Descriptors.  One is free whenever a search asks for it, and it is not  *)
(* the one that the file of the list may have.                             *)
LEMMA UsedNumber ==
  /\ IsFiniteSet(Descriptors) /\ Cardinality(Descriptors) = 1 + NumServers * (MaxConnections + 1)
  /\ IsFiniteSet(Used) /\ Cardinality(Used) \in Nat
<1> DEFINE more == NumServers * (MaxConnections + 1)
<1>1. more \in Nat
  BY NetworkAssumption
<1>2. Descriptors = 1..(1 + more)
  BY DEF Descriptors
<1> HIDE DEF more
<1>3. IsFiniteSet(Descriptors) /\ Cardinality(Descriptors) = 1 + more
  BY <1>1, <1>2, FS_Interval
<1>4. Used \subseteq Descriptors
  BY DEF Used
<1>5. IsFiniteSet(Used)
  BY <1>3, <1>4, FS_Subset
<1>6. Cardinality(Used) \in Nat
  BY <1>5, FS_CardinalityType
<1> QED
  BY <1>3, <1>5, <1>6 DEF more

LEMMA Budget ==
  ASSUME ConvInv
  PROVE  /\ NumServers * Len(at) \in Nat
         /\ NumServers * (Len(at) + 1) = NumServers * Len(at) + NumServers
         /\ NumServers * Len(at) + NumServers <= NumServers * (MaxConnections + 1)
<1>1. /\ NumServers \in Nat /\ MaxConnections \in Nat /\ Len(at) \in Nat
      /\ Len(at) <= MaxConnections
  BY NetworkAssumption, ClientFacts, ConnectionsMade DEF NetworkTyped
<1>2. ASSUME NEW a \in Nat, NEW b \in Nat, NEW n \in Nat, a <= b
      PROVE  /\ n * a \in Nat /\ n * (a + 1) = n * a + n
             /\ n * a + n <= n * (b + 1)
  <2>1. n * a \in Nat /\ n * b \in Nat /\ n * (a + 1) = n * a + n /\ n * (b + 1) = n * b + n
    OBVIOUS
  <2>2. PICK d \in Nat : b = a + d
    <3>1. b - a \in Nat /\ b = a + (b - a)
      BY <1>2
    <3> QED
      BY <3>1
  <2>3. n * b = n * a + n * d /\ n * d \in Nat
    BY <2>2
  <2> QED
    BY <2>1, <2>3
<1> QED
  BY <1>1, <1>2

LEMMA SocketIsFree ==
  ASSUME ConvInv, frontEnd.place = "connect", frontEnd.attempt <= NumServers
  PROVE  /\ Socket \in Descriptors /\ sockets[Socket] = Free
         /\ \A v : sockets' = [sockets EXCEPT ![Socket] = v] =>
              Cardinality(Used') <= NumServers * Len(at) + frontEnd.attempt
<1> DEFINE room == NumServers * Len(at)
           more == NumServers * (MaxConnections + 1)
           free == {d \in Descriptors : sockets[d] = Free /\ (frontEnd.firstTime => d # 1)}
<1>1. /\ room \in Nat /\ room + NumServers <= more /\ NumServers \in Nat
      /\ frontEnd.attempt \in 1..(NumServers + 1) /\ more \in Nat
  BY Budget, Attempts, ClientFacts, NetworkAssumption DEF FrontEnds
<1>2. Cardinality(Used) \in Nat /\ Cardinality(Used) <= room + (frontEnd.attempt - 1)
  BY UsedNumber, ClientFacts DEF ClientOK, SocketsSuffice, Tried
<1>3. /\ IsFiniteSet(Descriptors) /\ Cardinality(Descriptors) = 1 + more
      /\ IsFiniteSet(Used) /\ Used \subseteq Descriptors
  BY UsedNumber DEF Used
<1> HIDE DEF room, more
<1>4. free # {}
  <2>1. SUFFICES ASSUME free = {}
                 PROVE  FALSE
    OBVIOUS
  <2>2. Descriptors \subseteq Used \cup {1}
    BY <2>1 DEF Used
  <2>3. IsFiniteSet(Used \cup {1}) /\ Cardinality(Used \cup {1}) <= Cardinality(Used) + 1
    <3>1. /\ IsFiniteSet(Used \cup {1})
          /\ \/ Cardinality(Used \cup {1}) = Cardinality(Used)
             \/ Cardinality(Used \cup {1}) = Cardinality(Used) + 1
      BY <1>3, FS_AddElement
    <3> QED
      BY <1>2, <3>1
  <2>4. Cardinality(Descriptors) <= Cardinality(Used \cup {1}) /\ Cardinality(Used \cup {1}) \in Nat
    BY <2>2, <2>3, FS_Subset, FS_CardinalityType
  <2> QED
    BY <1>1, <1>2, <1>3, <2>3, <2>4
<1>5. Socket \in free
  <2>1. free \in SUBSET Nat
    <3>1. 1 + more \in Nat
      BY <1>1
    <3> QED
      BY <3>1 DEF Descriptors, more
  <2> HIDE DEF free
  <2>2. \E m \in free : \A n \in free : m <= n
    BY <1>4, <2>1, LeastNumber
  <2>3. Min(free) \in free
    BY <2>2, Zenon DEF Min
  <2> QED
    BY <2>3 DEF Socket, free
<1>6. ASSUME NEW v, sockets' = [sockets EXCEPT ![Socket] = v]
      PROVE  Cardinality(Used') <= room + frontEnd.attempt
  <2>1. Used' \subseteq Used \cup {Socket}
    <3> HIDE DEF free
    <3>1. sockets \in [Descriptors -> {Free, Unconnected} \cup 1..Len(at)]
      BY ClientFacts DEF ClientTyped
    <3> QED
      BY <1>6, <3>1 DEF Used, Free
  <2>2. IsFiniteSet(Used \cup {Socket}) /\ Cardinality(Used \cup {Socket}) <= Cardinality(Used) + 1
    <3>1. /\ IsFiniteSet(Used \cup {Socket})
          /\ \/ Cardinality(Used \cup {Socket}) = Cardinality(Used)
             \/ Cardinality(Used \cup {Socket}) = Cardinality(Used) + 1
      BY <1>3, FS_AddElement
    <3> QED
      BY <1>2, <3>1
  <2>3. /\ Cardinality(Used') <= Cardinality(Used \cup {Socket})
        /\ Cardinality(Used') \in Nat /\ Cardinality(Used \cup {Socket}) \in Nat
    BY <2>1, <2>2, FS_Subset, FS_CardinalityType
  <2> QED
    BY <1>1, <1>2, <2>2, <2>3
<1> QED
  BY <1>5, <1>6 DEF room

-----------------------------------------------------------------------------
(* The front end goes on while it does not wait for an answer.             *)
LEMMA FrontEndMoves ==
  ASSUME ConvInv, ClientRuns, frontEnd.place # "answer", SocketsSuffice',
         UNCHANGED <<netVars, serverVars, scenario, main, message, lookForServer, pollfd, history>>,
         frontEnd' \in FrontEnds, frontEnd'.place \in {"checked", "blocked", "connect"},
         frontEnd'.firstTime = frontEnd.firstTime,
         frontEnd'.place = "connect" => ~frontEnd'.connected,
         frontEnd'.connected => frontEnd.connected,
         sockets' \in [Descriptors -> {Free, Unconnected} \cup 1..Len(at)],
         m_socket_num' \in {0} \cup Descriptors,
         Current' = Current \/ Current' \notin Connections
  PROVE  ConvInv'
<1>1. NetworkTyped' /\ ServersTyped'
  BY ClientFacts DEF NetworkTyped, ServersTyped, netVars, serverVars
<1>2. ClientTyped'
  BY ClientFacts DEF ClientTyped, netVars, Free, Unconnected, Histories
<1>3. ClientRuns' /\ ClientRuns
  BY DEF ClientRuns
<1>4. ClientOK'
  BY <1>3, ClientFacts DEF ClientOK, WaitsAtFirst, SearchOK
<1>5. ASSUME NEW c \in Connections
      PROVE  ConnectionOK(c)'
  <2>1. ConnectionOK(c)
    BY ClientFacts
  <2>2. /\ Asking(c)' <=> Asking(c)
        /\ AskedOnly(c)' <=> AskedOnly(c)
        /\ AskingOK(c)' /\ AwaitedOK(c)' /\ CurrentOK(c)' => ConnectionOK(c)'
    BY <2>1, ConnectionSame DEF netVars, serverVars, Made
  <2>3. ~Asking(c)
    BY <1>3, <2>1 DEF ConnectionOK, AskingOK
  <2>4. AskingOK(c)' /\ AwaitedOK(c)'
    BY <2>2, <2>3 DEF AskingOK, AwaitedOK
  <2>5. CurrentOK(c)'
    BY <2>1 DEF ConnectionOK, CurrentOK, netVars, serverVars
  <2> QED
    BY <2>2, <2>4, <2>5
<1> QED
  BY <1>1, <1>2, <1>4, <1>5 DEF ConvInv, Typed

(* A search begins.                                                        *)
LEMMA SearchBegins ==
  ASSUME ConvInv
  PROVE  /\ Searching \in FrontEnds /\ Searching.place = "connect"
         /\ Searching.firstTime = frontEnd.firstTime /\ ~Searching.connected
         /\ Searching.attempt - 1 \in Nat
<1>1. frontEnd \in FrontEnds /\ NumServers \in Nat /\ 1 \in 1..(NumServers + 1)
  BY ClientFacts, Attempts
<1>2. Searching \in FrontEnds /\ Searching.place = "connect"
      /\ Searching.firstTime = frontEnd.firstTime /\ ~Searching.connected
  BY <1>1 DEF Searching, FrontEnds
<1>3. Searching.attempt \in 1..(NumServers + 1)
  BY <1>2 DEF FrontEnds
<1> QED
  BY <1>1, <1>2, <1>3

LEMMA SearchPreserves ==
  ASSUME ConvInv, ClientRuns, Search \/ Block \/ WaitEnds,
         UNCHANGED <<serverVars, scenario, message, pollfd, history>>
  PROVE  ConvInv'
<1>1. /\ UNCHANGED <<netVars, main, lookForServer, sockets, m_socket_num>>
      /\ frontEnd.place \in {"predicate", "checked", "blocked"}
      /\ \/ frontEnd' = Searching
         \/ frontEnd' = [frontEnd EXCEPT !.place = "checked"]
         \/ frontEnd' = [frontEnd EXCEPT !.place = "blocked"]
  BY DEF Search, Block, WaitEnds, FrontEndGoes
<1>2. /\ frontEnd' \in FrontEnds /\ frontEnd'.place \in {"checked", "blocked", "connect"}
      /\ frontEnd'.firstTime = frontEnd.firstTime
      /\ frontEnd'.place = "connect" => ~frontEnd'.connected /\ frontEnd'.attempt - 1 \in Nat
      /\ frontEnd'.connected => frontEnd.connected
  <2>1. CASE frontEnd' = Searching
    BY <2>1, SearchBegins
  <2>2. CASE frontEnd' # Searching
    <3>1. frontEnd \in FrontEnds
      BY ClientFacts
    <3> QED
      BY <1>1, <2>2, <3>1 DEF FrontEnds
  <2> QED
    BY <2>1, <2>2
<1>3. SocketsSuffice'
  <2> DEFINE room == NumServers * Len(at)
  <2>1. room \in Nat /\ Cardinality(Used) \in Nat
    BY Budget, UsedNumber
  <2>2. Cardinality(Used) <= room
    <3>1. Tried = 0 /\ Cardinality(Used) <= room + Tried
      BY <1>1, ClientFacts DEF Tried, ClientOK, SocketsSuffice
    <3> HIDE DEF room
    <3> QED
      BY <2>1, <3>1
  <2>3. Used' = Used /\ Tried' \in Nat /\ NumServers * Len(at') = room
    BY <1>1, <1>2 DEF Used, Free, Tried, netVars
  <2> HIDE DEF room
  <2> QED
    BY <2>1, <2>2, <2>3 DEF SocketsSuffice
<1>4. /\ sockets' \in [Descriptors -> {Free, Unconnected} \cup 1..Len(at)]
      /\ m_socket_num' \in {0} \cup Descriptors /\ Current' = Current
  BY <1>1, ClientFacts DEF ClientTyped, Current, Behind, Free
<1> QED
  BY <1>1, <1>2, <1>3, <1>4, FrontEndMoves

(* A server that does not listen: the socket is of no use any more.        *)
LEMMA ConnectFails ==
  ASSUME ConvInv, ClientRuns, frontEnd.place = "connect", frontEnd.attempt <= NumServers,
         m_socket_num' = Socket, sockets' = [sockets EXCEPT ![Socket] = Unconnected],
         frontEnd' = [frontEnd EXCEPT !.attempt = frontEnd.attempt + 1],
         UNCHANGED <<netVars, serverVars, scenario, main, message, lookForServer, pollfd, history>>
  PROVE  ConvInv'
<1>1. Socket \in Descriptors
  BY SocketIsFree
<1>2. frontEnd \in FrontEnds /\ NumServers \in Nat /\ frontEnd.attempt \in 1..(NumServers + 1)
      /\ ~frontEnd.connected
  BY ClientFacts, Attempts DEF FrontEnds, ClientOK, SearchOK
<1>3. /\ frontEnd' \in FrontEnds /\ frontEnd'.place = "connect"
      /\ frontEnd'.firstTime = frontEnd.firstTime /\ ~frontEnd'.connected
      /\ frontEnd'.attempt = frontEnd.attempt + 1
  BY <1>2 DEF FrontEnds
<1>4. sockets' \in [Descriptors -> {Free, Unconnected} \cup 1..Len(at)]
  BY <1>1, ClientFacts DEF ClientTyped
<1>5. SocketsSuffice'
  <2> DEFINE room == NumServers * Len(at)
  <2>1. Cardinality(Used') <= room + frontEnd.attempt
    BY SocketIsFree
  <2>2. Tried' = frontEnd.attempt /\ NumServers * Len(at') = room
    BY <1>2, <1>3 DEF Tried, netVars
  <2> HIDE DEF room
  <2> QED
    BY <2>1, <2>2 DEF SocketsSuffice
<1>6. Current' \notin Connections
  <2>1. Socket # 0
    <3>1. Descriptors \subseteq Nat \ {0}
      BY UsedNumber, NetworkAssumption DEF Descriptors
    <3> QED
      BY <1>1, <3>1
  <2>2. sockets'[Socket] = Unconnected
    BY <1>1, ClientFacts DEF ClientTyped
  <2> QED
    BY <2>1, <2>2, NetworkAssumption DEF Current, Behind, Connections, Unconnected
<1> QED
  BY <1>1, <1>3, <1>4, <1>5, <1>6, FrontEndMoves

(* A server that listens: the question is the first message of the next    *)
(* connection.                                                             *)
LEMMA ConnectSucceeds ==
  ASSUME ConvInv, ClientRuns, frontEnd.place = "connect", frontEnd.attempt <= NumServers,
         main # "create",
         m_socket_num' = Socket, sockets' = [sockets EXCEPT ![Socket] = Len(at) + 1],
         frontEnd' = [frontEnd EXCEPT !.place = "answer", !.awaited = Len(at) + 1],
         Len(at) < MaxConnections,
         Open(frontEnd.attempt, Packet(IF frontEnd.firstTime THEN "SIGN_IN" ELSE "RECONNECT", 0)),
         UNCHANGED <<serverVars, scenario, main, message, lookForServer, pollfd, history>>
  PROVE  ConvInv'
<1> DEFINE packet == Packet(IF frontEnd.firstTime THEN "SIGN_IN" ELSE "RECONNECT", 0)
<1>1. /\ Len(at) \in Nat /\ MaxConnections \in Nat /\ at \in Seq(Servers)
      /\ \A c \in Connections : Made(c) <=> c \in 1..Len(at)
  BY NetworkAssumption, ClientFacts, ConnectionsMade DEF NetworkTyped
<1>2. Len(at) + 1 \in Connections
  BY <1>1 DEF Connections
<1> PICK c0 \in Connections : c0 = Len(at) + 1
  BY <1>2
<1>3. c0 \in Connections /\ c0 = Len(at) + 1 /\ c0 \in Nat \ {0} /\ ~Made(c0)
  BY <1>1 DEF Connections
<1>4. /\ at' = Append(at, frontEnd.attempt)
      /\ toServer' = [toServer EXCEPT ![c0] = <<packet>>]
      /\ UNCHANGED <<server, toClient, closed, peer, posted, fetched>>
  BY DEF Open, serverVars
<1>5. /\ packet \in Packets /\ packet.n = 0
      /\ packet.type = "SIGN_IN" <=> frontEnd.firstTime
      /\ <<packet>> \in Seq(Packets) /\ Len(<<packet>>) = 1 /\ <<packet>>[1] = packet
  <2>1. packet \in Packets /\ packet.n = 0 /\ (packet.type = "SIGN_IN" <=> frontEnd.firstTime)
    BY DEF Packet, Packets, Types
  <2> HIDE DEF packet
  <2> QED
    BY <2>1
<1> HIDE DEF packet
<1>6. /\ frontEnd \in FrontEnds /\ NumServers \in Nat
      /\ frontEnd.attempt \in Servers /\ frontEnd.attempt \in Nat /\ ~frontEnd.connected
  BY ClientFacts, Attempts DEF FrontEnds, ClientOK, SearchOK, Servers
<1>7. /\ at' \in Seq(Servers) /\ Len(at') = c0
      /\ \A c \in 1..Len(at) : at'[c] = at[c]
  BY <1>4, <1>1, <1>6, AppendProperties
<1>8. NetworkTyped'
  <2>1. toServer' \in [Connections -> Seq(Packets)]
    BY <1>4, <1>3, <1>5, ClientFacts DEF NetworkTyped
  <2>2. Len(at') <= MaxConnections
    BY <1>1, <1>7
  <2> QED
    BY <1>4, <1>7, <2>1, <2>2, ClientFacts DEF NetworkTyped
<1>9. ServersTyped'
  BY <1>4, ClientFacts DEF ServersTyped
<1>10. /\ frontEnd' \in FrontEnds /\ frontEnd'.place = "answer" /\ frontEnd'.awaited = c0
      /\ frontEnd'.firstTime = frontEnd.firstTime /\ frontEnd'.connected = frontEnd.connected
  BY <1>3, <1>6 DEF FrontEnds
<1>11. Socket \in Descriptors /\ Socket # 0
  <2>1. Socket \in Descriptors
    BY SocketIsFree
  <2>2. Descriptors \subseteq Nat \ {0}
    BY UsedNumber, NetworkAssumption DEF Descriptors
  <2> QED
    BY <2>1, <2>2
<1>12. sockets' \in [Descriptors -> {Free, Unconnected} \cup 1..Len(at')] /\ Current' = c0
  <2>1. sockets \in [Descriptors -> {Free, Unconnected} \cup 1..Len(at)]
    BY ClientFacts DEF ClientTyped
  <2>2. c0 \in 1..Len(at') /\ 1..Len(at) \subseteq 1..Len(at')
    BY <1>1, <1>7
  <2>3. sockets' = [sockets EXCEPT ![Socket] = c0]
    OBVIOUS
  <2>4. sockets' \in [Descriptors -> {Free, Unconnected} \cup 1..Len(at')] /\ sockets'[Socket] = c0
    BY <1>11, <2>1, <2>2, <2>3
  <2> QED
    BY <1>11, <2>4 DEF Current, Behind
<1>13. ClientTyped'
  BY <1>10, <1>11, <1>12, ClientFacts DEF ClientTyped, Free, Unconnected, Histories
<1>14. ClientOK'
  <2>1. SocketsSuffice'
    <3> DEFINE room == NumServers * Len(at)
    <3>1. Cardinality(Used') <= room + frontEnd.attempt
      BY SocketIsFree
    <3>2. NumServers * Len(at') = room + NumServers /\ room \in Nat
      BY <1>7, Budget
    <3>3. Tried' = 0
      BY <1>10 DEF Tried
    <3>4. Cardinality(Used)' \in Nat
      <4>1. IsFiniteSet(Descriptors) /\ Used' \subseteq Descriptors
        BY UsedNumber DEF Used
      <4>2. Cardinality(Used') \in Nat
        BY <4>1, FS_Subset, FS_CardinalityType
      <4> QED
        BY <4>2
    <3> HIDE DEF room
    <3> QED
      BY <1>6, <3>1, <3>2, <3>3, <3>4 DEF SocketsSuffice
  <2>2. WaitsAtFirst' /\ ClientRuns'
    BY <1>10, ClientFacts DEF WaitsAtFirst, ClientRuns
  <2>3. SearchOK'
    BY <1>1, <1>6, <1>7, <1>10, <1>12 DEF SearchOK
  <2> QED
    BY <2>1, <2>2, <2>3, ClientFacts DEF ClientOK
<1>15. ASSUME NEW c \in Connections, c # c0
       PROVE  ConnectionOK(c)'
  <2>1. ConnectionOK(c) /\ (Made(c)' <=> Made(c)) /\ (Made(c) => at'[c] = at[c])
    BY <1>1, <1>7, <1>15, ClientFacts DEF Made, Connections
  <2>2. toServer'[c] = toServer[c]
    BY <1>4, <1>15, ClientFacts DEF NetworkTyped
  <2>3. /\ Asking(c)' <=> Asking(c)
        /\ AskedOnly(c)' <=> AskedOnly(c)
        /\ AskingOK(c)' /\ AwaitedOK(c)' /\ CurrentOK(c)' => ConnectionOK(c)'
    BY <1>4, <2>1, <2>2, ConnectionSame
  <2>4. ~Asking(c)
    BY <2>1 DEF ConnectionOK, AskingOK
  <2>5. AskingOK(c)' /\ AwaitedOK(c)' /\ CurrentOK(c)'
    BY <1>10, <1>12, <1>15, <2>3, <2>4 DEF AskingOK, AwaitedOK, CurrentOK
  <2> QED
    BY <2>3, <2>5
<1>16. ConnectionOK(c0)'
  <2>1. /\ peer'[c0] = NewPeer /\ toClient'[c0] = <<>> /\ closed'[c0] = {}
        /\ history'.sent[c0] = <<>> /\ history'.received[c0] = <<>>
        /\ Made(c0)'
    BY <1>4, <1>1, <1>3, <1>7, ClientFacts DEF ConnectionOK, Untouched, Made
  <2>2. toServer'[c0] = <<packet>>
    BY <1>4, <1>3, ClientFacts DEF NetworkTyped
  <2>3. /\ NewPeer.connector = "none" /\ NewPeer.incomingPkt = NoPacket
        /\ ~NewPeer.clientShutdownNotice /\ ~NewPeer.signedIn
        /\ NewPeer.incomingMessages = <<>> /\ NewPeer.outgoingMessages = <<>>
        /\ NewPeer.next = 1 /\ NewPeer.speaker = "top" /\ NewPeer.listener = "pitstop"
        /\ NewPeer.outTweets = <<>> /\ NewPeer.executed = <<>> /\ NewPeer.forwarded = <<>>
        /\ NoPacket.type = "none"
    BY DEF NewPeer, NoPacket, Packet
  <2>4. ConnectorOK(c0)'
    BY <2>1, <2>3 DEF ConnectorOK
  <2>5. OthersOK(c0)'
    BY <2>1, <2>3, EmptyStream DEF OthersOK
  <2>6. Refusals(<<>>)
    BY EmptyStream DEF Refusals
  <2>7. SignInOK(c0)'
    BY <2>1, <2>3, <2>6 DEF SignInOK, NothingYet
  <2>8. Asking(c0)' <=> frontEnd.firstTime
    BY <1>5, <2>1, <2>2, <2>3 DEF Asking
  <2>9. AskingOK(c0)'
    BY <1>5, <1>10, <2>1, <2>2, <2>3, <2>8 DEF AskingOK, AskedOnly
  <2>10. AwaitedOK(c0)' /\ CurrentOK(c0)'
    BY <1>10, <2>1, <2>3, <2>6, <2>8 DEF AwaitedOK, CurrentOK
  <2>11. RequestsOK(c0)' /\ TweetsOK(c0)'
    <3>1. SubSeq(<<>>, 1, Len(<<>>)) = <<>>
      BY EmptyStream, SubSeqEmpty
    <3>2. Done(c0)' = <<>>
      BY <2>1, <2>3, <3>1, EmptyStream, NothingAdded DEF Done, Queued
    <3> QED
      BY <2>1, <2>3, <3>2, EmptyStream, NothingAdded DEF RequestsOK, TweetsOK, Working
  <2> QED
    BY <2>1, <2>4, <2>5, <2>7, <2>9, <2>10, <2>11 DEF ConnectionOK
<1> QED
  BY <1>8, <1>9, <1>13, <1>14, <1>15, <1>16 DEF ConvInv, Typed

LEMMA ConnectPreserves ==
  ASSUME ConvInv, ClientRuns, Connect, UNCHANGED <<serverVars, scenario, message, pollfd, history>>
  PROVE  ConvInv'
<1>1. /\ frontEnd.place = "connect" /\ main # "create" /\ frontEnd.attempt <= NumServers
      /\ m_socket_num' = Socket /\ UNCHANGED <<main, lookForServer>>
  BY DEF Connect
<1>2. \/ /\ Len(at) < MaxConnections
         /\ Open(frontEnd.attempt,
                 Packet(IF frontEnd.firstTime THEN "SIGN_IN" ELSE "RECONNECT", 0))
         /\ sockets' = [sockets EXCEPT ![Socket] = Len(at) + 1]
         /\ frontEnd' = [frontEnd EXCEPT !.place = "answer", !.awaited = Len(at) + 1]
      \/ /\ sockets' = [sockets EXCEPT ![Socket] = Unconnected]
         /\ frontEnd' = [frontEnd EXCEPT !.attempt = frontEnd.attempt + 1]
         /\ UNCHANGED netVars
  BY Zenon DEF Connect
<1> QED
  BY <1>1, <1>2, ConnectFails, ConnectSucceeds

-----------------------------------------------------------------------------
(* The client reads: a tweet goes from the stream to what is received, and *)
(* anything else is dropped.                                               *)
LEMMA ConnectionRead ==
  ASSUME Typed, NEW c \in Connections, ConnectionOK(c), Made(c), toClient[c] # <<>>,
         UNCHANGED <<server, at, peer, toServer, closed>>,
         toClient'[c] = Tail(toClient[c]),
         history'.sent[c] = history.sent[c],
         history'.received[c] = history.received[c] \o Tweets(<<Head(toClient[c])>>)
  PROVE  /\ ~Asking(c)'
         /\ AskingOK(c)' /\ AwaitedOK(c)' /\ CurrentOK(c)' => ConnectionOK(c)'
<1> DEFINE q == toClient[c]
           h == Head(q)
           rest == Tweets(peer[c].outgoingMessages) \o peer[c].outTweets
<1>1. /\ q \in Seq(Packets) /\ peer[c].outgoingMessages \in Seq(Packets)
      /\ peer[c].outTweets \in Seq(Packets)
  BY ConnectionTypes DEF Typed
<1>2. /\ h \in Packets /\ Tail(q) \in Seq(Packets) /\ h = q[1] /\ Len(q) \in Nat \ {0}
      /\ Len(Tail(q)) = Len(q) - 1 /\ \A k \in 1..Len(Tail(q)) : Tail(q)[k] = q[k + 1]
  BY <1>1, HeadAndTail
<1>3. ~Asking(c)' /\ ~Asking(c)
  BY DEF ConnectionOK, AskingOK, AskedOnly, Asking
<1>4. Made(c)' /\ (Working(c)' <=> Working(c)) /\ (Up(c)' <=> Up(c))
  BY DEF Made, Working, Up
<1>5. ConnectorOK(c)' /\ OthersOK(c)' /\ RequestsOK(c)'
  BY <1>4 DEF ConnectionOK, ConnectorOK, OthersOK, RequestsOK, Done, Coming, Queued, Requests
<1>6. Tweets(<<h>>) \in Seq(Packets) /\ (h.type # "UPDATE" => Tweets(<<h>>) = <<>>)
  BY <1>2, StreamOfOne, EmptyStream
<1>7. SignInOK(c)'
  <2>1. CASE ~peer[c].signedIn /\ "server" \notin closed[c]
    <3>1. Refusals(q) /\ history.received[c] = <<>> /\ NothingYet(c)
      BY <2>1 DEF ConnectionOK, SignInOK
    <3>2. Refusals(Tail(q)) /\ h.type # "UPDATE"
      <4>1. \A k \in 1..Len(Tail(q)) : k + 1 \in 1..Len(q)
        BY <1>2
      <4>2. 1 \in 1..Len(q)
        BY <1>2
      <4> QED
        BY <1>2, <3>1, <4>1, <4>2 DEF Refusals
    <3>3. history'.received[c] = <<>>
      BY <1>6, <3>1, <3>2, EmptyStream, NothingAdded
    <3> QED
      BY <3>1, <3>2, <3>3 DEF SignInOK, NothingYet
  <2>2. CASE peer[c].signedIn \/ "server" \in closed[c]
    BY <2>2 DEF ConnectionOK, SignInOK, NothingYet
  <2> QED
    BY <2>1, <2>2
<1>8. TweetsOK(c)'
  <2>1. SUFFICES ASSUME "client" \notin closed[c], Working(c)
                 PROVE  history'.received[c] \o (Tweets(Tail(q)) \o rest) = peer[c].forwarded
    BY <1>4 DEF TweetsOK, Flow, Tweets
  <2>2. history.received[c] \o (Tweets(q) \o rest) = peer[c].forwarded
    BY <2>1 DEF ConnectionOK, TweetsOK, Flow
  <2>3. /\ history.received[c] \in Seq(Packets) /\ rest \in Seq(Packets)
        /\ Tweets(Tail(q)) \in Seq(Packets)
    <3>1. Tweets(peer[c].outgoingMessages) \in Seq(Packets) /\ Tweets(Tail(q)) \in Seq(Packets)
      BY <1>1, <1>2, StreamOfConcat
    <3> QED
      BY <1>1, <3>1, ConcatProperties DEF Typed, ClientTyped, Histories
  <2>4. Tweets(q) = Tweets(<<h>>) \o Tweets(Tail(q))
    BY <1>1, StreamOfHead
  <2> DEFINE a == history.received[c]
             t1 == Tweets(<<h>>)
             t2 == Tweets(Tail(q))
  <2>5. a \in Seq(Packets) /\ t1 \in Seq(Packets) /\ t2 \in Seq(Packets)
    BY <1>6, <2>3
  <2>6. /\ history'.received[c] = a \o t1 /\ Tweets(q) = t1 \o t2
        /\ a \o (Tweets(q) \o rest) = peer[c].forwarded
    BY <2>2, <2>4
  <2> HIDE DEF a, t1, t2, rest, q, h
  <2>7. rest \in Seq(Packets)
    BY <2>3
  <2>8. (a \o t1) \o (t2 \o rest) = a \o (t1 \o (t2 \o rest))
    <3>1. Join(Join(a, t1), Join(t2, rest)) = Join(a, Join(t1, Join(t2, rest)))
      BY <2>5, <2>7, RegroupFour
    <3> QED
      BY <3>1 DEF Join
  <2>9. (t1 \o t2) \o rest = t1 \o (t2 \o rest)
    BY <2>5, <2>7, Regroup
  <2>10. history'.received[c] \o (t2 \o rest) = peer[c].forwarded
    BY <2>6, <2>8, <2>9
  <2> QED
    BY <2>10 DEF t2
<1> QED
  BY <1>3, <1>4, <1>5, <1>7, <1>8 DEF ConnectionOK

(* The front end is answered, or finds that nothing comes any more.        *)
LEMMA SignedInPreserves ==
  ASSUME ConvInv, ClientRuns, frontEnd.place = "answer",
         NEW c \in Connections, frontEnd.awaited = c, SignedIn,
         UNCHANGED <<serverVars, scenario, history>>,
         \/ (AtEnd(c) \/ "client" \in closed[c]) /\ UNCHANGED netVars
         \/ toClient[c] # <<>> /\ Head(toClient[c]).type = "ACK" /\ ReadFrom(c)
  PROVE  ConvInv'
<1>1. /\ frontEnd' = [frontEnd EXCEPT !.place = "predicate", !.awaited = 0, !.connected = TRUE,
                                      !.firstTime = FALSE, !.serverIndex = frontEnd.attempt]
      /\ lookForServer' = FALSE
      /\ UNCHANGED <<main, message, sockets, m_socket_num, pollfd>>
      /\ UNCHANGED <<peer, posted, fetched, server, at, toServer, closed>>
  BY DEF SignedIn, serverVars, netVars, ReadFrom
<1>2. /\ frontEnd' \in FrontEnds /\ frontEnd'.place = "predicate" /\ ~frontEnd'.firstTime
  BY <1>1, ClientFacts, Attempts DEF FrontEnds
<1>3. ASSUME NEW d \in Connections, d # c \/ UNCHANGED netVars
      PROVE  toClient'[d] = toClient[d]
  BY <1>3, ClientFacts DEF netVars, ReadFrom, NetworkTyped
<1>4. toClient' \in [Connections -> Seq(Packets)]
  <2>1. CASE toClient[c] # <<>> /\ ReadFrom(c)
    <3>1. Tail(toClient[c]) \in Seq(Packets)
      BY <2>1, ClientFacts, ConnectionTypes, HeadAndTail
    <3> QED
      BY <2>1, <3>1, ClientFacts DEF ReadFrom, NetworkTyped
  <2>2. CASE UNCHANGED netVars
    BY <2>2, ClientFacts DEF netVars, NetworkTyped
  <2> QED
    BY <2>1, <2>2
<1>5. NetworkTyped' /\ ServersTyped'
  BY <1>1, <1>4, ClientFacts DEF NetworkTyped, ServersTyped
<1>6. ClientTyped'
  BY <1>1, <1>2, ClientFacts DEF ClientTyped, Free, Unconnected, Histories
<1>7. Current' = Current /\ Current \in {c, Free} /\ ClientRuns' /\ Made(c)
  BY <1>1, ClientFacts, ConnectionsMade DEF Current, Behind, Free, ClientRuns, ClientOK, SearchOK
<1>8. ClientOK'
  <2>1. Used' = Used /\ Tried' = 0 /\ Tried = 0
    BY <1>1, <1>2 DEF Used, Free, Tried
  <2>2. SocketsSuffice'
    BY <1>1, <2>1, ClientFacts DEF ClientOK, SocketsSuffice
  <2>3. WaitsAtFirst' /\ SearchOK'
    BY <1>2 DEF WaitsAtFirst, SearchOK
  <2> QED
    BY <1>1, <1>7, <2>2, <2>3, ClientFacts DEF ClientOK
<1>9. ASSUME NEW d \in Connections
      PROVE  ~Asking(d)
  BY ClientFacts DEF ConnectionOK, AskingOK, AskedOnly, AtEnd
<1>10. ASSUME NEW d \in Connections
       PROVE  CurrentOK(d)'
  <2>1. SUFFICES ASSUME Current = d
                 PROVE  "client" \notin closed[d] /\ (peer[d].signedIn \/ "server" \in closed[d])
    BY <1>1, <1>7 DEF CurrentOK
  <2>2. d = c
    BY <1>7, <2>1, NetworkAssumption DEF Free, Connections
  <2>3. "client" \notin closed[c]
    BY <2>1, <2>2, ClientFacts DEF ConnectionOK, CurrentOK
  <2>4. ASSUME ~peer[c].signedIn, "server" \notin closed[c], toClient[c] # <<>>,
               Head(toClient[c]).type = "ACK"
        PROVE  FALSE
    <3>1. Refusals(toClient[c])
      BY <2>4, ClientFacts DEF ConnectionOK, SignInOK
    <3>2. Head(toClient[c]) = toClient[c][1] /\ 1 \in 1..Len(toClient[c])
      BY <2>4, ClientFacts, ConnectionTypes, HeadAndTail
    <3> QED
      BY <2>4, <3>1, <3>2 DEF Refusals
  <2> QED
    BY <2>2, <2>3, <2>4 DEF AtEnd
<1>11. ASSUME NEW d \in Connections
       PROVE  ConnectionOK(d)'
  <2>1. AwaitedOK(d)' /\ (~Asking(d)' => AskingOK(d)')
    BY <1>2 DEF AwaitedOK, AskingOK
  <2>2. CASE toClient'[d] = toClient[d]
    <3>1. /\ Asking(d)' <=> Asking(d)
          /\ AskingOK(d)' /\ AwaitedOK(d)' /\ CurrentOK(d)' => ConnectionOK(d)'
      BY <1>1, <2>2, ClientFacts, ConnectionSame DEF Made
    <3> QED
      BY <1>9, <1>10, <2>1, <3>1
  <2>3. CASE d = c /\ toClient[c] # <<>> /\ Head(toClient[c]).type = "ACK" /\ ReadFrom(c)
    <3>1. toClient'[c] = Tail(toClient[c])
      BY <2>3, ClientFacts DEF ReadFrom, NetworkTyped
    <3>2. history.received[c] \o Tweets(<<Head(toClient[c])>>) = history.received[c]
      <4>1. history.received[c] \in Seq(Packets) /\ Head(toClient[c]) \in Packets
        BY <2>3, ClientFacts, ConnectionTypes, HeadAndTail DEF Histories
      <4>2. Tweets(<<Head(toClient[c])>>) = <<>>
        BY <2>3, <4>1, StreamOfOne
      <4> QED
        BY <4>1, <4>2, NothingAdded
    <3>3. /\ ~Asking(c)'
          /\ AskingOK(c)' /\ AwaitedOK(c)' /\ CurrentOK(c)' => ConnectionOK(c)'
      BY <1>1, <1>7, <2>3, <3>1, <3>2, ClientFacts, ConnectionRead
    <3> QED
      BY <1>10, <2>1, <2>3, <3>3
  <2> QED
    BY <1>3, <2>2, <2>3
<1> QED
  BY <1>5, <1>6, <1>8, <1>11 DEF ConvInv, Typed

LEMMA FrontEndAnswered ==
  ASSUME ConvInv, ClientRuns, Answer, UNCHANGED <<serverVars, scenario>>
  PROVE  ConvInv'
<1>1. frontEnd.place = "answer" /\ UNCHANGED history
  BY DEF Answer
<1>2. PICK c \in Connections : frontEnd.awaited = c
  BY <1>1, ClientFacts, ConnectionsMade DEF ClientOK, SearchOK
<1>3. \/ (AtEnd(c) \/ "client" \in closed[c]) /\ SignedIn /\ UNCHANGED netVars
      \/ toClient[c] # <<>> /\ Head(toClient[c]).type = "ACK" /\ SignedIn /\ ReadFrom(c)
      \/ Exit("refused") \/ Exit("stopped")
  BY <1>2 DEF Answer
<1> QED
  BY <1>1, <1>2, <1>3, SignedInPreserves, ExitPreserves DEF Ends

LEMMA FrontEndStepPreserves ==
  ASSUME ConvInv, FrontEndStep, UNCHANGED <<serverVars, scenario>>
  PROVE  ConvInv'
<1>1. /\ ClientRuns
      /\ \/ (Search \/ Block \/ WaitEnds \/ Connect) /\ UNCHANGED <<message, pollfd, history>>
         \/ (NoClient \/ NoServerFound) /\ UNCHANGED history
         \/ Answer
  BY DEF FrontEndStep
<1>2. CASE (Search \/ Block \/ WaitEnds) /\ UNCHANGED <<message, pollfd, history>>
  BY <1>1, <1>2, SearchPreserves
<1>3. CASE Connect /\ UNCHANGED <<message, pollfd, history>>
  BY <1>1, <1>3, ConnectPreserves
<1>4. CASE (NoClient \/ NoServerFound) /\ UNCHANGED history
  BY <1>4, ExitPreserves DEF NoClient, NoServerFound, Ends
<1>5. CASE Answer
  BY <1>1, <1>5, FrontEndAnswered
<1> QED
  BY <1>1, <1>2, <1>3, <1>4, <1>5

-----------------------------------------------------------------------------
(* The main thread at the current connection.                              *)
LEMMA CurrentMade ==
  ASSUME ConvInv, NEW c \in Connections, Current = c
  PROVE  /\ Made(c) /\ c \in 1..Len(at) /\ m_socket_num \in Descriptors
         /\ "client" \notin closed[c]
<1>1. /\ sockets \in [Descriptors -> {Free, Unconnected} \cup 1..Len(at)]
      /\ m_socket_num \in {0} \cup Descriptors
  BY ClientFacts DEF ClientTyped
<1>2. c # Free /\ c # Unconnected
  BY NetworkAssumption DEF Free, Unconnected, Connections
<1>3. m_socket_num \in Descriptors /\ c \in 1..Len(at)
  BY <1>1, <1>2 DEF Current, Behind
<1> QED
  BY <1>3, ClientFacts, ConnectionsMade DEF ConnectionOK, CurrentOK

LEMMA MainReturns ==
  ASSUME ConvInv, main \in {"read", "send"}, main' = "poll",
         UNCHANGED <<server, at, frontEnd, lookForServer, sockets, m_socket_num, pollfd>>,
         history' \in Histories, message' \in Messages \cup {NoMessage}
  PROVE  /\ ClientTyped' /\ ClientOK' /\ Current' = Current /\ ~frontEnd.firstTime
         /\ ClientRuns' /\ \A c \in Connections : ~Asking(c)
<1>1. ClientRuns /\ ~frontEnd.firstTime /\ ClientRuns'
  BY ClientFacts DEF ClientRuns, Ends
<1>2. ClientTyped'
  BY ClientFacts DEF ClientTyped, Free, Unconnected
<1>3. Current' = Current /\ Used' = Used /\ Tried' = Tried
  BY DEF Current, Behind, Used, Tried, Free
<1>4. ClientOK'
  BY <1>1, <1>3, ClientFacts DEF ClientOK, WaitsAtFirst, SearchOK, SocketsSuffice
<1>5. ASSUME NEW c \in Connections
      PROVE  ~Asking(c)
  BY <1>1, ClientFacts DEF ConnectionOK, AskingOK
<1> QED
  BY <1>1, <1>2, <1>3, <1>4, <1>5

(* A history changed at one connection.                                    *)
LEMMA HistoryOf ==
  ASSUME history \in Histories, NEW c \in Connections, NEW q \in Seq(Packets)
  PROVE  /\ history' = [history EXCEPT !.received[c] = q] =>
              /\ history' \in Histories /\ history'.sent = history.sent
              /\ history'.received[c] = q
              /\ \A d \in Connections \ {c} : history'.received[d] = history.received[d]
         /\ history' = [history EXCEPT !.sent[c] = q] =>
              /\ history' \in Histories /\ history'.received = history.received
              /\ history'.sent[c] = q
              /\ \A d \in Connections \ {c} : history'.sent[d] = history.sent[d]
<1> DEFINE Sequences == [Connections -> Seq(Packets)]
<1>1. history \in [requests : Nat, sent : Sequences, received : Sequences]
  BY DEF Histories
<1>2. ASSUME NEW f \in Sequences
      PROVE  /\ [f EXCEPT ![c] = q] \in Sequences /\ [f EXCEPT ![c] = q][c] = q
             /\ \A d \in Connections \ {c} : [f EXCEPT ![c] = q][d] = f[d]
  OBVIOUS
<1>3. ASSUME history' = [history EXCEPT !.received = [history.received EXCEPT ![c] = q]]
      PROVE  /\ history' \in Histories /\ history'.sent = history.sent
             /\ history'.received = [history.received EXCEPT ![c] = q]
  <2> DEFINE r == [history.received EXCEPT ![c] = q]
  <2>1. r \in Sequences /\ history' = [history EXCEPT !.received = r]
    BY <1>1, <1>2, <1>3
  <2> HIDE DEF r, Sequences
  <2>2. /\ history' \in [requests : Nat, sent : Sequences, received : Sequences]
        /\ history'.sent = history.sent /\ history'.received = r
    BY <1>1, <2>1
  <2> QED
    BY <2>2 DEF Histories, Sequences, r
<1>4. ASSUME history' = [history EXCEPT !.sent = [history.sent EXCEPT ![c] = q]]
      PROVE  /\ history' \in Histories /\ history'.received = history.received
             /\ history'.sent = [history.sent EXCEPT ![c] = q]
  <2> DEFINE r == [history.sent EXCEPT ![c] = q]
  <2>1. r \in Sequences /\ history' = [history EXCEPT !.sent = r]
    BY <1>1, <1>2, <1>4
  <2> HIDE DEF r, Sequences
  <2>2. /\ history' \in [requests : Nat, sent : Sequences, received : Sequences]
        /\ history'.received = history.received /\ history'.sent = r
    BY <1>1, <2>1
  <2> QED
    BY <2>2 DEF Histories, Sequences, r
<1>5. history.received \in Sequences /\ history.sent \in Sequences
  <2> HIDE DEF Sequences
  <2> QED
    BY <1>1
<1> QED
  BY <1>2, <1>3, <1>4, <1>5

(* One packet is read and shown if it is a tweet.                          *)
LEMMA ReadPreserves ==
  ASSUME ConvInv, UNCHANGED <<serverVars, scenario>>, main = "read",
         NEW c \in Connections, Current = c, toClient[c] # <<>>,
         history' = [history EXCEPT !.received[c] =
                       IF Head(toClient[c]).type = "UPDATE" THEN Append(@, Head(toClient[c])) ELSE @],
         main' = "poll", ReadFrom(c),
         UNCHANGED <<message, frontEnd, lookForServer, sockets, m_socket_num, pollfd>>
  PROVE  ConvInv'
<1> DEFINE h == Head(toClient[c])
           q == history.received[c] \o Tweets(<<h>>)
<1>1. /\ toClient' = [toClient EXCEPT ![c] = Tail(toClient[c])]
      /\ UNCHANGED <<server, at, toServer, closed, peer, posted, fetched>>
  BY DEF ReadFrom, serverVars
<1>2. /\ history.received[c] \in Seq(Packets) /\ h \in Packets /\ Tail(toClient[c]) \in Seq(Packets)
      /\ h = toClient[c][1]
      /\ \A k \in 1..Len(Tail(toClient[c])) : Tail(toClient[c])[k] = toClient[c][k + 1]
      /\ Len(Tail(toClient[c])) = Len(toClient[c]) - 1 /\ Len(toClient[c]) \in Nat \ {0}
  BY ClientFacts, ConnectionTypes, HeadAndTail DEF Histories
<1>3. q \in Seq(Packets)
      /\ q = IF h.type = "UPDATE" THEN Append(history.received[c], h) ELSE history.received[c]
  <2>1. Tweets(<<h>>) = (IF h.type = "UPDATE" THEN <<h>> ELSE <<>>)
    BY <1>2, StreamOfOne
  <2>2. /\ Append(history.received[c], h) \in Seq(Packets)
        /\ Append(history.received[c], h) = history.received[c] \o <<h>>
        /\ history.received[c] \o <<>> = history.received[c]
    BY <1>2, Appended, NothingAdded
  <2> HIDE DEF h
  <2> QED
    BY <1>2, <2>1, <2>2
<1>4. /\ history' \in Histories /\ history'.sent = history.sent /\ history'.received[c] = q
      /\ \A d \in Connections \ {c} : history'.received[d] = history.received[d]
  <2>1. history' = [history EXCEPT !.received[c] = q]
    BY <1>3
  <2>2. history \in Histories /\ q \in Seq(Packets)
    BY <1>3, ClientFacts
  <2> HIDE DEF q
  <2> QED
    BY <2>1, <2>2, HistoryOf, ZenonT(60)
<1>5. /\ ClientTyped' /\ ClientOK' /\ Current' = Current /\ ~frontEnd.firstTime
      /\ ClientRuns' /\ \A d \in Connections : ~Asking(d)
  <2>1. message' \in Messages \cup {NoMessage}
    BY ClientFacts DEF ClientTyped
  <2> QED
    BY <1>1, <1>4, <2>1, MainReturns
<1>6. /\ toClient' \in [Connections -> Seq(Packets)] /\ toClient'[c] = Tail(toClient[c])
      /\ \A d \in Connections \ {c} : toClient'[d] = toClient[d]
  BY <1>1, <1>2, ClientFacts DEF NetworkTyped
<1>7. NetworkTyped' /\ ServersTyped'
  BY <1>1, <1>6, ClientFacts DEF NetworkTyped, ServersTyped
<1>8. ASSUME NEW d \in Connections, d # c
      PROVE  ConnectionOK(d)'
  <2>1. /\ Asking(d)' <=> Asking(d)
        /\ AskingOK(d)' /\ AwaitedOK(d)' /\ CurrentOK(d)' => ConnectionOK(d)'
    BY <1>1, <1>4, <1>6, <1>8, ClientFacts, ConnectionSame DEF Made
  <2>2. AskingOK(d)' /\ AwaitedOK(d)' /\ CurrentOK(d)'
    BY <1>1, <1>5, <1>6, <1>8, <2>1, ClientFacts
       DEF ConnectionOK, AskingOK, AwaitedOK, CurrentOK, Refusals
  <2> QED
    BY <2>1, <2>2
<1>9. ConnectionOK(c)'
  <2>1. Made(c)
    BY CurrentMade
  <2>2. /\ ~Asking(c)'
        /\ AskingOK(c)' /\ AwaitedOK(c)' /\ CurrentOK(c)' => ConnectionOK(c)'
    BY <1>1, <1>4, <1>6, <2>1, ClientFacts, ConnectionRead
  <2>3. AskingOK(c)' /\ CurrentOK(c)'
    BY <1>1, <1>5, <2>2, ClientFacts DEF ConnectionOK, AskingOK, CurrentOK
  <2>4. AwaitedOK(c)'
    <3>1. SUFFICES ASSUME frontEnd.place = "answer", frontEnd.awaited = c
                   PROVE  /\ ~peer[c].signedIn /\ Refusals(Tail(toClient[c]))
                          /\ Tail(toClient[c]) # <<>> =>
                               Tail(toClient[c])[1].type \in {"ACK", "NACK", "SHUTDOWN_REQ"}
      BY <1>1, <1>6, <2>2 DEF AwaitedOK, Refusals
    <3>2. ~peer[c].signedIn /\ Refusals(toClient[c])
      BY <1>5, <3>1, ClientFacts DEF ConnectionOK, AwaitedOK
    <3>3. Refusals(Tail(toClient[c]))
      <4>1. \A k \in 1..Len(Tail(toClient[c])) : k + 1 \in 1..Len(toClient[c])
        BY <1>2
      <4> QED
        BY <1>2, <3>2, <4>1 DEF Refusals
    <3>4. Tail(toClient[c]) # <<>> => 1 \in 1..Len(Tail(toClient[c]))
      <4> DEFINE r == Tail(toClient[c])
      <4>1. r \in Seq(Packets)
        BY <1>2
      <4> HIDE DEF r
      <4>2. r # <<>> => Len(r) \in Nat \ {0}
        BY <4>1, EmptySeq
      <4>3. r # <<>> => 1 \in 1..Len(r)
        BY <4>2
      <4> QED
        BY <4>3 DEF r
    <3> QED
      BY <3>2, <3>3, <3>4 DEF Refusals
  <2> QED
    BY <2>2, <2>3, <2>4
<1> QED
  BY <1>5, <1>7, <1>8, <1>9 DEF ConvInv, Typed

LEMMA ReceiverPreserves ==
  ASSUME ConvInv, client_receiver, UNCHANGED <<serverVars, scenario>>
  PROVE  ConvInv'
<1>1. main = "read" /\ ClientRuns /\ ~frontEnd.firstTime
  BY ClientFacts DEF client_receiver, ClientRuns, Ends
<1>2. ASSUME Current \in Connections => AtEnd(Current), main' = "poll",
             UNCHANGED <<netVars, message, frontEnd, lookForServer, sockets, m_socket_num, pollfd,
                         history>>
      PROVE  ConvInv'
  <2>1. /\ message' \in Messages \cup {NoMessage} /\ pollfd' \in {0} \cup Descriptors
        /\ KeepsHistory
    BY <1>2, ClientFacts DEF ClientTyped, KeepsHistory
  <2> QED
    BY <1>1, <1>2, <2>1, MainMoves
<1>3. ASSUME NEW c \in Connections, c = Current, toClient[c] # <<>>,
             Head(toClient[c]).type = "SHUTDOWN_REQ", Exit("stopped"), UNCHANGED history
      PROVE  ConvInv'
  BY <1>3, ExitPreserves DEF Ends
<1>4. ASSUME NEW c \in Connections, c = Current, toClient[c] # <<>>,
             history' = [history EXCEPT !.received[c] =
                           IF Head(toClient[c]).type = "UPDATE"
                           THEN Append(@, Head(toClient[c])) ELSE @],
             main' = "poll", ReadFrom(c),
             UNCHANGED <<message, frontEnd, lookForServer, sockets, m_socket_num, pollfd>>
      PROVE  ConvInv'
  BY <1>1, <1>4, ReadPreserves
<1> QED
  BY <1>2, <1>3, <1>4 DEF client_receiver

LEMMA QueuedIsSequence ==
  ASSUME NEW queue \in Seq(Packets), NEW k \in 1..(Len(queue) + 1)
  PROVE  SubSeq(queue, k, Len(queue)) \in Seq(Packets)
<1>1. \A i \in k..Len(queue) : queue[i] \in Packets
  BY SequenceFacts
<1>2. k \in Int /\ Len(queue) \in Int
  BY SequenceFacts
<1> QED
  BY <1>1, <1>2, SubSeqProperties

(* A message goes into the stream, and a request into the history.         *)
LEMMA DeliveryPreserves ==
  ASSUME ConvInv, UNCHANGED <<serverVars, scenario, m_socket_num>>, main = "send", main' = "poll",
         NEW c \in Connections, Current = c,
         "server" \notin closed[c],
         toServer' = [toServer EXCEPT ![c] = Append(@, message)],
         history' = [history EXCEPT !.sent[c] =
                       IF message.type = "KEEP_ALIVE" THEN @ ELSE Append(@, message)],
         message' = NoMessage,
         UNCHANGED <<server, at, toClient, closed, frontEnd, lookForServer, sockets, pollfd>>
  PROVE  ConvInv'
<1> DEFINE m == message
           was == history.sent[c]
           q == was \o Requests(<<m>>)
<1>1. /\ m \in Packets /\ m.type \in {"UPDATE", "FOLLOW", "KEEP_ALIVE"}
      /\ UNCHANGED <<peer, posted, fetched>>
  BY ClientFacts DEF ClientOK, ClientTyped, Messages, serverVars
<1>2. was \in Seq(Packets) /\ toServer[c] \in Seq(Packets) /\ history \in Histories
  BY ClientFacts, ConnectionTypes DEF Histories
<1>3. Append(toServer[c], m) \in Seq(Packets) /\ Append(toServer[c], m) = toServer[c] \o <<m>>
  BY <1>1, <1>2, Appended
<1>4. /\ <<m>> \in Seq(Packets) /\ Requests(<<m>>) \in Seq(Packets) /\ q \in Seq(Packets)
      /\ q = IF m.type = "KEEP_ALIVE" THEN was ELSE Append(was, m)
  <2>1. Requests(<<m>>) = IF m.type \in {"UPDATE", "FOLLOW"} THEN <<m>> ELSE <<>>
    BY <1>1, StreamOfOne
  <2>2. <<m>> \in Seq(Packets) /\ <<>> \in Seq(Packets)
    BY <1>1, StreamOfOne, EmptyStream
  <2>3. /\ Append(was, m) \in Seq(Packets) /\ Append(was, m) = was \o <<m>>
        /\ was \o <<>> = was
    BY <1>1, <1>2, Appended, NothingAdded
  <2> HIDE DEF m, was
  <2> QED
    BY <1>1, <1>2, <2>1, <2>2, <2>3
<1>5. /\ history' \in Histories /\ history'.received = history.received /\ history'.sent[c] = q
      /\ \A d \in Connections \ {c} : history'.sent[d] = history.sent[d]
  <2>1. history' = [history EXCEPT !.sent[c] = q]
    BY <1>4
  <2>2. q \in Seq(Packets) /\ history \in Histories
    BY <1>2, <1>4
  <2> HIDE DEF q
  <2> QED
    BY <2>1, <2>2, HistoryOf, ZenonT(60)
<1>6. /\ ClientTyped' /\ ClientOK' /\ Current' = Current /\ ~frontEnd.firstTime
      /\ ClientRuns' /\ \A d \in Connections : ~Asking(d)
  BY <1>5, MainReturns
<1>7. /\ toServer' \in [Connections -> Seq(Packets)] /\ toServer'[c] = toServer[c] \o <<m>>
      /\ \A d \in Connections \ {c} : toServer'[d] = toServer[d]
  BY <1>3, ClientFacts DEF NetworkTyped
<1>8. NetworkTyped' /\ ServersTyped'
  BY <1>1, <1>7, ClientFacts DEF NetworkTyped, ServersTyped
<1>9. ASSUME NEW d \in Connections, d # c
      PROVE  ConnectionOK(d)'
  <2>1. /\ Asking(d)' <=> Asking(d)
        /\ AskingOK(d)' /\ AwaitedOK(d)' /\ CurrentOK(d)' => ConnectionOK(d)'
    BY <1>1, <1>5, <1>7, <1>9, ClientFacts, ConnectionSame DEF Made
  <2>2. AskingOK(d)' /\ AwaitedOK(d)' /\ CurrentOK(d)'
    BY <1>1, <1>6, <1>9, <2>1, ClientFacts
       DEF ConnectionOK, AskingOK, AwaitedOK, CurrentOK, Refusals
  <2> QED
    BY <2>1, <2>2
<1>10. ConnectionOK(c)'
  <2>1. Made(c)' /\ Made(c) /\ ConnectionOK(c) /\ (Working(c)' <=> Working(c)) /\ (Up(c)' <=> Up(c))
    BY <1>1, CurrentMade, ClientFacts DEF Made, Working, Up
  <2>2. ConnectorOK(c)' /\ OthersOK(c)' /\ SignInOK(c)' /\ TweetsOK(c)'
    BY <1>1, <1>5, <2>1
       DEF ConnectionOK, ConnectorOK, OthersOK, SignInOK, NothingYet, Refusals, TweetsOK, Flow, Tweets
  <2>3. ~Asking(c)'
    <3>1. peer[c].incomingPkt.type # "SIGN_IN" /\ \A k \in 1..Len(toServer[c]) : toServer[c][k].type # "SIGN_IN"
      BY <1>6 DEF Asking
    <3>2. /\ Len(toServer[c] \o <<m>>) = Len(toServer[c]) + 1
          /\ \A k \in 1..(Len(toServer[c]) + 1) :
               (toServer[c] \o <<m>>)[k] = IF k <= Len(toServer[c]) THEN toServer[c][k] ELSE m
      <4>1. Len(<<m>>) = 1 /\ <<m>>[1] = m
        OBVIOUS
      <4> QED
        BY <1>2, <1>4, <4>1, ConcatProperties
    <3>3. \A k \in 1..(Len(toServer[c]) + 1) : k <= Len(toServer[c]) => k \in 1..Len(toServer[c])
      BY <1>2
    <3> QED
      BY <1>1, <1>7, <3>1, <3>2, <3>3 DEF Asking
  <2>4. AskingOK(c)' /\ AwaitedOK(c)' /\ CurrentOK(c)'
    BY <1>1, <1>6, <2>1, <2>3
       DEF ConnectionOK, AskingOK, AwaitedOK, CurrentOK, Refusals
  <2>5. RequestsOK(c)'
    <3> DEFINE a == Done(c)
               b == Requests(<<peer[c].incomingPkt>>)
               s == Requests(toServer[c])
               r == Requests(<<m>>)
    <3>1. a \in Seq(Packets) /\ b \in Seq(Packets) /\ s \in Seq(Packets) /\ r \in Seq(Packets)
      <4>1. /\ peer[c].executed \in Seq(Packets) /\ peer[c].incomingMessages \in Seq(Packets)
            /\ peer[c].incomingPkt \in Packets
            /\ peer[c].next \in 1..(Len(peer[c].incomingMessages) + 1)
        BY <2>1, ClientFacts, ConnectionTypes DEF ConnectionOK, OthersOK
      <4>2. Queued(c) \in Seq(Packets)
        BY <4>1, QueuedIsSequence DEF Queued
      <4>3. a \in Seq(Packets)
        BY <4>1, <4>2, ConcatProperties DEF Done
      <4>4. <<peer[c].incomingPkt>> \in Seq(Packets)
        BY <4>1, StreamOfOne
      <4> QED
        BY <1>2, <1>4, <4>3, <4>4, StreamOfConcat
    <3>2. /\ Done(c)' = a /\ Coming(c)' = b \o Requests(toServer[c] \o <<m>>) /\ Coming(c) = b \o s
      BY <1>1, <1>7 DEF Done, Queued, Coming, Requests
    <3>3. Requests(toServer[c] \o <<m>>) = s \o r
      BY <1>2, <1>4, StreamOfConcat
    <3>4. PICK rest \in Seq(Packets) : a \o rest = was
      BY <2>1 DEF ConnectionOK, RequestsOK
    <3>5. Working(c) => a \o Coming(c) = was
      BY <2>1 DEF ConnectionOK, RequestsOK
    <3>6. history'.sent[c] = was \o r
      BY <1>5
    <3>7. was \in Seq(Packets)
      BY <1>2
    <3> HIDE DEF a, b, s, r, was, m, q
    <3>8. rest \o r \in Seq(Packets) /\ a \o (rest \o r) = (a \o rest) \o r
      <4>1. a \in Seq(Packets) /\ r \in Seq(Packets)
        BY <3>1
      <4>2. a \o (rest \o r) = (a \o rest) \o r
        BY <4>1, Regroup
      <4>3. rest \o r \in Seq(Packets)
        BY <4>1, ConcatProperties
      <4> QED
        BY <4>2, <4>3
    <3>9. a \o (b \o (s \o r)) = (a \o (b \o s)) \o r
      <4>1. Join(Join(a, Join(b, s)), r) = Join(a, Join(b, Join(s, r)))
        BY <3>1, RegroupFour
      <4> QED
        BY <4>1 DEF Join
    <3>10. \E more \in Seq(Packets) : Done(c)' \o more = history'.sent[c]
      BY <3>2, <3>4, <3>6, <3>8
    <3>11. Working(c)' => Done(c)' \o Coming(c)' = history'.sent[c]
      BY <2>1, <3>2, <3>3, <3>5, <3>6, <3>9
    <3> QED
      BY <3>10, <3>11 DEF RequestsOK
  <2> QED
    BY <2>1, <2>2, <2>4, <2>5 DEF ConnectionOK
<1> QED
  BY <1>6, <1>8, <1>9, <1>10 DEF ConvInv, Typed

(* A message that is lost leaves a mark on a connection that was made.     *)
LEMMA LossPreserves ==
  ASSUME ConvInv, UNCHANGED <<serverVars, scenario, m_socket_num>>, SendIsLost
  PROVE  ConvInv'
<1>1. /\ main = "send" /\ main' = "poll" /\ message' = NoMessage
      /\ closed' = [c \in Connections |-> closed[c] \cup IF c = Current THEN {"reset"} ELSE {}]
      /\ UNCHANGED <<server, at, toServer, toClient, peer, posted, fetched>>
      /\ UNCHANGED <<frontEnd, lookForServer, sockets, pollfd, history>>
  BY DEF SendIsLost, MainGoes, serverVars
<1>2. /\ ClientTyped' /\ ClientOK' /\ Current' = Current /\ ~frontEnd.firstTime
      /\ ClientRuns' /\ \A c \in Connections : ~Asking(c)
  BY <1>1, ClientFacts, MainReturns
<1>3. closed' \in [Connections -> SUBSET {"client", "server", "reset"}]
  BY <1>1, ClientFacts DEF NetworkTyped
<1>4. NetworkTyped' /\ ServersTyped'
  BY <1>1, <1>3, ClientFacts DEF NetworkTyped, ServersTyped
<1>5. ASSUME NEW c \in Connections
      PROVE  ConnectionOK(c)'
  <2>1. \/ closed'[c] = closed[c]
        \/ Made(c) /\ closed'[c] = closed[c] \cup {"reset"}
    BY <1>1, CurrentMade
  <2>2. /\ Asking(c)' <=> Asking(c)
        /\ AskingOK(c)' /\ AwaitedOK(c)' /\ CurrentOK(c)' => ConnectionOK(c)'
    BY <1>1, <2>1, ClientFacts, ConnectionSame DEF Made
  <2>3. AskingOK(c)' /\ AwaitedOK(c)' /\ CurrentOK(c)'
    BY <1>1, <1>2, <2>1, <2>2, ClientFacts
       DEF ConnectionOK, AskingOK, AwaitedOK, CurrentOK, Refusals
  <2> QED
    BY <2>2, <2>3
<1> QED
  BY <1>2, <1>4, <1>5 DEF ConvInv, Typed

(* The current connection is given up.  After the first time nobody asks   *)
(* to sign in, and what the front end may still wait for is a refusal.     *)
LEMMA LosePreserves ==
  ASSUME ConvInv, UNCHANGED <<serverVars, scenario>>, main \in {"poll", "send"},
         NEW retry \in {NoMessage, message}, LoseServer(retry)
  PROVE  ConvInv'
<1>1. PICK closing \in {{Current}, {Current} \ {frontEnd.awaited}} :
        ClientCloses(closing \cap Connections)
  BY DEF LoseServer
<1>2. /\ main' = "lost" /\ message' = retry /\ lookForServer'
      /\ sockets' = [d \in Descriptors |-> IF d = m_socket_num THEN Free ELSE sockets[d]]
      /\ frontEnd' = IF frontEnd.place = "blocked" THEN [frontEnd EXCEPT !.place = "predicate"]
                     ELSE frontEnd
      /\ UNCHANGED <<m_socket_num, pollfd, history>>
      /\ UNCHANGED <<server, at, toServer, peer, posted, fetched>>
  BY <1>1 DEF LoseServer, ClientCloses, serverVars
<1>3. closing \cap Connections \subseteq 1..Len(at)
  BY CurrentMade
<1>4. NetworkTyped' /\ ServersTyped'
  BY <1>1, <1>2, <1>3, ClientFacts, ClosesTyped DEF ServersTyped
<1>5. ClientRuns /\ ClientRuns' /\ ~frontEnd.firstTime
  BY <1>2, ClientFacts DEF ClientRuns, Ends
<1>6. /\ frontEnd' \in FrontEnds /\ ~frontEnd'.firstTime /\ frontEnd'.connected = frontEnd.connected
      /\ frontEnd'.awaited = frontEnd.awaited /\ frontEnd'.attempt = frontEnd.attempt
      /\ frontEnd'.place = "answer" <=> frontEnd.place = "answer"
      /\ frontEnd'.place = "connect" <=> frontEnd.place = "connect"
  BY <1>2, <1>5, ClientFacts DEF FrontEnds
<1>7. Current' = Free
  <2>1. m_socket_num \in {0} \cup Descriptors
    BY ClientFacts DEF ClientTyped
  <2> QED
    BY <1>2, <2>1 DEF Current, Behind, Free
<1>8. ClientTyped'
  <2>1. sockets' \in [Descriptors -> {Free, Unconnected} \cup 1..Len(at)]
    BY <1>2, ClientFacts DEF ClientTyped
  <2>2. message' \in Messages \cup {NoMessage}
    BY <1>2, ClientFacts DEF ClientTyped
  <2> QED
    BY <1>2, <1>6, <2>1, <2>2, ClientFacts DEF ClientTyped, Free, Unconnected
<1>9. ClientOK'
  <2>1. WaitsAtFirst' /\ SearchOK'
    BY <1>2, <1>5, <1>6, <1>7, ClientFacts DEF WaitsAtFirst, SearchOK, ClientOK
  <2>2. SocketsSuffice'
    <3> DEFINE room == NumServers * Len(at)
    <3>1. Used' \subseteq Used
      BY <1>2 DEF Used, Free
    <3>2. /\ Cardinality(Used') <= Cardinality(Used)
          /\ Cardinality(Used') \in Nat /\ Cardinality(Used) \in Nat
      BY <3>1, UsedNumber, FS_Subset, FS_CardinalityType
    <3>3. /\ Tried' = Tried /\ Tried \in Int /\ room \in Nat /\ NumServers * Len(at') = room
          /\ Cardinality(Used) <= room + Tried
      BY <1>2, <1>6, Budget, ClientFacts, Attempts
         DEF Tried, FrontEnds, ClientOK, SocketsSuffice
    <3> HIDE DEF room
    <3> QED
      BY <3>2, <3>3 DEF SocketsSuffice
  <2> QED
    BY <1>2, <1>5, <2>1, <2>2 DEF ClientOK
<1>10. ASSUME NEW c \in Connections
       PROVE  ConnectionOK(c)'
  <2>1. ConnectionOK(c) /\ ~Asking(c)
    BY <1>5, ClientFacts DEF ConnectionOK, AskingOK
  <2>2. CurrentOK(c)'
    BY <1>7, NetworkAssumption DEF CurrentOK, Free, Connections
  <2>3. CASE c \in closing
    <3>1. toClient'[c] = <<>> /\ closed'[c] = closed[c] \cup {"client"} /\ Made(c)
      BY <1>1, <2>3, CurrentMade DEF ClientCloses
    <3>2. /\ Asking(c)' <=> Asking(c)
          /\ AskingOK(c)' /\ AwaitedOK(c)' /\ CurrentOK(c)' => ConnectionOK(c)'
      BY <1>2, <2>1, <3>1, ConnectionLeft
    <3>3. Refusals(<<>>)
      BY EmptyStream DEF Refusals
    <3>4. AwaitedOK(c)'
      BY <1>2, <1>5, <1>6, <2>1, <3>1, <3>2, <3>3 DEF ConnectionOK, AwaitedOK
    <3> QED
      BY <2>1, <2>2, <3>2, <3>4 DEF AskingOK
  <2>4. CASE c \notin closing
    <3>1. toClient'[c] = toClient[c] /\ closed'[c] = closed[c]
      BY <1>1, <2>4, ClientFacts DEF ClientCloses, NetworkTyped
    <3>2. /\ Asking(c)' <=> Asking(c)
          /\ AskingOK(c)' /\ AwaitedOK(c)' /\ CurrentOK(c)' => ConnectionOK(c)'
      BY <1>2, <2>1, <3>1, ConnectionSame DEF Made
    <3>3. AwaitedOK(c)'
      BY <1>2, <1>5, <1>6, <2>1, <3>1, <3>2 DEF ConnectionOK, AwaitedOK, Refusals
    <3> QED
      BY <2>1, <2>2, <3>2, <3>3 DEF AskingOK
  <2> QED
    BY <2>3, <2>4
<1> QED
  BY <1>4, <1>8, <1>9, <1>10 DEF ConvInv, Typed

LEMMA MainStepPreserves ==
  ASSUME ConvInv, MainStep, UNCHANGED <<serverVars, scenario>>
  PROVE  ConvInv'
<1>1. CASE (Start \/ WaitFirst \/ PollReadable \/ WaitLost) /\ UNCHANGED m_socket_num
  BY <1>1, MainOnlyPreserves
<1>2. CASE SendDelivers /\ UNCHANGED m_socket_num
  <2>1. PICK c \in Connections : c = Current
    BY <1>2 DEF SendDelivers
  <2> QED
    BY <1>2, <2>1, DeliveryPreserves DEF SendDelivers, MainGoes
<1>3. CASE SendIsLost /\ UNCHANGED m_socket_num
  BY <1>3, LossPreserves
<1>4. CASE client_receiver
  BY <1>4, ReceiverPreserves
<1>5. CASE PollHangup
  BY <1>5, LosePreserves DEF PollHangup
<1>6. CASE SendFails
  BY <1>6, LosePreserves DEF SendFails
<1>7. CASE SendKills
  BY <1>7, ExitPreserves DEF SendKills, Ends
<1> QED
  BY <1>1, <1>2, <1>3, <1>4, <1>5, <1>6, <1>7 DEF MainStep

LEMMA UserStepPreserves ==
  ASSUME ConvInv, UserStep, UNCHANGED <<serverVars, scenario>>
  PROVE  ConvInv'
<1>1. CASE EndOfInput
  BY <1>1, ExitPreserves DEF EndOfInput, Ends
<1>2. CASE \E type \in {"UPDATE", "FOLLOW"} : Command(type) /\ UNCHANGED m_socket_num
  BY <1>2, MainOnlyPreserves
<1> QED
  BY <1>1, <1>2 DEF UserStep

-----------------------------------------------------------------------------
(* Nothing happens.                                                        *)
LEMMA NothingPreserves ==
  ASSUME ConvInv, UNCHANGED vars
  PROVE  ConvInv'
<1>1. UNCHANGED <<scenario, netVars, serverVars, clientVars>>
  BY DEF vars
<1>2. ServerOnly
  BY <1>1, ClientFacts DEF ServerOnly, netVars, serverVars, NetworkTyped, ServersTyped
<1>3. Counted'
  BY <1>1, ClientFacts DEF Counted, serverVars, ServersTyped
<1>4. ASSUME NEW c \in Connections
      PROVE  ConnectionOK(c)'
  BY <1>1, ClientFacts, ConnectionKept DEF Up, Made, netVars, serverVars
<1> QED
  BY <1>1, <1>2, <1>3, <1>4, ServerSide

LEMMA StepPreserves ==
  ASSUME ConvInv, [Next]_vars
  PROVE  ConvInv'
<1>1. ASSUME NEW c \in Connections, ServerDoes(ConnectionStep(c))
      PROVE  ConvInv'
  BY <1>1, ServerStepPreserves DEF ServerDoes
<1>2. ASSUME NEW s \in Servers, ServerDoes(Stop(s) \/ ControllerStep(s) \/ Kill(s) \/ Post(s))
      PROVE  ConvInv'
  BY <1>2, ServerStepPreserves DEF ServerDoes
<1>3. ASSUME ClientDoes(FrontEndStep \/ MainStep \/ UserStep \/ KeepAlive)
      PROVE  ConvInv'
  <2>1. /\ FrontEndStep \/ MainStep \/ UserStep \/ KeepAlive
        /\ UNCHANGED <<serverVars, scenario>>
    BY <1>3 DEF ClientDoes
  <2>2. CASE KeepAlive
    BY <2>1, <2>2, MainOnlyPreserves DEF KeepAlive, KeepAliveStep
  <2> QED
    BY <2>1, <2>2, FrontEndStepPreserves, MainStepPreserves, UserStepPreserves
<1>4. CASE UNCHANGED vars
  BY <1>4, NothingPreserves
<1> QED
  BY <1>1, <1>2, <1>3, <1>4 DEF Next

LEMMA InitEstablishes == Init => ConvInv
<1> SUFFICES ASSUME Init
             PROVE  ConvInv
  OBVIOUS
<1>1. /\ scenario \in Scenarios /\ server = [s \in Servers |-> IF s \in scenario.up THEN "up" ELSE "down"]
      /\ at = <<>>
      /\ toServer = [c \in Connections |-> <<>>] /\ toClient = [c \in Connections |-> <<>>]
      /\ closed = [c \in Connections |-> {}]
      /\ peer = [c \in Connections |-> NewPeer]
      /\ posted = [s \in Servers |-> 0] /\ fetched = [s \in Servers |-> 0]
  BY DEF Init, NetworkInit, ServerInit
<1>2. /\ main = "create" /\ message = NoMessage
      /\ frontEnd = [place |-> "predicate", attempt |-> 1, awaited |-> 0,
                     connected |-> FALSE, firstTime |-> TRUE, serverIndex |-> 1]
      /\ lookForServer = TRUE /\ sockets = [d \in Descriptors |-> Free]
      /\ m_socket_num = 0 /\ pollfd = 0
      /\ history = [requests |-> 0, sent |-> [c \in Connections |-> <<>>],
                    received |-> [c \in Connections |-> <<>>]]
  BY DEF Init, ClientInit
<1>3. /\ <<>> \in Seq(Packets) /\ <<>> \in Seq(Servers) /\ Len(<<>>) = 0
      /\ NumServers \in Nat /\ MaxConnections \in Nat
  BY EmptyStream, EmptySeq, NetworkAssumption
<1>4. NetworkTyped
  BY <1>1, <1>3 DEF NetworkTyped
<1>5. ServersTyped
  <2>1. NewPeer \in Peers
    <3>1. NoPacket \in Packets
      BY DEF NoPacket, Packet, Packets, Types
    <3> QED
      BY <1>3, <3>1 DEF NewPeer, Peers
  <2> HIDE DEF NewPeer
  <2> QED
    BY <1>1, <2>1 DEF ServersTyped
<1>6. ClientTyped
  <2>1. frontEnd \in FrontEnds
    BY <1>2, <1>3 DEF FrontEnds
  <2>2. history \in Histories
    BY <1>2, <1>3 DEF Histories
  <2> QED
    BY <1>2, <2>1, <2>2 DEF ClientTyped
<1>7. Current = 0
  BY <1>2 DEF Current, Behind, Free
<1>8. ClientOK
  <2>1. Used = {} /\ Tried = 0
    BY <1>2 DEF Used, Tried
  <2>2. SocketsSuffice
    <3>1. Cardinality({}) = 0 /\ NumServers * Len(at) = 0
      BY <1>1, <1>3, FS_EmptySet
    <3> QED
      BY <2>1, <3>1 DEF SocketsSuffice
  <2> QED
    BY <1>2, <2>2 DEF ClientOK, ClientRuns, Ends, WaitsAtFirst, SearchOK
<1>9. ASSUME NEW c \in Connections
      PROVE  ConnectionOK(c)
  <2>1. /\ peer[c] = NewPeer /\ toServer[c] = <<>> /\ toClient[c] = <<>> /\ closed[c] = {}
        /\ history.sent[c] = <<>> /\ history.received[c] = <<>>
        /\ frontEnd.place = "predicate" /\ Current # c
    BY <1>1, <1>2, <1>7, NetworkAssumption DEF Connections
  <2>2. /\ NewPeer.connector = "none" /\ NewPeer.incomingPkt = NoPacket
        /\ ~NewPeer.clientShutdownNotice /\ ~NewPeer.signedIn
        /\ NewPeer.incomingMessages = <<>> /\ NewPeer.outgoingMessages = <<>>
        /\ NewPeer.next = 1 /\ NewPeer.speaker = "top" /\ NewPeer.listener = "pitstop"
        /\ NewPeer.outTweets = <<>> /\ NewPeer.executed = <<>> /\ NewPeer.forwarded = <<>>
        /\ NoPacket.type = "none"
    BY DEF NewPeer, NoPacket, Packet
  <2>3. Untouched(c) /\ ConnectorOK(c)
    BY <2>1, <2>2 DEF Untouched, ConnectorOK
  <2>4. OthersOK(c)
    BY <1>3, <2>1, <2>2 DEF OthersOK
  <2>5. SignInOK(c)
    BY <1>3, <2>1, <2>2 DEF SignInOK, NothingYet, Refusals
  <2>6. AskingOK(c) /\ AwaitedOK(c) /\ CurrentOK(c)
    BY <1>3, <2>1, <2>2 DEF AskingOK, Asking, AwaitedOK, CurrentOK
  <2>7. RequestsOK(c) /\ TweetsOK(c)
    <3>1. SubSeq(<<>>, 1, Len(<<>>)) = <<>>
      BY EmptyStream, SubSeqEmpty
    <3>2. Done(c) = <<>>
      BY <2>1, <2>2, <3>1, EmptyStream, NothingAdded DEF Done, Queued
    <3> QED
      BY <2>1, <2>2, <3>2, EmptyStream, NothingAdded DEF RequestsOK, TweetsOK, Working
  <2> QED
    BY <2>3, <2>4, <2>5, <2>6, <2>7 DEF ConnectionOK
<1> QED
  BY <1>4, <1>5, <1>6, <1>8, <1>9 DEF ConvInv, Typed

(* The inductive invariant holds always.                                   *)
THEOREM ConversationInvariant == Spec => []ConvInv
<1>1. Init => ConvInv
  BY InitEstablishes
<1>2. ConvInv /\ [Next]_vars => ConvInv'
  BY StepPreserves
<1> QED
  BY <1>1, <1>2, PTL DEF Spec

-----------------------------------------------------------------------------
LEMMA FirstPart ==
  ASSUME NEW q \in Seq(Packets), NEW p \in Seq(Packets)
  PROVE  IsPrefix(q, q \o p)
<1> DEFINE all == q \o p
           n == Len(q)
<1>1. /\ all \in Seq(Packets) /\ n \in Nat /\ Len(p) \in Nat /\ Len(all) = n + Len(p)
      /\ \A k \in 1..(n + Len(p)) : all[k] = IF k <= n THEN q[k] ELSE p[k - n]
  BY SequenceFacts, ConcatProperties
<1>2. \A k \in 1..n : k \in 1..(n + Len(p)) /\ all[k] = q[k] /\ q[k] \in Packets
  BY <1>1, SequenceFacts
<1> HIDE DEF all
<1>3. /\ SubSeq(all, 1, n) \in Seq(Packets) /\ Len(SubSeq(all, 1, n)) = n
      /\ \A k \in 1..n : SubSeq(all, 1, n)[k] = all[k]
  <2>1. \A k \in 1..n : all[k] \in Packets
    BY <1>2
  <2> HIDE DEF n
  <2>2. n - 1 + 1 = n /\ (IF 1 <= n THEN n - 1 + 1 ELSE 0) = n /\ \A k \in 1..n : 1 + k - 1 = k
    BY <1>1
  <2> QED
    BY <1>1, <2>1, <2>2, SubSeqProperties
<1>4. SubSeq(all, 1, n) = q
  BY <1>1, <1>2, <1>3, SeqEqual
<1> QED
  BY <1>1, <1>4, SubSeqFull DEF IsPrefix, all

(* What a server executes is what its client has sent, in that order and   *)
(* each once; nothing is lost between the socket, the incoming queue and   *)
(* the speaker while the connection lasts.                                 *)
THEOREM RequestsArrive == Spec => []RequestStreamIntact
<1>1. ConvInv => RequestStreamIntact
  <2>1. SUFFICES ASSUME ConvInv, NEW c \in Connections
                 PROVE  /\ IsPrefix(peer[c].executed, history.sent[c])
                        /\ Working(c) => peer[c].executed \o RequestsOnTheWay(c) = history.sent[c]
    BY DEF RequestStreamIntact
  <2> DEFINE done == peer[c].executed
             queue == Queued(c)
             one == <<peer[c].incomingPkt>>
             coming == Coming(c)
             all == history.sent[c]
  <2>2. /\ done \in Seq(Packets) /\ one \in Seq(Packets) /\ toServer[c] \in Seq(Packets)
        /\ queue \in Seq(Packets) /\ all \in Seq(Packets)
    <3>1. /\ done \in Seq(Packets) /\ peer[c].incomingPkt \in Packets
          /\ toServer[c] \in Seq(Packets) /\ peer[c].incomingMessages \in Seq(Packets)
          /\ peer[c].next \in 1..(Len(peer[c].incomingMessages) + 1) /\ all \in Seq(Packets)
      BY <2>1, ClientFacts, ConnectionTypes DEF ConnectionOK, OthersOK, Histories
    <3> QED
      BY <3>1, StreamOfOne, QueuedIsSequence DEF Queued
  <2>3. coming \in Seq(Packets) /\ RequestsOnTheWay(c) = queue \o coming
    <3>1. /\ Requests(one) \in Seq(Packets) /\ Requests(toServer[c]) \in Seq(Packets)
          /\ Requests(one \o toServer[c]) = Requests(one) \o Requests(toServer[c])
      BY <2>2, StreamOfConcat
    <3> QED
      BY <3>1, ConcatProperties DEF Coming, RequestsOnTheWay, Queued
  <2>4. PICK rest \in Seq(Packets) : (done \o queue) \o rest = all
    BY <2>1, ClientFacts DEF ConnectionOK, RequestsOK, Done
  <2>5. Working(c) => (done \o queue) \o coming = all
    BY <2>1, ClientFacts DEF ConnectionOK, RequestsOK, Done
  <2> HIDE DEF done, queue, one, coming, all
  <2>6. queue \o rest \in Seq(Packets) /\ all = done \o (queue \o rest)
    <3>1. done \in Seq(Packets) /\ queue \in Seq(Packets)
      BY <2>2
    <3>2. (done \o queue) \o rest = done \o (queue \o rest)
      BY <3>1, Regroup
    <3>3. queue \o rest \in Seq(Packets)
      BY <3>1, ConcatProperties
    <3> QED
      BY <2>4, <3>2, <3>3
  <2>7. IsPrefix(done, all)
    BY <2>2, <2>6, FirstPart
  <2>8. Working(c) => done \o (queue \o coming) = all
    <3>1. done \in Seq(Packets) /\ queue \in Seq(Packets) /\ coming \in Seq(Packets)
      BY <2>2, <2>3
    <3>2. (done \o queue) \o coming = done \o (queue \o coming)
      BY <3>1, Regroup
    <3> QED
      BY <2>5, <3>2
  <2> QED
    BY <2>3, <2>7, <2>8 DEF done, all
<1> QED
  BY <1>1, ConversationInvariant, PTL

(* The client shows the tweets that a listener has fetched, in that order  *)
(* and each once; none is lost between the listener, the outgoing queue    *)
(* and the socket while the connection lasts.                              *)
THEOREM TweetsArrive == Spec => []TweetStreamIntact
<1>1. ConvInv => TweetStreamIntact
  <2>1. SUFFICES ASSUME ConvInv, NEW c \in Connections, "client" \notin closed[c], Working(c)
                 PROVE  history.received[c] \o TweetsOnTheWay(c) = peer[c].forwarded
    BY DEF TweetStreamIntact
  <2> DEFINE queue == peer[c].outgoingMessages
             last == peer[c].outTweets
             t1 == Tweets(toClient[c])
             t2 == Tweets(queue)
  <2>2. toClient[c] \in Seq(Packets) /\ queue \in Seq(Packets) /\ last \in Seq(Packets)
    BY <2>1, ClientFacts, ConnectionTypes
  <2>3. /\ t1 \in Seq(Packets) /\ t2 \in Seq(Packets)
        /\ Tweets(toClient[c] \o queue) = t1 \o t2
    BY <2>2, StreamOfConcat
  <2>4. history.received[c] \o (t1 \o (t2 \o last)) = peer[c].forwarded
    BY <2>1, ClientFacts DEF ConnectionOK, TweetsOK, Flow
  <2>5. TweetsOnTheWay(c) = (t1 \o t2) \o last
    BY <2>3 DEF TweetsOnTheWay
  <2> HIDE DEF queue, last, t1, t2
  <2>6. (t1 \o t2) \o last = t1 \o (t2 \o last)
    BY <2>2, <2>3, Regroup
  <2> QED
    BY <2>4, <2>5, <2>6
<1> QED
  BY <1>1, ConversationInvariant, PTL

(* The front end that waits for the answer to its sign-in never takes a    *)
(* tweet for it: whatever the listener fetches, the answer is written      *)
(* first, and a client that comes back is refused before it can be served. *)
THEOREM AnswerIsFirst == Spec => []AnswerFirst
<1>1. ConvInv => AnswerFirst
  <2>1. SUFFICES ASSUME ConvInv, frontEnd.place = "answer", toClient[frontEnd.awaited] # <<>>
                 PROVE  Head(toClient[frontEnd.awaited]).type \in {"ACK", "NACK", "SHUTDOWN_REQ"}
    BY DEF AnswerFirst
  <2>2. PICK c \in Connections : frontEnd.awaited = c
    BY <2>1, ClientFacts, ConnectionsMade DEF ClientOK, SearchOK
  <2>3. Head(toClient[c]) = toClient[c][1]
    BY <2>1, <2>2, ClientFacts, ConnectionTypes, HeadAndTail
  <2> QED
    BY <2>1, <2>2, <2>3, ClientFacts DEF ConnectionOK, AwaitedOK
<1> QED
  BY <1>1, ConversationInvariant, PTL

(* A client that counts as connected is signed in at the other end of its  *)
(* current socket, unless the server has closed it.                        *)
THEOREM ConnectedIsSignedIn == Spec => []ConnectedMeansSignedIn
<1>1. ConvInv => ConnectedMeansSignedIn
  BY ClientFacts DEF ConnectedMeansSignedIn, ConnectionOK, CurrentOK
<1> QED
  BY <1>1, ConversationInvariant, PTL

=============================================================================
