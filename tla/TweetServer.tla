---------------------------- MODULE TweetServer ----------------------------
(***************************************************************************)
(* The server of src/src/main_server.cpp: for each connection a connector  *)
(* (from ClientSessions), a speaker that executes the client's UPDATE and  *)
(* FOLLOW requests on the database, and a listener that fetches the tweets *)
(* the user has to get; beside them the main thread, which saves the       *)
(* database periodically.  A step of this module is one critical section,  *)
(* or a computation on a thread's own variables.                           *)
(*                                                                         *)
(* The mutex listenerProceedMUT orders postings and the listeners' checks; *)
(* it is held exactly while some thread is at one of the places of         *)
(* ProceedHolders.  The reader lock of the pending list (LOPT) outlives a  *)
(* step in _retrievePendingTweets, which copies the list and clears it: a  *)
(* listener holds it at "clear".  (It also does in the listeners' check,   *)
(* when listenerProceedMUT keeps writers out already.)                     *)
(***************************************************************************)
EXTENDS ClientSessions, TweetDatabase, QueryGate, Totals

CONSTANTS
  Requests,      \* for each session, the requests its client may send
  MaxRequests,   \* for each session, a bound on how many it sends
  MaxAccepts,    \* a bound on the connections accepted in all
  Leavers,       \* the sessions whose client may leave
  AutoSave       \* FALSE: only what happens between two saves

UPDATE == "UPDATE"   \* a request to post; a FOLLOW request is its target

ASSUME RequestsAssumption ==
  /\ Requests \in [Sessions -> SUBSET (Users \cup {NoUser, UPDATE})]
  /\ MaxRequests \in [Sessions -> Nat]
  /\ MaxAccepts \in Nat
  /\ Leavers \subseteq Sessions
  /\ AutoSave \in BOOLEAN
  /\ UPDATE \notin Users \cup {NoUser}

VARIABLES
  lis,             \* where the listener of each session is
  pendingTweets,   \* its copy of the pending list, minus what it has updated
  receivedTweets,  \* the tweets it has retrieved
  archived,        \* how many of them it has archived
  outgoing,        \* the tweets it has put in the session's outgoing queue
  spk,             \* where the speaker of each session is
  request,         \* the request it executes
  tweetID,         \* the number of the tweet it posts
  followNum,       \* the followers it has counted
  requests,        \* requests the session's client has sent, in all
  accepts          \* connections accepted, in all

listenerVars == <<lis, pendingTweets, receivedTweets, archived, outgoing>>
speakerVars == <<spk, request, tweetID, followNum, requests>>
vars == <<csVars, dbVars, gateVars, listenerVars, speakerVars, accepts>>

(***************************************************************************)
(*   stopped          thread not running                                   *)
(*   pitstop          in wait_for on listenerPitstopCV                     *)
(*   checkDuplicates  looks whether there is something to get              *)
(*   retrieve         about to enter retrieveTweetsFromFollowed's query    *)
(*   copy, clear      in _retrievePendingTweets                            *)
(*   awaitDuplicates  in wait_for on LOPT_duplicate_cv, then taking them   *)
(*   lookUp           looking its pending tweets up                        *)
(*   twoConnections   asking for another connection of the same user       *)
(*   archive          archiving what it has retrieved for that connection  *)
(*   update           counting itself off each tweet it has copied         *)
(*   leave            about to leave the query                             *)
(***************************************************************************)
ListenerStates ==
  {"stopped", "pitstop", "checkDuplicates", "retrieve", "copy", "clear", "awaitDuplicates",
   "lookUp", "twoConnections", "archive", "update", "leave"}

(***************************************************************************)
(*   stopped, idle    not running; between requests                        *)
(*   number           in postUpdate's query, about to take a tweet number  *)
(*   count            about to look whether there is a follower at all     *)
(*   lock             about to take listenerProceedMUT                     *)
(*   register, recount, forward   in _registerUpdate, and in both halves   *)
(*                    of _forwardUpdateToFollowers                         *)
(*   follow, push     in postFollow's query, before and after the check    *)
(*                    that the target exists and is not followed yet       *)
(*   leave            about to leave the query                             *)
(***************************************************************************)
SpeakerStates ==
  {"stopped", "idle", "number", "count", "lock", "register", "recount", "forward",
   "follow", "push", "leave"}

ProceedHolders ==
  {s \in Sessions : spk[s] \in {"register", "recount", "forward"} \/ lis[s] = "checkDuplicates"}

ProceedFree == ProceedHolders = {}

Init ==
  /\ CSInit
  /\ DBInit
  /\ GateInit
  /\ lis = [s \in Sessions |-> "stopped"]
  /\ pendingTweets = [s \in Sessions |-> <<>>]
  /\ receivedTweets = [s \in Sessions |-> <<>>]
  /\ archived = [s \in Sessions |-> 0]
  /\ outgoing = [s \in Sessions |-> <<>>]
  /\ spk = [s \in Sessions |-> "stopped"]
  /\ request = [s \in Sessions |-> NoUser]
  /\ tweetID = [s \in Sessions |-> 0]
  /\ followNum = [s \in Sessions |-> 0]
  /\ requests = [s \in Sessions |-> 0]
  /\ accepts = 0

-----------------------------------------------------------------------------
(* Connector and connection controller.                                    *)
(* Mutated form: the new client inherits the user of the last one.         *)
AcceptClientInherits(s) ==
  /\ conn[s] = "closed"
  /\ conn' = [conn EXCEPT ![s] = "new"]
  /\ accepts < MaxAccepts
  /\ accepts' = accepts + 1
  /\ lis' = [lis EXCEPT ![s] = "pitstop"]
  /\ spk' = [spk EXCEPT ![s] = "idle"]
  /\ outgoing' = [outgoing EXCEPT ![s] = <<>>]
  /\ UNCHANGED <<cmVars, clientIndex, connectionIndex, dbVars, gateVars, pendingTweets,
                 receivedTweets, archived, request, tweetID, followNum, requests>>

AcceptClient(s) ==
  /\ Accept(s)
  /\ accepts < MaxAccepts
  /\ accepts' = accepts + 1
  /\ lis' = [lis EXCEPT ![s] = "pitstop"]
  /\ spk' = [spk EXCEPT ![s] = "idle"]
  /\ outgoing' = [outgoing EXCEPT ![s] = <<>>]
  /\ UNCHANGED <<dbVars, gateVars, pendingTweets, receivedTweets, archived,
                 request, tweetID, followNum, requests>>

(* listener.join(); speaker.join(); ... closeConnection.                   *)
CloseClient(s) ==
  /\ lis[s] = "stopped"
  /\ spk[s] = "stopped"
  /\ Close(s)
  /\ UNCHANGED <<dbVars, gateVars, listenerVars, speakerVars, accepts>>

SessionStep(s) ==
  /\ SignIn(s) \/ Register(s) \/ (s \in Leavers /\ Disconnect(s))
  /\ UNCHANGED <<dbVars, gateVars, listenerVars, speakerVars, accepts>>

-----------------------------------------------------------------------------
(* Listener.                                                               *)
ListenerGoes(s, from, to) ==
  /\ lis[s] = from
  /\ lis' = [lis EXCEPT ![s] = to]

(* Where the check at the pitstop leads: the shutdown notice is read after *)
(* the mutex is released.                                                  *)
AfterCheck(s, answer) ==
  IF ShutdownNotice(s) THEN "stopped" ELSE IF answer THEN "retrieve" ELSE "pitstop"

(* The check at the pitstop, with listenerProceedMUT held.  The predicates  *)
(* of its waits and its condition all call doesClientHaveDuplicateTweets,  *)
(* once each; one call stands for them.  The waits end by themselves, and  *)
(* the first one's predicate decides nothing.                              *)
CheckPending(s) ==
  /\ ProceedFree
  /\ ListenerGoes(s, "pitstop", "checkDuplicates")
  /\ LookUp(s)
  /\ UNCHANGED <<dbVars, gateVars, pendingTweets, receivedTweets, archived, outgoing>>

(* Mutated form: a listener with nothing to get keeps the mutex.           *)
CheckDuplicatesHolds(s) ==
  /\ \E answer \in BOOLEAN :
       LET found == listOfPendingTweets[clientIndex[s]] # <<>> \/ answer
       IN  /\ ListenerGoes(s, "checkDuplicates",
                           IF found THEN AfterCheck(s, TRUE) ELSE "checkDuplicates")
           /\ IF found THEN AskDuplicates(s, answer)
              ELSE doesClientHaveDuplicateTweets(connectionIndex[s], answer)
                     /\ UNCHANGED sessionVars
  /\ UNCHANGED <<dbVars, gateVars, pendingTweets, receivedTweets, archived, outgoing>>

(* doesClientHavePendingTweets: the archived tweets count only if none is  *)
(* pending.                                                                *)
CheckDuplicates(s) ==
  /\ \E answer \in BOOLEAN :
       /\ ListenerGoes(s, "checkDuplicates",
                       AfterCheck(s, listOfPendingTweets[clientIndex[s]] # <<>> \/ answer))
       /\ AskDuplicates(s, answer)
  /\ UNCHANGED <<dbVars, gateVars, pendingTweets, receivedTweets, archived, outgoing>>

(* Nobody signed in: doesClientHavePendingTweets reads outside the list.   *)
CheckAnonymous(s) ==
  /\ ProceedFree
  /\ clientIndex[s] = NoUser
  /\ \/ /\ lis[s] = "pitstop"
        /\ WildRead(s)
        /\ UNCHANGED lis
     \/ /\ ShutdownNotice(s)
        /\ ListenerGoes(s, "pitstop", "stopped")
        /\ UNCHANGED csVars
  /\ UNCHANGED <<dbVars, gateVars, pendingTweets, receivedTweets, archived, outgoing>>

(* retrieveTweetsFromFollowed, from its first critical section to its last. *)
BeginRetrieve(s) ==
  /\ ListenerGoes(s, "retrieve", "copy")
  /\ EnterQuery
  /\ UNCHANGED <<csVars, dbVars, pendingTweets, receivedTweets, archived, outgoing>>

(* Another listener that holds the reader lock too may be clearing the     *)
(* list: the copy is then of memory that was never written.                *)
CopyPending(s) ==
  /\ \/ /\ ListenerGoes(s, "copy", "clear")
        /\ pendingTweets' = [pendingTweets EXCEPT ![s] = listOfPendingTweets[clientIndex[s]]]
        /\ UNCHANGED csVars
     \/ /\ lis[s] = "copy"
        /\ listOfPendingTweets[clientIndex[s]] # <<>>
        /\ \E other \in Sessions \ {s} :
             lis[other] = "clear" /\ clientIndex[other] = clientIndex[s]
        /\ Crash
        /\ UNCHANGED <<sessionVars, lis, pendingTweets>>
  /\ UNCHANGED <<dbVars, gateVars, receivedTweets, archived, outgoing>>

ClearPending(s) ==
  /\ ListenerGoes(s, "clear", IF pendingTweets[s] = <<>> THEN "awaitDuplicates" ELSE "lookUp")
  /\ clearPendingTweets(clientIndex[s])
  /\ UNCHANGED <<csVars, gateVars, pendingTweets, receivedTweets, archived, outgoing>>

(* First critical section of the calls of the connection manager.  The     *)
(* wait for archived tweets ends by itself, found or not.                  *)
FindConnection(s) ==
  /\ lis[s] \in {"awaitDuplicates", "twoConnections", "archive"}
  /\ LookUp(s)
  /\ UNCHANGED <<dbVars, gateVars, listenerVars>>

TakeDuplicates(s) ==
  /\ ListenerGoes(s, "awaitDuplicates", "leave")
  /\ \E tweets \in {<<>>} \cup {listOfDuplicatedTweets[i] : i \in DOMAIN listOfDuplicatedTweets} :
       /\ TakeArchive(s, tweets)
       /\ receivedTweets' = [receivedTweets EXCEPT ![s] = tweets]
  /\ UNCHANGED <<dbVars, gateVars, pendingTweets, archived, outgoing>>

LookUpTweets(s) ==
  /\ ListenerGoes(s, "lookUp", "twoConnections")
  /\ receivedTweets' = [receivedTweets EXCEPT ![s] = lookUpTweets(pendingTweets[s])]
  /\ UNCHANGED <<csVars, dbVars, gateVars, pendingTweets, archived, outgoing>>

CheckTwoConnections(s) ==
  /\ \E answer \in BOOLEAN :
       /\ AskTwoConnections(s, answer)
       /\ ListenerGoes(s, "twoConnections",
                       IF answer /\ receivedTweets[s] # <<>> THEN "archive" ELSE "update")
  /\ UNCHANGED <<dbVars, gateVars, pendingTweets, receivedTweets, archived, outgoing>>

ArchiveTweet(s) ==
  LET next == archived[s] + 1
      last == next = Len(receivedTweets[s])
  IN  /\ ListenerGoes(s, "archive", IF last THEN "update" ELSE "archive")
      /\ Archive(s, receivedTweets[s][next])
      /\ archived' = [archived EXCEPT ![s] = IF last THEN 0 ELSE next]
      /\ UNCHANGED <<dbVars, gateVars, pendingTweets, receivedTweets, outgoing>>

UpdateTweet(s) ==
  /\ ListenerGoes(s, "update", IF Len(pendingTweets[s]) = 1 THEN "leave" ELSE "update")
  /\ updateReceivedTweet(Head(pendingTweets[s]))
  /\ pendingTweets' = [pendingTweets EXCEPT ![s] = Tail(@)]
  /\ UNCHANGED <<csVars, gateVars, receivedTweets, archived, outgoing>>

(* Mutated form: the result is lost.                                       *)
EndRetrieveDrops(s) ==
  /\ ListenerGoes(s, "leave", "pitstop")
  /\ LeaveQuery
  /\ receivedTweets' = [receivedTweets EXCEPT ![s] = <<>>]
  /\ UNCHANGED <<csVars, dbVars, pendingTweets, archived, outgoing>>

(* The end of the query, and the listener's loop over the result.          *)
EndRetrieve(s) ==
  /\ ListenerGoes(s, "leave", "pitstop")
  /\ LeaveQuery
  /\ outgoing' = [outgoing EXCEPT ![s] = @ \o receivedTweets[s]]
  /\ receivedTweets' = [receivedTweets EXCEPT ![s] = <<>>]
  /\ UNCHANGED <<csVars, dbVars, pendingTweets, archived>>

Retrieve(s) ==
  \/ BeginRetrieve(s) \/ CopyPending(s) \/ ClearPending(s) \/ FindConnection(s)
  \/ TakeDuplicates(s) \/ LookUpTweets(s) \/ CheckTwoConnections(s) \/ ArchiveTweet(s)
  \/ UpdateTweet(s) \/ EndRetrieve(s)

ListenerStep(s) ==
  /\ CheckPending(s) \/ CheckDuplicates(s) \/ CheckAnonymous(s) \/ Retrieve(s)
  /\ UNCHANGED <<speakerVars, accepts>>

-----------------------------------------------------------------------------
(* Speaker.                                                                *)
SpeakerGoes(s, from, to) ==
  /\ spk[s] = from
  /\ spk' = [spk EXCEPT ![s] = to]

(* The connector queues requests of a client that has signed in; what is   *)
(* in the queue when the shutdown notice comes may still be executed.      *)
BeginRequest(s, r) ==
  /\ conn[s] \in {"online", "leaving"}
  /\ clientIndex[s] # NoUser
  /\ requests[s] < MaxRequests[s]
  /\ requests' = [requests EXCEPT ![s] = @ + 1]
  /\ request' = [request EXCEPT ![s] = r]
  /\ SpeakerGoes(s, "idle", IF r = UPDATE THEN "number" ELSE "follow")
  /\ EnterQuery
  /\ UNCHANGED <<csVars, dbVars, listenerVars, tweetID, followNum, accepts>>

(* postUpdate.                                                             *)
TakeNumber(s) ==
  /\ SpeakerGoes(s, "number", "count")
  /\ \E id \in {numTweets} :
       /\ takeTweetID(id)
       /\ tweetID' = [tweetID EXCEPT ![s] = id]
  /\ UNCHANGED <<csVars, gateVars, request, followNum>>

CountFollowers(s) ==
  /\ SpeakerGoes(s, "count", IF getNumFollowers(clientIndex[s]) # 0 THEN "lock" ELSE "leave")
  /\ UNCHANGED <<csVars, dbVars, gateVars, request, tweetID, followNum>>

(* Mutated form: listenerProceedMUT is not taken.                          *)
LockAndCountUnlocked(s) ==
  /\ SpeakerGoes(s, "lock", "register")
  /\ followNum' = [followNum EXCEPT ![s] = getNumFollowers(clientIndex[s])]
  /\ UNCHANGED <<csVars, dbVars, gateVars, request, tweetID>>

(* Takes listenerProceedMUT; _registerUpdate counts the followers.         *)
LockAndCount(s) ==
  /\ ProceedFree
  /\ SpeakerGoes(s, "lock", "register")
  /\ followNum' = [followNum EXCEPT ![s] = getNumFollowers(clientIndex[s])]
  /\ UNCHANGED <<csVars, dbVars, gateVars, request, tweetID>>

RegisterUpdate(s) ==
  /\ SpeakerGoes(s, "register", "recount")
  /\ registerUpdate(clientIndex[s], tweetID[s], followNum[s])
  /\ UNCHANGED <<csVars, gateVars, request, tweetID, followNum>>

(* _forwardUpdateToFollowers counts them again.                            *)
Recount(s) ==
  /\ SpeakerGoes(s, "recount", "forward")
  /\ followNum' = [followNum EXCEPT ![s] = getNumFollowers(clientIndex[s])]
  /\ UNCHANGED <<csVars, dbVars, gateVars, request, tweetID>>

(* Mutated form: the writer does not wait.                                 *)
ForwardUpdateUnlocked(s) ==
  /\ SpeakerGoes(s, "forward", "leave")
  /\ forwardUpdate(clientIndex[s], tweetID[s], followNum[s])
  /\ UNCHANGED <<csVars, gateVars, request, tweetID, followNum>>

(* The writer of the pending list waits for its readers.  The followers    *)
(* are read without LOF_rw_sem: one that is being added may move them in   *)
(* memory under the loop.                                                  *)
ForwardUpdate(s) ==
  /\ \A other \in Sessions : lis[other] # "clear"
  /\ \/ /\ SpeakerGoes(s, "forward", "leave")
        /\ forwardUpdate(clientIndex[s], tweetID[s], followNum[s])
        /\ UNCHANGED csVars
     \/ /\ spk[s] = "forward"
        /\ \E other \in Sessions : spk[other] = "push" /\ request[other] = clientIndex[s]
        /\ Crash
        /\ UNCHANGED <<sessionVars, dbVars, spk>>
  /\ UNCHANGED <<gateVars, request, tweetID, followNum>>

(* postFollow.  A refused follow returns without leaving the query.        *)
CheckFollow(s) ==
  LET refused == request[s] = NoUser \/ alreadyFollowed(request[s], clientIndex[s])
  IN  /\ SpeakerGoes(s, "follow", IF refused THEN "idle" ELSE "push")
      /\ request' = [request EXCEPT ![s] = IF refused THEN NoUser ELSE @]
      /\ UNCHANGED <<csVars, dbVars, gateVars, tweetID, followNum>>

PushFollow(s) ==
  /\ SpeakerGoes(s, "push", "leave")
  /\ pushFollower(request[s], clientIndex[s])
  /\ UNCHANGED <<csVars, gateVars, request, tweetID, followNum>>

EndRequest(s) ==
  /\ SpeakerGoes(s, "leave", "idle")
  /\ LeaveQuery
  /\ tweetID' = [tweetID EXCEPT ![s] = 0]
  /\ followNum' = [followNum EXCEPT ![s] = 0]
  /\ request' = [request EXCEPT ![s] = NoUser]
  /\ UNCHANGED <<csVars, dbVars>>

StopSpeaker(s) ==
  /\ ShutdownNotice(s)
  /\ SpeakerGoes(s, "idle", "stopped")
  /\ UNCHANGED <<csVars, dbVars, gateVars, request, tweetID, followNum>>

SpeakerStep(s) ==
  /\ \/ TakeNumber(s) \/ CountFollowers(s) \/ LockAndCount(s) \/ RegisterUpdate(s) \/ Recount(s)
     \/ ForwardUpdate(s) \/ CheckFollow(s) \/ PushFollow(s) \/ EndRequest(s) \/ StopSpeaker(s)
  /\ UNCHANGED <<listenerVars, requests, accepts>>

-----------------------------------------------------------------------------
(* The main thread saves the database every twenty seconds.                *)
SaverStep ==
  /\ (AutoSave /\ BeginSave) \/ Save \/ EndSave
  /\ UNCHANGED <<csVars, dbVars, listenerVars, speakerVars, accepts>>

SessionNext(s) ==
  \/ AcceptClient(s) \/ CloseClient(s) \/ SessionStep(s)
  \/ ListenerStep(s)
  \/ SpeakerStep(s)
  \/ \E r \in Requests[s] : BeginRequest(s, r)

(* The controller polls in vain: MaxAccepts clients have come and gone.    *)
NoMoreClients ==
  /\ accepts = MaxAccepts
  /\ \A s \in Sessions : conn[s] = "closed"

Next ==
  \/ /\ ~crashed
     /\ SaverStep \/ \E s \in Sessions : SessionNext(s)
  \/ /\ crashed \/ NoMoreClients
     /\ UNCHANGED vars

Spec == Init /\ [][Next]_vars

(***************************************************************************)
(* Threads run as long as the process does.  Every wait that another       *)
(* thread could spoil again and again is strongly fair: wait_for wakes up  *)
(* by itself every few seconds to try listenerProceedMUT, the saver stays  *)
(* out of query_try for twenty seconds at a time, and a reader holds the   *)
(* pending list for one copy.  Clients owe nothing: they need not connect, *)
(* sign in, ask or leave.                                                  *)
(***************************************************************************)
Running(A) == ~crashed /\ A

Fairness ==
  /\ \A s \in Sessions :
       /\ WF_vars(Running((Register(s) /\ SessionStep(s)) \/ CloseClient(s)))
       /\ SF_vars(Running(clientIndex[s] # NoUser /\ ListenerStep(s)))
       /\ SF_vars(Running(SpeakerStep(s)))
  /\ WF_vars(Running(saver # "idle" /\ SaverStep))

FairSpec == Spec /\ Fairness

-----------------------------------------------------------------------------
(***************************************************************************)
(* Properties.                                                             *)
(***************************************************************************)
PendingTweets == [userAuthor : Users, tweetID : Nat]

(* Where a listener holds tweets that it will count itself off.            *)
Counting == {"lookUp", "twoConnections", "archive", "update"}

(* Every variable has its type; in particular a listener counts tweets off *)
(* only while it holds some, and archives only what it has retrieved.      *)
TypeOK ==
  /\ listOfFollowers \in [Users -> Seq(Users)]
  /\ listOfPendingTweets \in [Users -> Seq(PendingTweets)]
  /\ listOfReceivedTweets \in [Users -> Seq([tweetID : Nat, numRecipientsRemaining : Nat \ {0}])]
  /\ numTweets \in Nat
  /\ query_cnt \in Nat
  /\ saver \in {"idle", "waiting", "saving"}
  /\ lis \in [Sessions -> ListenerStates]
  /\ pendingTweets \in [Sessions -> Seq(PendingTweets)]
  /\ receivedTweets \in [Sessions -> Seq(PendingTweets)]
  /\ archived \in [Sessions -> Nat]
  /\ outgoing \in [Sessions -> Seq(PendingTweets)]
  /\ spk \in [Sessions -> SpeakerStates]
  /\ request \in [Sessions -> Users \cup {NoUser, UPDATE}]
  /\ tweetID \in [Sessions -> Nat]
  /\ followNum \in [Sessions -> Nat]
  /\ requests \in [Sessions -> Nat]
  /\ accepts \in Nat
  /\ \A s \in Sessions : lis[s] \in Counting => pendingTweets[s] # <<>>
  /\ \A s \in Sessions : lis[s] = "archive" => archived[s] < Len(receivedTweets[s])

Positions(p, q) == {k \in DOMAIN q : q[k] = p}
Occurrences(p, q) == Cardinality(Positions(p, q))

(* Entries for tweet p in pending lists, ...                               *)
PendingEntries(p) == [v \in Users |-> Positions(p, listOfPendingTweets[v])]
PendingFor(p) == Total(PendingEntries(p))

(* ... in the hands of listeners that will count themselves off, ...       *)
TakenEntries(p) ==
  [s \in Sessions |-> IF lis[s] \in Counting THEN Positions(p, pendingTweets[s]) ELSE {}]
TakenFor(p) == Total(TakenEntries(p))

(* ... and about to be made by a speaker.                                  *)
Forwards(s, p) ==
  spk[s] \in {"recount", "forward"} /\ PendingTweet(clientIndex[s], tweetID[s]) = p
EntriesToMake(p) == [s \in Sessions |-> IF Forwards(s, p) THEN 1..followNum[s] ELSE {}]
AboutToForward(p) == Total(EntriesToMake(p))

(* A received tweet never waits for more recipients than there are still   *)
(* going to count themselves off: it is erased in the end, whatever the    *)
(* order of posts, follows, retrievals and disconnections.                 *)
NoOrphanTweet ==
  \A u \in Users : \A i \in DOMAIN listOfReceivedTweets[u] :
    LET t == listOfReceivedTweets[u][i]
        p == PendingTweet(u, t.tweetID)
    IN  t.numRecipientsRemaining <= PendingFor(p) + TakenFor(p) + AboutToForward(p)

(* What a save writes is closed: no received tweet waits for a recipient   *)
(* who has it only in a thread that the save would not see.                *)
SnapshotHasNoOrphan ==
  saver = "saving" =>
    \A u \in Users : \A i \in DOMAIN listOfReceivedTweets[u] :
      LET t == listOfReceivedTweets[u][i]
      IN  t.numRecipientsRemaining <= PendingFor(PendingTweet(u, t.tweetID))

(* The tweets of an author are pending for everyone in the order in which  *)
(* they were registered, although several speakers may post for the author *)
(* at a time.                                                              *)
TimelineOrder ==
  \A v \in Users : \A i, j \in DOMAIN listOfPendingTweets[v] :
    LET p == listOfPendingTweets[v][i]
        q == listOfPendingTweets[v][j]
    IN  i < j /\ p.userAuthor = q.userAuthor /\ IsReceived(p) /\ IsReceived(q)
          => receivedIndex(p) <= receivedIndex(q)

(* "As long as the Client is connected, it's guaranteed it'll eventually   *)
(* be received" (src/src/main_server.cpp:1300): the tweets a user still    *)
(* has to get are still there to be looked up.                             *)
NoTweetLost ==
  \A v \in Users : \A i \in DOMAIN listOfPendingTweets[v] : IsReceived(listOfPendingTweets[v][i])

(* Recipients are counted exactly.                                         *)
ExactAccounting ==
  \A v \in Users : \A k \in DOMAIN listOfPendingTweets[v] :
    LET p == listOfPendingTweets[v][k]
    IN  /\ IsReceived(p)
        /\ listOfReceivedTweets[p.userAuthor][receivedIndex(p)].numRecipientsRemaining
             = PendingFor(p) + TakenFor(p)

(* Every tweet pending for a user reaches the outgoing queue of her        *)
(* connection, unless the connection ends first.                           *)
EveryTweetIsForwarded ==
  \A s \in Sessions, p \in Tweets :
    (conn[s] = "online" /\ Occurrences(p, listOfPendingTweets[clientIndex[s]]) > 0)
      ~> (Occurrences(p, outgoing[s]) > 0 \/ conn[s] # "online" \/ crashed)

(* "Database save routine started." is followed by "Database save routine  *)
(* finished." (src/src/main_server.cpp:1667-1669): a save that begins      *)
(* ends.                                                                   *)
SaveFinishes == saver = "waiting" ~> (saver = "idle" \/ crashed)

(* The archive is "for the duplicate connection" of the same user          *)
(* (src/src/main_server.cpp:184-185): a connection is sent only tweets of  *)
(* authors its user follows.                                               *)
OnlyFollowed ==
  \A s \in Sessions : \A i \in DOMAIN outgoing[s] :
    clientIndex[s] # NoUser => alreadyFollowed(outgoing[s][i].userAuthor, clientIndex[s])

=============================================================================
