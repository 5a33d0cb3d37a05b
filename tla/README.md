# The tweet server, in TLA+

This directory specifies the server of this repository, `src/src/main_server.cpp`, and the client
application that talks to it (`src/src/main_client.cpp`, `Client.cpp`, `SocketClient.cpp`). The server
keeps users' connections, takes their `UPDATE` (post) and `FOLLOW` requests, delivers every tweet to
the author's followers, and saves its database every twenty seconds. It is a program of threads: each
connection has three of them, which share the database, the list of connections and several hand-made
locks. The client has two threads and a list of servers. Nearly all that can go wrong depends on how
these threads, the messages between them, and the ends of processes interleave.

TLC checks the modules on small instances (`MC*.cfg`), and TLAPS proves most of the safety properties
for any number of users, connections and threads (`*Proofs.tla`; up to nine users in `PersistenceProofs`). `PROJECT.json` ties each
definition to the lines it models, each property to a mutated form of the code that breaks it,
and each hazard of the code to the properties that would notice it.

All line numbers below are in `src/src/main_server.cpp` unless another file is named.

## 1. The system

| component (lines) | state it keeps | operations | module |
|---|---|---|---|
| `connectionManager` (178–326), one instance `cm_temp` | `listOfConnectedUsers` (user, number of connections), `listOfDuplicatedTweets` (an archive of tweets per entry), both under one semaphore `accessDB` | `registerConnection`, `closeConnection`, `doesClientHaveTwoConnections`, `registerDuplicateTweet`, `retrieveDuplicateTweet`, `doesClientHaveDuplicateTweets` | `ConnectionManager` |
| connection controller (1584–1651) | threads of all connectors | polls and accepts; at a shutdown closes its socket and joins them | `Accept` in `ClientSessions`, `AcceptClient` in `TweetServer`, `Accept`, `StopAccepting` and `EndOfMain` in `ServerConnection` |
| connector thread, one per connection (1041–1264) | `clientIndex`, `clientShutdownNotice`, the queues and flags it shares with its two other threads | receives packets, signs in, queues requests, transmits the outgoing queue, notices the departure or the shutdown, joins the other two, unregisters | `ClientSessions` (with the connection manager), `ServerConnection` (with the client) |
| listener thread, one per connection (1331–1412) | the packets it is about to queue | waits at the *pitstop* until the user has tweets to get, retrieves them, puts them in the outgoing queue | `TweetServer`, actions `CheckPending` to `EndRetrieve`; `ServerConnection`, `ListenerStep` |
| speaker thread, one per connection (1464–1580) | the packet it executes | executes UPDATE and FOLLOW, puts the acknowledgement in the outgoing queue, clears the incoming one | `TweetServer`, actions `BeginRequest` to `StopSpeaker`; `ServerConnection`, `SpeakerStep` |
| `databaseManager` (328–1036), one instance `db_temp` | users, followers, tweets received, tweets pending (LOU, LOF, LORT, LOPT), `numTweets` | `postUpdate`, `postFollow`, `retrieveTweetsFromFollowed`, `doesClientHavePendingTweets`, `getUserIndex`, `saveDatabase`, `loadDatabase` | `Accounts`, `TweetDatabase`, `TweetServer` |
| its query/save gate (`query_try`, `query_cnt_sem`, `query_cnt`, `DB_access_sem`) | who may work on the database | entered and left by the three queries and by `saveDatabase` | `QueryGate` (what it promises), `QuerySemaphores` (how) |
| its reader-writer locks, one per list (338–398), `tweetnum_sem`, `listenerProceedMUT` | reader and writer counts, their mutexes, semaphores | taken around the accesses to a list | `DatabaseLocks`; `TweetServer` has the exclusion they give in its guards |
| `customBinarySemaphore` (112–141) | `n`, `canProceed`, a mutex and a condition variable | `P`, `V` | `BinarySemaphore` (what), `CustomBinarySemaphore` (how) |
| main thread (1653–1719) | `shutdownNotice` | loads, starts the controller, saves every 20 s, ends on a line of input | `SaverStep` in `TweetServer`, `Persistence`, `Stop` in `ServerConnection` |
| persistence (60–112, 157–167, 418–636) and the four text files | the files | `save*`, `load*`, stream operators | `Persistence` |
| client application (`Client.cpp`, `main_client.cpp`) | `lookForServer`, `connected`, `firstTime`, `serverIndex`, the descriptor it polls | front end: looks for a server and signs in; main thread: commands, tweets, KEEP_ALIVE, reconnection | `ClientApplication` |
| socket and message wrappers (`SocketClient.cpp`, `Message.hpp`) | `m_socket_num`, the current descriptor | connect, send, receive, close | `ClientApplication`, on the connections of `Network` |
| `Server.cpp`, the echo server of an earlier exercise | none | | not modelled |

**How they interact.** The three threads of a connection share `clientIndex`, the two packet
queues and `clientShutdownNotice`. Threads of different connections meet in the database, in the
connection manager, and at the mutex `listenerProceedMUT` with its condition variable: whoever
posts holds the mutex while it registers and forwards the tweet (866–875), and a listener holds it
while it checks whether it has something to get (1339–1344). When a user has two connections, the
listener that takes her pending tweets *archives* them in the connection manager, for the other
connection to retrieve (991–999, 955–961).

**What is hard here.**

* A tweet is registered with the number of recipients it waits for; each retrieval counts one off
  and the last erases it. The number, the pending lists and the listeners' private copies are three
  pieces of state, changed in different critical sections, that have to agree.
* The connection manager's calls look an index up in one critical section and use it in another.
* Whether the user has a second connection is asked long before that answer is used.
* `closeConnection` is called for every connection that ends, also for one that was refused, or
  that never signed in.
* `postFollow` has two early returns in the middle of the gate protocol.
* A semaphore notifies outside its mutex, and has a flag and a counter that say nearly the same.
* The gate, the readers and writers of the lists and `listenerProceedMUT` nest in several orders; three lists
  prefer readers, one prefers writers.
* The packet queues have flags for "empty" that are not always kept with them, and three threads that sleep on them.
* A server that is told to stop has to wake all its threads; one that is killed leaves files half written.
* What is saved is not what is loaded: the loaders test the end of the file too late, and lose characters.
* A client that loses its server finds out by a write that fails, asks its other thread to look for a server without
  holding the mutex, and sends a request no server knows.

**What makes each part correct.**

* Connection manager: one entry per user; the count is never above the connections that are up;
  nobody is refused while a place is free.
* Database: tweets in the pending lists can be looked up until everyone has them; they are erased in
  the end; followers get an author's tweets in the order of registration, and none is skipped.
* Listeners: a pending tweet reaches the queue of a connected user; nobody is sent tweets of an author she
  does not follow.
* Connections: requests and tweets go through the queues in order, none lost, none twice; both queues are emptied;
  a server that is stopped ends.
* Client: it notices that its server has gone, its search ends, and it does not believe to be connected when it is not.
* Persistence: users keep their numbers, followers and pending tweets survive a restart, and a start ends.
* Locks: a writer is alone, the locks do not deadlock, and who may starve is known.
* Gate: a save runs alone, sees no half-done query, and is neither starved nor starves queries.
* Semaphore: one holder at a time, no lost wake-up.

## 2. The modules

```
 BinarySemaphore <--implements-- CustomBinarySemaphore
                                                 QuerySemaphores --implements--> QueryGate
                                                        ^                            |
                                    DatabaseLocks ------+ (EXTENDS, implements)      |
 Accounts --> ConnectionManager --> ClientSessions ---------------------+            |
         \--> TweetDatabase --------------------------------------------+--> TweetServer
                                                                 Totals --/

 Network --> ServerConnection ----+
        \--> ClientApplication ----+--> Conversation                      Persistence
                         Streams --/
```

* **Accounts** declares the constants `Users` and `NoUser` (index −1, the answer of `getUserIndex`
  for an unknown name).
* **ConnectionManager** has one operator per critical section of `accessDB`. The calls with two
  sections are two operators, joined by the index the first returns: `getConnectionIndex`, then for
  instance `registerDuplicateTweet(index, tweet)`. `closeConnection` reads through an iterator
  before it compares it with `end()` (235–237): on an empty vector that is undefined, and the model's
  outcome is `Crash`, which stops everything.
* **ClientSessions** is the life of a connection: accepted, signed in, registered or refused, left,
  closed, with the listener's calls of the connection manager in between and in any order. A session
  is a slot: once closed it may hold a new connection.
* **TweetDatabase** has one operator per critical section of the lists. A user is her own index and
  a tweet is its author and number: the text is not modelled, since nothing reads it. `lookUpTweets`, which resolves a
  copied pending list entry by entry, is a recursive function on the number of entries.
* **QueryGate** is the gate in the abstract: queries share, a save is alone, a save that waits keeps
  new queries out.
* **TweetServer** composes the three with the listener, the speaker and the main thread. One action
  per critical section; the places of a listener and of a speaker are listed at the top of the
  module. It EXTENDS `ClientSessions` and refines it (property `CSSpec` of the run `pair`): what its listeners archive is
  any tweet to `ClientSessions`, and a `Crash` in the database is `CrashElsewhere` there. `Totals` is how its
  properties count entries that lie in several lists and threads.
* **QuerySemaphores** is the gate as it is written, one operation on a semaphore a step. It
  implements `QueryGate`, so that `TweetServer` may use the latter.
* **CustomBinarySemaphore** is `P` and `V`, section by section of the mutex, with spurious wake-ups.
  It implements `BinarySemaphore`: a set of holders with at most one member. `PassOn` is there for the
  code that enters with one thread and leaves with another. `QuerySemaphores` uses each semaphore
  as such an atomic one.
* **DatabaseLocks** is what a query does between entering and leaving the gate: each kind of query is a sequence of
  accesses to lists (`postFollow`, `postUpdate`, `retrieveTweets`), and each access takes the list's locks, operation by
  operation. `LOU`, `LOF` and `LORT` prefer readers: the first takes the semaphore for all, the last gives it back. `LOPT`
  prefers writers: its first writer takes `LOPT_readTry`. It EXTENDS `QuerySemaphores` and implements it. A section that
  nothing can make wait is one step with the operation before it.
* **Persistence** is the database across restarts: requests in one step each, saves in eight (each file is truncated, then
  written), an end of the process anywhere, and what `loadDatabase` makes of the files. The loaders are operators from
  what was written to the set of what may be read; the set has several members where the code uses a variable that
  was never given a value, and none where it reads for ever.
* **Network** is the TCP connections as both sides use them. A write to a connection that the other side has closed is lost, the
  next one raises SIGPIPE.
* **ServerConnection** is the connector, speaker and listener of each connection with their two queues. What a request does
  to the database is in `TweetServer`; here it is one step.
* **ClientApplication** is the client, both threads, with the descriptors of its process: which of them `poll` watches and
  which `m_socket_num` names need not be the same, nor need either be a connection.
* **Conversation** composes the last three. `Scenarios` are the bounds on the environment: which servers are up, may be
  stopped or killed, how many tweets others post, how many requests the user makes. `Streams` is how its properties
  take the requests, or the tweets, out of a queue: `SelectSeq`, but without recursion, so that there is something to prove about it.
* **MC\*** give the constants values; **\*Proofs** hold the theorems, **DataLemmas** what several of them need to know of
  sequences, numbers and totals.

Where the code leaves the outcome open, so do the modules. A listener that copies a pending list
while another one clears it (both hold the *reader* lock, 886–907) may read freed memory; so may
the loop of `_forwardUpdateToFollowers`, which reads the followers without `LOF_rw_sem` (814), and a
listener that runs before sign-in reads `listOfPendingTweets[-1]`. Each of these is a choice between
the ordinary result and `Crash`.

**Atomicity.** A step of `TweetServer` is what one thread does between two operations that others can
observe: one critical section of a list, of the connection manager or of the gate. That is sound
because everything inside is protected by the lock of that section; where the lock does not protect
(the cases above), the outcomes of the race are in the step. The mutex `listenerProceedMUT` is held
at the places of `ProceedHolders`, and guards of the other threads say so. That the list locks give this exclusion is
what `DatabaseLocks` shows (`WritersExclude`). In `ServerConnection` the mutex of the incoming queue is held while the speaker is
at `work`, and the one of the outgoing queue only within a step.

**Mutated forms.** Next to some definitions stands a second one, commented *mutated form*: the same
operation with a plausible mistake (a guard dropped, a lock not taken, an update forgotten). Nothing
uses them; they are there to be put in the place of the definition, to see that a property notices.

## 3. What is checked

Runs that pass:

| run | instance | properties | states |
|---|---|---|---|
| `sessions` | 4 connections: 3 of one user, one that never names a user | `CSTypeOK`, `OneEntryPerUser`, `CountNeverExceedsLive`, `NeverLockedOut` | 286 000 |
| `twin` | two connections of a user who follows herself, posts twice and may leave | `TypeOK`, `NoOrphanTweet`, `TimelineOrder` | 2 530 000 |
| `pair` | one connection per user; the author follows herself; the other leaves and returns; saves at any time | `ExactAccounting`, `SnapshotHasNoOrphan`, `CSSpec`, `EveryTweetIsForwarded`, `SaveFinishes` | 90 000 |
| `conversation` | a client and two servers, seven scenarios: traffic both ways, two requests in a row, shutdown, loss, failover, second choice, time-out | `RequestStreamIntact`, `TweetStreamIntact`, `AnswerFirst`, `ConnectedMeansSignedIn`, `RequestIsExecuted`, `OutgoingIsSent`, `TweetIsShown`, `ServerStops`, `LossIsNoticed`, `SearchEnds` | 138 000 |
| `locks` | a follow that may be refused, two posts, two retrievals at once, a listener's look, a save | `LocksTypeOK`, `WritersExclude`, `SomeoneGoesOn`, `SaveRunsAlone`, `KeepsGate`, `WritersFirst`, `PendingWriterGetsIn`, `QueryGetsOut`, `SaveIsNotStarved` | 116 000 |
| `semaphore` | 4 threads | `MutualExclusion`, `NoLostWakeUp`, `SomeoneProceeds`, `IsBinarySemaphore` | 480 |
| `persistence` | two users, three starts, two tweets between starts | `PersistenceTypeOK`, `UsersKeepIndex`, `LoadEnds`, `FollowersSurvive`, `LoneTweetSurvives` | 3 670 000 |

What the properties say is in the comment above each. The least obvious:

* `NoOrphanTweet`: a tweet never waits for more recipients than there are entries in pending lists,
  in listeners' hands and about to be made. It holds even where the code counts wrong in the other
  direction, so every tweet is erased in the end and the database does not grow for ever.
* `ExactAccounting` is what one would like to have always: what is pending is there to be looked up (`NoTweetLost`), and waits
  for exactly those who still have to get it. It holds with one connection per user and no new follower, which is the run
  `pair`, and fails outside (below).
* `TimelineOrder`: two speakers may post for one author; number and registration are taken in
  different sections, and only `listenerProceedMUT` keeps registration and forwarding together.
* `RequestStreamIntact`, `TweetStreamIntact`: what was sent is what was executed (or shown), followed by what is on the way, in
  order. The speaker executes and clears the incoming queue while the connector appends; the connector transmits and clears the
  outgoing queue while the listener and the speaker append.
* `OutgoingIsSent`: acknowledgements do not reset `outgoingQueueEmpty` (1498), so the connector may sleep on a queue that is not
  empty; it is the client's KEEP_ALIVE, every seven seconds, that makes it leave its loop.
* `TweetIsShown` excuses a client whose `poll` watches another descriptor than the current socket. That is not rare: the main
  thread reads the descriptor (`Client.cpp:57`) while the front end is still connecting, and usually gets 0, its standard
  input. Such a client shows no tweet as long as it lives.
* `ServerStops`: all three threads of every connection find out, whatever they sleep on, and `main` ends.
* `SearchEnds`: the main thread asks for a search without holding the mutex; when the front end misses it, its `wait_for` ends after
  1000 seconds and looks all the same.
* `SomeoneGoesOn`: as long as a thread has work in the lists, some thread can take its next step there.
* `WritersFirst`, `PendingWriterGetsIn`: the point of LOPT's second semaphore. A post holds `listenerProceedMUT` while it writes
  the pending tweets, which keeps listeners out, so the readers that may hold it up are retrievals. Two retrievals beside one
  post are the fewest that can overlap for ever. If the first writer did not take `LOPT_readTry`, one of the two would come
  in before the other leaves, again and again, and the post would never get in although every thread is scheduled fairly:
  this is what TLC finds for the mutated form.
* `QueryGetsOut`: a query that has begun ends, unless a refused follow has leaked its count, or the readers of a list that prefers
  readers never leave it together. The second excuse is needed: two users who post in turn keep `LOF_cnt` above zero
  and a FOLLOW waits for ever (without it TLC shows such a run).
* `FollowersSurvive`, `UsersKeepIndex`: they hold in spite of `loadListOfUsers`, which at every other start invents one more user at
  the end of the list, and at the others misreads the invented one. The `src/listOfUsers.txt` of the repository has two such users.
* `LoadEnds` holds for two users and more. With one user, the invented user has ID 0 and is written as `00.`; the start after next
  fails in the middle of it, and the loop that waits for `eof` never ends.
* `LoneTweetSurvives`: one pending tweet in the whole database is read back as it was written; two are not (below).
* `SnapshotHasNoOrphan`: what a save writes is closed under who waits for whom.

Runs that show the code doing something else than its comments say (`"expect": "violation"`):

| run | property | what happens |
|---|---|---|
| `wrong_user` | `OnlyFollowed` | The index that `registerDuplicateTweet` uses (294) was looked up before another user's entry was erased: the tweet is archived for, and sent to, somebody else. |
| `tweet_lost` | `NoTweetLost` | Both listeners of a user copy the same pending entries before either clears them (886–907). Each counts itself off; the tweet is erased while another follower still has it pending. |
| `save_starves` | `SaveFinishes` | A follow of somebody already followed returns at 769 without leaving the query. The next save waits for ever holding `query_try`, and with it every later query. |
| `restart` | `RestartKeepsTweets` | A tweet is written with a line break after it (434); the loader skips one character more than the break, the first digit of the next number (460). Every tweet and list after the first tweet is misread. |
| `reconnect` | `ConnectionIsReestablished` | A client whose server is gone finds another and sends RECONNECT (`Client.cpp:38`). The server does not know it, answers NACK (1207–1217), and the client takes that for a refusal and ends (`Client.cpp:225–229`). No client ever changes its server. |

`NoTweetLost` also fails, with one connection per user, when a FOLLOW falls between the two counts of
followers in `postUpdate` (866 and 804): the tweet gets one pending entry more than it counts. The
comment at 799 asks that very question. And a connection that leaves without having signed in, while
nobody is connected, runs `closeConnection` on an empty vector (237); in the model this is `Crash`.

Four more things are so by the shape of the code, and need no run: a refused third connection, when it closes, takes a
registered one off the count (1245), so that a third is accepted after it; the connection that archives a tweet for the other one
may retrieve it itself (961); a request that is executed after the last save of an orderly end is acknowledged and not saved
(1667); a write to a connection whose client has gone raises SIGPIPE and ends the server (1103), which is `WriteKills` in the model.

### Bounds

* `MaxRequests` bounds the requests of each client, `MaxAccepts` the connections accepted in all;
  two posts by one author, one post and two follows, or one post and a reconnection are the smallest
  histories in which the races above exist, and the violated runs show that they do exist within these bounds.
  When `MaxAccepts` connections have come and gone the controller polls in vain: `NoMoreClients` is
  a stuttering step, so that the end of the bounded history is not taken for a deadlock.
* `MaxArchived` bounds an archive in the run `sessions` (1), where any listener may archive anything; it is a constant of
  `MCClientSessions`, whose `BoundedSpec` is `CSSpec` cut off there. `TweetServer`'s archives need no bound, as tweets are
  bounded by requests.
* `Leavers` are the sessions whose client may leave. `AutoSave = FALSE` looks at what happens between
  two saves: it leaves the saver out of the runs about tweets. `pair` has both saves and departures.
* Two or three sessions: each race of this code is between two threads over the state of a third
  (two listeners and a poster, two speakers and a listener, a listener and a connector that erases an entry).
* `View` maps all states after `Crash` to one: nothing happens in them, and the invariants of `twin` do not mention
  anything that `Crash` changes but `crashed`, so the one state found stands for the rest. No run uses symmetry.
* `locks`: three queries and one listener. Three is the smallest number with a first reader, another reader of
  the same list and a writer, and with two of them retrieving, readers of `LOPT` may overlap for ever beside a writer; the
  listener is a reader of `LOPT` from outside any query. `MaxCount = 3` bounds
  `query_cnt`, that is, the queries at once and the leaked counts.
* `conversation`: each scenario allows one kind of event, once, from any state on; the user makes at most two requests,
  others post at most one tweet. `MaxConnections = 2` is one reconnection. `MaxUnread = 1` is one KEEP_ALIVE that the server has
  not read, `MaxUnreadBack = 4` is what the client has not: a client sends no more before then. The two bounds only hold back
  a client that is far ahead.
* `persistence`: three starts are what it takes for the loaders' mistakes to be saved and read again. New follows come only
  before the first restart. `Whole`: after a save that was cut short no more requests are made, as what is read back from half a
  file is anything the operators allow. The last start does not save.

`CHECK_DEADLOCK FALSE` appears where the system can really stop: after a refused follow (`locks`, `save_starves`), when the
client and the servers have ended (`conversation`, `reconnect`), when the process is down for good or reads for ever (`persistence`,
`restart`). Elsewhere a stop is an error; `SomeoneGoesOn` says the same for the lists inside `locks`.

### Fairness

The process runs its threads, and the clients owe nothing: they need not connect, sign in, ask or leave.

* Connectors (`Register`, `CloseClient`): weak fairness. Nothing can take their step away again.
* Listeners and speakers: strong fairness. Others may take `listenerProceedMUT`, a list or the gate again
  and again while they wait. The mutexes are held for short sections; the listeners' waits are `wait_for` with
  time-outs (1339–1341, 955), so they try again by themselves however the notifications fall. Strong fairness
  for a lock is an assumption about the scheduler that C++ does not give; the code relies on it as well.
* The saver, once it has begun: weak fairness. Beginning a save is not forced, since twenty seconds
  lie between two of them; this also keeps it from taking `query_try` again before a waiting query does.
* `CustomBinarySemaphore`: a thread that was notified or is inside `V` continues (weak); `P` need not be called.
* `DatabaseLocks`: a query that has begun continues, and so does a listener's access, strongly fair, as the mutexes and
  semaphores go from hand to hand; a save that has begun continues (weak). New queries, accesses and saves need not
  come, and if they come for ever the save still runs (`SaveIsNotStarved`).
* `Conversation`: weak fairness for each thread of the servers and for the client's main thread. Strong fairness for the front
  end when it is needed, since the mutex it waits for goes back and forth; for `poll`, as each round of the main thread's
  loop polls; and for KEEP_ALIVE, as one is sent every seven seconds whatever else happens. Nothing that comes from outside
  is forced (a request, a tweet, a stop, a kill), nor is the passing of 1000 seconds.

`Persistence` has safety properties only.

## 4. What is proved

For any users, any logins, any finite set of sessions (`ClientSessionsProofs`):

* `SessionsTypeCorrect`: `CSSpec => []CSTypeOK`; with it the two vectors stay parallel.
* `SessionsOneEntryPerUser`, `SessionsCountNeverExceedsLive`: `CSSpec => []…`
* `SessionsNeverLockedOut`: the action property `CSSpec => NeverLockedOut`.

The inductive invariant is `IInv == ListsOK /\ SessionsOK /\ Counted`: the types, with the archive vector as long
as the list (`registerConnection` appends to both, `closeConnection` erases from both; without it neither
is typed after an erasure), one entry per user, and the count of each entry at most the number of its
live connections. `OneEntryPerUser` must be in it, since erasing one of two entries would leave the
count of the other unjustified. `SessionsOK` types the connectors' and listeners' variables, stale indexes
included: any number may stand in `connectionIndex`, and no call it is used in may break the rest. `RemoveAtProperties`,
`EntryAdded` and `EntryErased` say what `push_back` and `erase` do to the vectors; `RegisterCounts` and
`CloseCounts` relate the count to the cardinality of `Live`. `NeverLockedOut` is the same fact read at the step that
refuses: the count is at its limit there, so as many connections are up. Assumptions: those of `ClientSessions`
and `Accounts` (`Users` does not contain `NoUser`, `Sessions` is finite, `Login` maps it to users).

For any set of threads (`CustomBinarySemaphoreProofs`): `SemaphoreMutualExclusion`, `SemaphoreNoLostWakeUp`
(when the semaphore is free and someone sleeps on it, somebody is on the way to wake one up or to take it) and
`SemaphoreRefinement`: it implements `BinarySemaphore`. What the invariant adds to the properties is `FlagAgrees`: the
flag `canProceed` says the same as the counter `n`, except before the first `P`, when nobody waits yet. Without it
a thread that wakes up and trusts the flag could take the counter below zero.

For any finite set of queries, any of which may be refused (`DatabaseLocksProofs`): `QuerySaveRunsAlone` and
`QueryRefinement` (`Spec => KeepsGate`). The invariant says who holds each of the three semaphores, and that
`query_cnt` is at least the number of queries that are counted: at least, not exactly, because of the
refused follows. That inequality is why a leak never lets a save in early.

For any finite set of queries, any finite set of other threads and any jobs, that is, any sequences of accesses to the four
lists (`DatabaseLocksProofs`):

* `LocksImplementQueries`: `LocksSpec => Spec`: seen from the gate, a query that works in the lists is a query that is in.
  `LocksSaveRunsAlone` and `LocksKeepGate` carry the two theorems about the gate over.
* `LocksTypes`: `LocksSpec => []LocksTypeOK`.
* `ListWritersExclude`: `LocksSpec => []WritersExclude`: a thread that writes a list is alone with it.

The invariant is `LockInv == IdleAtStart /\ ReadersCounted /\ FirstAlone /\ ReadersHold /\ WriterAlone`. The count of a list equals the number
of its readers, the one at the door (counted, and waiting for the semaphore) included; a reader at the door holds the mutex of the count,
so it is the only one; readers who are inside hold the semaphore together, whoever took it; a writer holds it alone. The
equality is what makes the *last* reader give the semaphore back and no other: with "at least" it could stay taken, with "at most"
a writer could come in beside a reader. `LOPT_readTry` and the count of writers are not in this invariant: they are there for the order in
which threads come in, not for exclusion. Assumptions: `QueriesAssumption` and `LocksAssumption` (the threads are finitely many, jobs are
sequences of accesses).

`TryInv` says whom `LOPT_readTry` is of: one reader between taking it and being inside, or all writers from the first that has
it to the last that gives it back, never both; and that `LOPT_w_cnt` equals the number of those writers. From it follows

* `PendingWritersFirst`: the action property `LocksSpec => WritersFirst`. A reader that gets in has `LOPT_readTry`, so no writer
  is counted in meanwhile.

`TakenInv` says the converse of all that: for each mutex and semaphore that is taken there is a thread that has it. With
`LockInv` and `TryInv` it gives

* `LocksNeverStuck`: as long as a thread has work in the lists, the guard of some thread's next step is true. It is what `SomeoneGoesOn`
  says with ENABLED, with the guards written out (`CanGoOn`). The proof goes from the inside out: if nobody could go on, nobody would be
  inside a list, so no first reader at a door, so no reader or writer counted, so nobody with `LOPT_readTry`, so no first writer;
  and whoever holds listeners up waits for none of these. Its one hypothesis, `JobsRelease`, is that a job gives
  `listenerProceedMUT` back before it takes it again; `ProgramJobsRelease` shows it of every job of the program.

For any users, any finite set of sessions, any requests, logins and bounds (`TweetServerProofs`, `TweetAccountingProofs`):

* `ServerTypeCorrect`: `Spec => []TypeOK`. The invariant `TypeInv` adds at which places of a listener and a speaker `clientIndex` is
  a user (`ThreadsOK`): a listener has checked it, a speaker runs only after the sign-in, and nobody takes it back. And it says
  that the follower a speaker has come to in its loop is there (`PlacesOK`), as lists of followers never shrink.
* `ServerImplementsSessions`: `Spec => CSSpec`. Listeners, speakers and saves do to the connections what `ClientSessions` allows,
  which has any tweet archived; so its `Tweets` have to include all there can be (`PendingTweets \subseteq Tweets`).
  `ServerCountsConnections` and `ServerNeverLocksOut` carry its theorems over.
* `TimelineKept`: `Spec => []TimelineOrder`. In `OrderInv`, one speaker at most is between registering and forwarding (`OnePosts`,
  by `listenerProceedMUT`); numbers are never taken twice; what a speaker is about to forward is the last of the author's received
  tweets and is pending for nobody; and a list that somebody shortens loses entries without changing the order of the others.
* `EveryTweetIsCountedDown`: `Spec => []NoOrphanTweet`. `Covered` is the property itself, which is inductive together with
  `OrderInv` and `CopyOK` (when a listener is to clear a pending list, the list is what it has copied, or another listener of the user
  has emptied it: nothing is taken away that nobody has in hands). Each step moves entries between three totals, or counts one off:

  | step | pending | taken | to make | remaining |
  |---|---|---|---|---|
  | `RegisterUpdate` | | | +n | = n |
  | `ForwardUpdate` | +n | | −n | |
  | `ClearPending` | −k | +k or more | | |
  | `UpdateTweet` | | −1 | | −1 |

  `Recount` replaces the number to make by a larger one or the same, as followers are only added. "Or more" is what another listener of the
  same user has copied too, which is why the count may fall short and never be too high.
* `SnapshotIsClosed`: `Spec => []SnapshotHasNoOrphan`. By `GateInv` the threads in a query are at most `query_cnt`, which is 0 during a
  save; so nothing is taken or to be made then, and `NoOrphanTweet` speaks of pending entries alone.
* `RecipientsCountedExactly`: `Spec => []ExactAccounting`, if no user has two sessions (`OneConnectionEach`) and the only requests are
  posts and follows of users there are not (`NobodyStartsToFollow`). Without the first, a tweet is sent twice to a follower with two
  connections and counted once (`twin` has such a user); without the second, a follow can get in between counting the
  followers and forwarding. With both, followers never change (`CalmInv`), what a listener is to clear is just what it has
  copied (`CopyExact`), and an entry is pending or taken for a tweet that is there (`OnlyReceived`), once (`ForwardedOnce`).

* `TweetsInOrder`: `Spec => []NoneSkipped`, with the two hypotheses of `RecipientsCountedExactly` and two more: everybody signs
  in as a user there is (`EverybodyIsKnown`) and nobody leaves (`NobodyLeaves`). The run `pair`, with no `Leavers`, is such an instance.
  `NoneSkipped` is to `TimelineOrder` what the end of the way is to its beginning: with a tweet of an author a connection has been
  sent, before it, every earlier one of hers that anybody has been sent. In between listeners copy and clear pending lists,
  look tweets up, and send again what is in the archive. It says "before", not "once": a listener that asks for a second
  connection before its own is registered (1165) reads in front of the vector, may be told that there is one, archives its tweets, and
  gets them from the archive again. Without the two new hypotheses it is false: a connection that comes back has not been sent
  what the one before it was; and when an entry of the connection manager is erased, by a connection that leaves or by one whose user
  is unknown, an index that a listener has looked up goes stale, and what it archives is then for somebody else (`wrong_user`).
  `NoneSkipped` takes two posts of one author and two followers to be violated, and is in no run: the theorem stands alone.
  The invariant speaks of a connection's *line* (`Line`): what it has been sent, what its listener has retrieved, what it
  is looking up and what is pending for its user, one after the other. With a tweet of an author, a line has every earlier one of hers in front
  of it (`LinesOrdered`); the tweets of an author are in the lines of her followers and no others (`LinesShared`); and what she
  is about to post is later than all of them (`LinesEarlier`). A retrieval moves tweets along its line, where the lookup drops none since
  each is a received tweet (`LookUpFindsAll`, by `ExactInv`); forwarding appends one tweet to the lines of all followers in one step; and
  fetching from the archive puts tweets into the line that are further in front already. The last is why the invariant has two more parts:
  `ArchiveSent`, what is archived for a user has been sent to her, and `StayInv`, an index a listener has is its own user's.
  `OrderedAppended` and `OrderedInserted` are the facts about sequences behind the two.

`TypeInv` needs no bound on requests or connections. The assumptions are those of the modules: `Users`, `Sessions` finite,
`NoUser` no user.

For any number of starts, of users from one to nine and of tweets posted between two starts up to nine (`PersistenceProofs`;
`PersistenceAssumption` demands it, since `Persistence` knows only numbers of one digit):

* `IndicesKept`: `Spec => []UsersKeepIndex`, `FollowersKept`: `Spec => FollowersSurvive`, `LoneTweetKept`: `Spec => LoneTweetSurvives`.
* `StartsEnd`: `Spec => []LoadEnds` for two users or more, which is where it is true.
* `PersistenceTypes`: `Spec => []PersistenceTypeOK`, torn files included.

`PersistInv` says when each file is good: from its writing on, and except between its truncation and its writing. It also says what "good" is,
and for the users that is the point: every user in her place, and behind them any number of entries that starts have invented, each
with the ID of the last user (`GoodUsers`). `LoadKeepsUsers` shows that a start makes of a good list a good list, whether it adds an entry or
misreads the last; `LoadUsersEnds` that with a last ID other than 0 it makes something of it. `MisreadTweets` and `LoneTweetIsRead`
say what the loaders make of pending tweets.

The types need an invariant of their own (`PersistTyped`), as they hold of torn files too, of which `PersistInv` says nothing. The number of
recipients that a tweet still waits for is between one and the number of users because nobody follows a user twice (`NoRepeats`,
`FewFollowers`), and because an entry with one recipient left is removed and not counted down (`DeliveredType`). Fetching counts down for a
whole list of tweets: `DeliveredAll` is a recursive function, of which `IterationExists` in `DataLemmas` shows that it is defined and
`IterationType` that its values have the type; both by the least number for which it would not be so, without an induction rule.

For any numbers of servers and connections and any scenarios, that is, any requests, tweets, stops and kills (`ConversationProofs`):

* `RequestsArrive`: `Spec => []RequestStreamIntact`, `TweetsArrive`: `Spec => []TweetStreamIntact`,
  `AnswerIsFirst`: `Spec => []AnswerFirst`, `ConnectedIsSignedIn`: `Spec => []ConnectedMeansSignedIn`.

The four follow from one inductive invariant, `ConvInv` (`ConversationInvariant`), which types everything, says what the client may
be at (`ClientOK`) and holds of each connection a list of facts (`ConnectionOK`), none of which can do without the others:

  | conjunct | what it says of a connection | what it is there for |
  |---|---|---|
  | `ConnectorOK`, `OthersOK` | which thread has which packets in hands, and the flag for the departure | a packet is in one place only |
  | `SignInOK` | before the sign-in nothing is queued, executed or forwarded, and the client can only read refusals | a client that comes back on a new connection is never served |
  | `AskingOK` | an unanswered SIGN_IN is alone on its connection, and the client only waits for it | the ACK is the first packet back |
  | `AwaitedOK` | the first packet back is an answer; if there is none and the user is signed in, the answer is to come | `AnswerFirst` |
  | `CurrentOK` | the current connection is open; if it counts as connected, the user is signed in there | `ConnectedMeansSignedIn` |
  | `RequestsOK` | executed, queued and coming packets, one after the other, are what was sent; once the connection ends, a prefix of it | `RequestStreamIntact` |
  | `TweetsOK` | shown tweets, those in the socket, in the outgoing queue and in the listener's hands, one after the other, are what was fetched | `TweetStreamIntact` |

`SignInOK` and `AwaitedOK` are what the code relies on without saying so: a RECONNECT on a new connection names no user, so all
that comes back is a NACK or a SHUTDOWN_REQ, and no tweet can be in front of it. `ClientOK` has `WaitsAtFirst`: until the first answer the main thread neither reads nor
writes, else it could take the answer away from the front end. `SocketsSuffice` shows that a search, which opens a socket for each server it
tries, does not run out of the model's `Descriptors`, so that taking a free one is always defined: a bound that is there for TLC
holds nothing back. There is a lemma for each step (`…Preserves`), and below them one for each way in which a step
touches the network (`WriteStep`, `HandOver`, `ConnectionRead` and so on); what concatenation does to `Requests` and `Tweets` is
`SelectedOfConcat` in `DataLemmas`. The assumptions are those of the modules: numbers are numbers, and the scenarios have their type.

**Only model-checked:** `SomeoneGoesOn` and `SomeoneProceeds`, which are about `ENABLED`; and every liveness property, as liveness under fairness is out of
the prover's reach.

## 5. What is not modelled, and the plan

What would be worth adding:

1. The refinement of an abstract conversation (two first-in first-out channels that may be cut) by `Conversation`; what
   `ConvInv` says of the streams is its larger part.
2. In `ClientSessions`: a client that sends SIGN_IN twice on one connection (the repository's client does not), which
   registers it once more, possibly for another user.

Left out, and why:

* A message that `read` or `write` transfers in part. The code takes any positive result for a whole message (1085); how a stream
  is cut is up to the network, and every field of the struct would be one of many.
* SHUTDOWN_REQ from a client, and the client's inbox, which is only shown if `poll` fails.
* In `Persistence`, numbers of more than one digit, and names and texts with separators in them.
  A local variable that a loader declares in its loop and fails to read is taken to hold what the round before left in its place,
  which is what builds of this code do; before the first round it may hold several values (`AnyID`, `NoLists`).
* The time-out of the main thread's first wait (`Client.cpp:63`): a first search that takes 1000 seconds, after which the client
  would end.
* A `bind` or `accept` that fails: the process prints the error and ends.
* The fields of the message struct and its sizes (data without state), and `Server.cpp` (the echo server of an
  earlier exercise, not used by `main_server.cpp`).
* `addUser` and `_clearUsersPendingTweets`: nothing calls them.
* Wording and logging.
