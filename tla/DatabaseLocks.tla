---------------------------- MODULE DatabaseLocks ----------------------------
(***************************************************************************)
(* What a query does between entering and leaving the database: it gets    *)
(* the locks of the four lists.  LOU, LOF and LORT prefer readers, LOPT    *)
(* prefers writers, and a query that forwards a tweet holds                *)
(* listenerProceedMUT meanwhile, which listeners hold to look for pending  *)
(* tweets.  QuerySemaphores is the way in and out.                         *)
(*                                                                         *)
(* A section that nothing can make wait is one step with the operation     *)
(* before it.  The semaphores are ones of BinarySemaphore.                 *)
(***************************************************************************)
EXTENDS QuerySemaphores, Sequences

CONSTANTS
  Outsiders,   \* threads that read lists without entering the database
  Jobs         \* for each thread, the lists of accesses that it may work on

(* The lock that postUpdate has for numTweets is only a semaphore.         *)
Lists == {"LOU", "LOF", "LORT", "LOPT"}
Locks == Lists \cup {"tweetnum"}
Read(l) == [mode |-> "read", lock |-> l]
Write(l) == [mode |-> "write", lock |-> l]
Hold == [mode |-> "hold", lock |-> "proceed"]
Release == [mode |-> "release", lock |-> "proceed"]
Accesses ==
  {Read(l) : l \in Lists} \cup {Write(l) : l \in Locks} \cup {Hold, Release}

Threads == Queries \cup Outsiders

ASSUME LocksAssumption ==
  /\ IsFiniteSet(Outsiders)
  /\ Queries \cap Outsiders = {}
  /\ Jobs \in [Threads -> SUBSET Seq(Accesses)]

(* postFollow; getUserIndex may find nobody, _alreadyFollowed may find her.*)
postFollow == <<Read("LOU"), Read("LOF"), Write("LOF")>>

(* postUpdate, of a user without followers and of one with some.           *)
postUnseen == <<Write("tweetnum"), Read("LOF")>>
postUpdate ==
  postUnseen \o <<Hold, Read("LOF"), Write("LORT"), Read("LOF"), Write("LOPT"), Release>>

(* retrieveTweetsFromFollowed, with n tweets pending.                      *)
retrieveTweets(n) == <<Read("LOPT"), Read("LORT")>> \o [i \in 1..n |-> Write("LORT")]

(* doesClientHavePendingTweets, and getUserIndex or getUserName.           *)
checkPending == <<Hold, Read("LOPT"), Release>>
findUser == <<Read("LOU")>>

VARIABLES
  todo,       \* for each thread, the accesses that are left of its job
  at,         \* where each thread is in the first of them
  cnt_mutex,  \* for each list, TRUE: the mutex of its readers' count is free
  cnt,        \* for each list, its readers
  rw_sem,     \* for each lock, TRUE: the semaphore is free
  LOPT_readTry, LOPT_w_cnt_mut,   \* TRUE: free
  LOPT_w_cnt,
  listenerProceedMUT              \* TRUE: free

listVars == <<cnt_mutex, cnt, rw_sem, LOPT_readTry, LOPT_w_cnt_mut, LOPT_w_cnt,
              listenerProceedMUT>>
lockVars == <<todo, at, listVars>>

(***************************************************************************)
(*   start                                                                 *)
(*   tried        (a reader) has LOPT_readTry                              *)
(*   first        (a reader) has cnt_mutex, needs rw_sem for all readers   *)
(*   firstWriter  has LOPT_w_cnt_mut, needs LOPT_readTry for all writers   *)
(*   counted      (a writer) needs rw_sem                                  *)
(*   inside       uses the list                                            *)
(*   wrote        (a writer) has released rw_sem                           *)
(***************************************************************************)
LockPlaces == {"start", "tried", "first", "firstWriter", "counted", "inside", "wrote"}

LocksInit ==
  /\ Init
  /\ todo = [t \in Threads |-> <<>>]
  /\ at = [t \in Threads |-> "start"]
  /\ cnt_mutex = [l \in Lists |-> TRUE]
  /\ cnt = [l \in Lists |-> 0]
  /\ rw_sem = [l \in Locks |-> TRUE]
  /\ LOPT_readTry = TRUE
  /\ LOPT_w_cnt_mut = TRUE
  /\ LOPT_w_cnt = 0
  /\ listenerProceedMUT = TRUE

(* Thread t is at this place of this access.                               *)
Doing(t, access, place) ==
  /\ todo[t] # <<>>
  /\ Head(todo[t]) = access
  /\ at[t] = place

Moves(t, place) ==
  /\ at' = [at EXCEPT ![t] = place]
  /\ UNCHANGED todo

Done(t) ==
  /\ todo' = [todo EXCEPT ![t] = Tail(@)]
  /\ at' = [at EXCEPT ![t] = "start"]

-----------------------------------------------------------------------------
TryRead(t) ==
  /\ Doing(t, Read("LOPT"), "start")
  /\ LOPT_readTry
  /\ LOPT_readTry' = FALSE
  /\ Moves(t, "tried")
  /\ UNCHANGED <<cnt_mutex, cnt, rw_sem, LOPT_w_cnt_mut, LOPT_w_cnt, listenerProceedMUT>>

BeginRead(t, l) ==
  /\ Doing(t, Read(l), IF l = "LOPT" THEN "tried" ELSE "start")
  /\ cnt_mutex[l]
  /\ cnt' = [cnt EXCEPT ![l] = @ + 1]
  /\ \/ /\ cnt[l] = 0
        /\ cnt_mutex' = [cnt_mutex EXCEPT ![l] = FALSE]
        /\ Moves(t, "first")
        /\ UNCHANGED LOPT_readTry
     \/ /\ cnt[l] > 0
        /\ LOPT_readTry' = IF l = "LOPT" THEN TRUE ELSE LOPT_readTry
        /\ Moves(t, "inside")
        /\ UNCHANGED cnt_mutex
  /\ UNCHANGED <<rw_sem, LOPT_w_cnt_mut, LOPT_w_cnt, listenerProceedMUT>>

FirstRead(t, l) ==
  /\ Doing(t, Read(l), "first")
  /\ rw_sem[l]
  /\ rw_sem' = [rw_sem EXCEPT ![l] = FALSE]
  /\ cnt_mutex' = [cnt_mutex EXCEPT ![l] = TRUE]
  /\ LOPT_readTry' = IF l = "LOPT" THEN TRUE ELSE LOPT_readTry
  /\ Moves(t, "inside")
  /\ UNCHANGED <<cnt, LOPT_w_cnt_mut, LOPT_w_cnt, listenerProceedMUT>>

(* Mutated form: a reader that leaves lets writers in.                     *)
EndReadAlways(t, l) ==
  /\ Doing(t, Read(l), "inside")
  /\ cnt_mutex[l]
  /\ cnt' = [cnt EXCEPT ![l] = @ - 1]
  /\ rw_sem' = [rw_sem EXCEPT ![l] = TRUE]
  /\ Done(t)
  /\ UNCHANGED <<cnt_mutex, LOPT_readTry, LOPT_w_cnt_mut, LOPT_w_cnt, listenerProceedMUT>>

EndRead(t, l) ==
  /\ Doing(t, Read(l), "inside")
  /\ cnt_mutex[l]
  /\ cnt' = [cnt EXCEPT ![l] = @ - 1]
  /\ rw_sem' = [rw_sem EXCEPT ![l] = IF cnt[l] = 1 THEN TRUE ELSE @]
  /\ Done(t)
  /\ UNCHANGED <<cnt_mutex, LOPT_readTry, LOPT_w_cnt_mut, LOPT_w_cnt, listenerProceedMUT>>

-----------------------------------------------------------------------------
CountWriter(t) ==
  /\ Doing(t, Write("LOPT"), "start")
  /\ LOPT_w_cnt_mut
  /\ LOPT_w_cnt' = LOPT_w_cnt + 1
  /\ LOPT_w_cnt_mut' = (LOPT_w_cnt > 0)
  /\ Moves(t, IF LOPT_w_cnt = 0 THEN "firstWriter" ELSE "counted")
  /\ UNCHANGED <<cnt_mutex, cnt, rw_sem, LOPT_readTry, listenerProceedMUT>>

(* Mutated form: the first writer does not hold readers back.              *)
FirstWriterAtOnce(t) ==
  /\ Doing(t, Write("LOPT"), "firstWriter")
  /\ LOPT_w_cnt_mut' = TRUE
  /\ Moves(t, "counted")
  /\ UNCHANGED <<cnt_mutex, cnt, rw_sem, LOPT_readTry, LOPT_w_cnt, listenerProceedMUT>>

FirstWriter(t) ==
  /\ Doing(t, Write("LOPT"), "firstWriter")
  /\ LOPT_readTry
  /\ LOPT_readTry' = FALSE
  /\ LOPT_w_cnt_mut' = TRUE
  /\ Moves(t, "counted")
  /\ UNCHANGED <<cnt_mutex, cnt, rw_sem, LOPT_w_cnt, listenerProceedMUT>>

BeginWrite(t, l) ==
  /\ Doing(t, Write(l), IF l = "LOPT" THEN "counted" ELSE "start")
  /\ rw_sem[l]
  /\ rw_sem' = [rw_sem EXCEPT ![l] = FALSE]
  /\ Moves(t, "inside")
  /\ UNCHANGED <<cnt_mutex, cnt, LOPT_readTry, LOPT_w_cnt_mut, LOPT_w_cnt, listenerProceedMUT>>

EndWrite(t, l) ==
  /\ Doing(t, Write(l), "inside")
  /\ rw_sem' = [rw_sem EXCEPT ![l] = TRUE]
  /\ IF l = "LOPT" THEN Moves(t, "wrote") ELSE Done(t)
  /\ UNCHANGED <<cnt_mutex, cnt, LOPT_readTry, LOPT_w_cnt_mut, LOPT_w_cnt, listenerProceedMUT>>

(* Mutated form: the last writer does not let readers in again.            *)
UncountWriterKeeps(t) ==
  /\ Doing(t, Write("LOPT"), "wrote")
  /\ LOPT_w_cnt_mut
  /\ LOPT_w_cnt' = LOPT_w_cnt - 1
  /\ Done(t)
  /\ UNCHANGED <<cnt_mutex, cnt, rw_sem, LOPT_readTry, LOPT_w_cnt_mut, listenerProceedMUT>>

UncountWriter(t) ==
  /\ Doing(t, Write("LOPT"), "wrote")
  /\ LOPT_w_cnt_mut
  /\ LOPT_w_cnt' = LOPT_w_cnt - 1
  /\ LOPT_readTry' = IF LOPT_w_cnt = 1 THEN TRUE ELSE LOPT_readTry
  /\ Done(t)
  /\ UNCHANGED <<cnt_mutex, cnt, rw_sem, LOPT_w_cnt_mut, listenerProceedMUT>>

-----------------------------------------------------------------------------
HoldListeners(t) ==
  /\ Doing(t, Hold, "start")
  /\ listenerProceedMUT
  /\ listenerProceedMUT' = FALSE
  /\ Done(t)
  /\ UNCHANGED <<cnt_mutex, cnt, rw_sem, LOPT_readTry, LOPT_w_cnt_mut, LOPT_w_cnt>>

ReleaseListeners(t) ==
  /\ Doing(t, Release, "start")
  /\ listenerProceedMUT' = TRUE
  /\ Done(t)
  /\ UNCHANGED <<cnt_mutex, cnt, rw_sem, LOPT_readTry, LOPT_w_cnt_mut, LOPT_w_cnt>>

LockStep(t) ==
  \/ TryRead(t) \/ CountWriter(t) \/ FirstWriter(t) \/ UncountWriter(t)
  \/ \E l \in Lists : BeginRead(t, l) \/ FirstRead(t, l) \/ EndRead(t, l)
  \/ \E l \in Locks : BeginWrite(t, l) \/ EndWrite(t, l)
  \/ HoldListeners(t) \/ ReleaseListeners(t)

-----------------------------------------------------------------------------
TakeJob(t) ==
  /\ todo[t] = <<>>
  /\ \E job \in Jobs[t] : todo' = [todo EXCEPT ![t] = job]
  /\ UNCHANGED <<at, listVars>>

EnterWithJob(q) == EnterDatabase(q) /\ TakeJob(q)

(* A query leaves when its job is done.                                    *)
AtGate(q) ==
  /\ TryQuery(q) \/ (pc[q] # "enter" /\ todo[q] = <<>> /\ QueryStep(q))
  /\ UNCHANGED lockVars

(* postFollow has not found the user, or has found that she is followed.   *)
RefuseFollowed(q) ==
  /\ RefuseFollow(q)
  /\ todo[q] \in {Tail(postFollow), Tail(Tail(postFollow))}
  /\ at[q] = "start"
  /\ todo' = [todo EXCEPT ![q] = <<>>]
  /\ UNCHANGED <<at, listVars>>

SaveStep == (TrySave \/ Save \/ Saved \/ EndSave) /\ UNCHANGED lockVars

QueryWorks(q) == EnterWithJob(q) \/ AtGate(q) \/ (LockStep(q) /\ UNCHANGED vars)
OutsiderWorks(t) == LockStep(t) /\ UNCHANGED vars

LocksNext ==
  \/ \E q \in Queries : QueryWorks(q) \/ RefuseFollowed(q)
  \/ \E t \in Outsiders : OutsiderWorks(t) \/ (TakeJob(t) /\ UNCHANGED vars)
  \/ SaveStep

LocksSpec == LocksInit /\ [][LocksNext]_<<vars, lockVars>>

(* A query or a look at a list that has begun goes on.  Others may take a  *)
(* mutex or a semaphore from it, but not for ever: strong fairness.  A     *)
(* query, a job of an outsider and a save need not begin.                  *)
FairLocksSpec ==
  /\ LocksSpec
  /\ \A q \in Queries : SF_<<vars, lockVars>>(pc[q] # "out" /\ QueryWorks(q))
  /\ \A t \in Outsiders : SF_<<vars, lockVars>>(OutsiderWorks(t))
  /\ WF_<<vars, lockVars>>((Save \/ Saved \/ EndSave) /\ UNCHANGED lockVars)

-----------------------------------------------------------------------------
(***************************************************************************)
(* Properties.                                                             *)
(***************************************************************************)
(* Types.                                                                  *)
LocksTypeOK ==
  /\ TypeOK
  /\ todo \in [Threads -> Seq(Accesses)]
  /\ at \in [Threads -> LockPlaces]
  /\ cnt_mutex \in [Lists -> BOOLEAN]
  /\ cnt \in [Lists -> Int]
  /\ rw_sem \in [Locks -> BOOLEAN]
  /\ LOPT_readTry \in BOOLEAN
  /\ LOPT_w_cnt_mut \in BOOLEAN
  /\ LOPT_w_cnt \in Int
  /\ listenerProceedMUT \in BOOLEAN

(* A thread that writes a list is the only one that has its lock.          *)
WritersExclude ==
  \A t, u \in Threads, l \in Lists :
    Doing(t, Write(l), "inside") /\ t # u =>
      ~Doing(u, Write(l), "inside") /\ ~Doing(u, Read(l), "inside")

(* The locks are never all waited for: of the threads that have work in    *)
(* the lists one can go on.                                                *)
SomeoneGoesOn ==
  (\E t \in Threads : todo[t] # <<>>) => \E t \in Threads : ENABLED LockStep(t)

(* Once a writer of the pending tweets waits for the readers inside, no    *)
(* other reader gets in before it.                                         *)
WritersFirst ==
  [][\A w, r \in Threads :
       Doing(w, Write("LOPT"), "counted") /\ Doing(w, Write("LOPT"), "counted")' =>
         ~(~Doing(r, Read("LOPT"), "inside") /\ Doing(r, Read("LOPT"), "inside")')]_lockVars

(* Thread t waits to write the pending tweets.                             *)
WaitsToWrite(t) ==
  \E place \in {"start", "firstWriter", "counted"} : Doing(t, Write("LOPT"), place)

(* Nobody waits for ever to write the pending tweets (812), not even while *)
(* two queries read them in turn so that one is always inside: the first   *)
(* writer has LOPT_readTry, and those inside leave.                        *)
PendingWriterGetsIn == \A t \in Queries : []<>~WaitsToWrite(t)

(* A query that has begun ends, unless a refused follow has blocked a save *)
(* or the readers of a list that prefers readers never leave it together.  *)
QueryGetsOut ==
  \A q \in Queries :
    <>[](pc[q] # "out") => <>[](Leaked \/ cnt["LOF"] > 0 \/ cnt["LORT"] > 0)
=============================================================================
