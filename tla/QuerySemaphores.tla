--------------------------- MODULE QuerySemaphores ---------------------------
(***************************************************************************)
(* The protocol with which databaseManager keeps queries (postFollow,      *)
(* postUpdate, retrieveTweetsFromFollowed) and saveDatabase apart: three   *)
(* semaphores and the counter query_cnt.  A step is one operation on a     *)
(* semaphore, or a section between two of them; each semaphore is one of   *)
(* BinarySemaphore, which CustomBinarySemaphore implements.                *)
(***************************************************************************)
EXTENDS Integers, FiniteSets

CONSTANTS
  Queries,    \* threads that run queries
  Followers,  \* those among them whose query may be a refused follow
  MaxCount    \* bound: no query begins while query_cnt is that high

ASSUME QueriesAssumption ==
  /\ IsFiniteSet(Queries)
  /\ Followers \subseteq Queries
  /\ MaxCount \in Nat

VARIABLES
  query_try, query_cnt_sem, DB_access_sem,   \* TRUE: the semaphore is free
  query_cnt,
  pc,       \* where each query is
  savepc    \* where saveDatabase is

vars == <<query_try, query_cnt_sem, DB_access_sem, query_cnt, pc, savepc>>

(***************************************************************************)
(*   out      no query                   leave    has query_cnt_sem again  *)
(*   try      has query_try              lastOut  the count is back at 0   *)
(*   count    and has query_cnt_sem      left     about to release         *)
(*   firstIn  the count was 0                     query_cnt_sem            *)
(*   counted  about to release query_cnt_sem                               *)
(*   enter    about to release query_try                                   *)
(*   in       works on the database                                        *)
(***************************************************************************)
QueryPlaces ==
  {"out", "try", "count", "firstIn", "counted", "enter", "in", "leave", "lastOut", "left"}

(* saveDatabase: has query_try, has DB_access_sem too, has released it.    *)
SavePlaces == {"idle", "waiting", "saving", "saved"}

Init ==
  /\ query_try = TRUE
  /\ query_cnt_sem = TRUE
  /\ DB_access_sem = TRUE
  /\ query_cnt = 0
  /\ pc = [q \in Queries |-> "out"]
  /\ savepc = "idle"

Goes(q, from, to) ==
  /\ pc[q] = from
  /\ pc' = [pc EXCEPT ![q] = to]

-----------------------------------------------------------------------------
(* Mutated form: a query does not wait at query_try.                       *)
TryQueryAnyway(q) ==
  /\ query_cnt < MaxCount
  /\ Goes(q, "out", "try")
  /\ UNCHANGED <<query_try, query_cnt_sem, DB_access_sem, query_cnt, savepc>>

TryQuery(q) ==
  /\ query_cnt < MaxCount
  /\ query_try
  /\ query_try' = FALSE
  /\ Goes(q, "out", "try")
  /\ UNCHANGED <<query_cnt_sem, DB_access_sem, query_cnt, savepc>>

LockCount(q) ==
  /\ query_cnt_sem
  /\ query_cnt_sem' = FALSE
  /\ Goes(q, "try", "count") \/ Goes(q, "in", "leave")
  /\ UNCHANGED <<query_try, DB_access_sem, query_cnt, savepc>>

(* Mutated form: the query does not count itself.                          *)
CountInNot(q) ==
  /\ Goes(q, "count", IF query_cnt = 0 THEN "firstIn" ELSE "counted")
  /\ UNCHANGED <<query_try, query_cnt_sem, DB_access_sem, query_cnt, savepc>>

CountIn(q) ==
  /\ query_cnt' = query_cnt + 1
  /\ Goes(q, "count", IF query_cnt = 0 THEN "firstIn" ELSE "counted")
  /\ UNCHANGED <<query_try, query_cnt_sem, DB_access_sem, savepc>>

FirstIn(q) ==
  /\ DB_access_sem
  /\ DB_access_sem' = FALSE
  /\ Goes(q, "firstIn", "counted")
  /\ UNCHANGED <<query_try, query_cnt_sem, query_cnt, savepc>>

UnlockCount(q) ==
  /\ query_cnt_sem' = TRUE
  /\ Goes(q, "counted", "enter") \/ Goes(q, "left", "out")
  /\ UNCHANGED <<query_try, DB_access_sem, query_cnt, savepc>>

EnterDatabase(q) ==
  /\ query_try' = TRUE
  /\ Goes(q, "enter", "in")
  /\ UNCHANGED <<query_cnt_sem, DB_access_sem, query_cnt, savepc>>

(* Mutated form: every query that leaves releases the database.            *)
CountOutAlways(q) ==
  /\ query_cnt' = query_cnt - 1
  /\ Goes(q, "leave", "lastOut")
  /\ UNCHANGED <<query_try, query_cnt_sem, DB_access_sem, savepc>>

CountOut(q) ==
  /\ query_cnt' = query_cnt - 1
  /\ Goes(q, "leave", IF query_cnt = 1 THEN "lastOut" ELSE "left")
  /\ UNCHANGED <<query_try, query_cnt_sem, DB_access_sem, savepc>>

(* Mutated form: the last query to leave does not release the database.    *)
LastOutKeeps(q) ==
  /\ Goes(q, "lastOut", "left")
  /\ UNCHANGED <<query_try, query_cnt_sem, DB_access_sem, query_cnt, savepc>>

LastOut(q) ==
  /\ DB_access_sem' = TRUE
  /\ Goes(q, "lastOut", "left")
  /\ UNCHANGED <<query_try, query_cnt_sem, query_cnt, savepc>>

(* postFollow returns early: the target is unknown or followed already.    *)
RefuseFollow(q) ==
  /\ q \in Followers
  /\ Goes(q, "in", "out")
  /\ UNCHANGED <<query_try, query_cnt_sem, DB_access_sem, query_cnt, savepc>>

-----------------------------------------------------------------------------
SaveGoes(from, to) ==
  /\ savepc = from
  /\ savepc' = to
  /\ UNCHANGED <<query_cnt_sem, query_cnt, pc>>

TrySave ==
  /\ query_try
  /\ query_try' = FALSE
  /\ SaveGoes("idle", "waiting")
  /\ UNCHANGED DB_access_sem

Save ==
  /\ DB_access_sem
  /\ DB_access_sem' = FALSE
  /\ SaveGoes("waiting", "saving")
  /\ UNCHANGED query_try

Saved ==
  /\ DB_access_sem' = TRUE
  /\ SaveGoes("saving", "saved")
  /\ UNCHANGED query_try

EndSave ==
  /\ query_try' = TRUE
  /\ SaveGoes("saved", "idle")
  /\ UNCHANGED DB_access_sem

-----------------------------------------------------------------------------
QueryStep(q) ==
  \/ LockCount(q) \/ CountIn(q) \/ FirstIn(q) \/ UnlockCount(q) \/ EnterDatabase(q)
  \/ CountOut(q) \/ LastOut(q)

Next ==
  \/ \E q \in Queries : TryQuery(q) \/ QueryStep(q) \/ RefuseFollow(q)
  \/ TrySave \/ Save \/ Saved \/ EndSave

Spec == Init /\ [][Next]_vars

-----------------------------------------------------------------------------
(***************************************************************************)
(* Properties.                                                             *)
(***************************************************************************)
(* Every variable has its type.                                            *)
TypeOK ==
  /\ query_try \in BOOLEAN
  /\ query_cnt_sem \in BOOLEAN
  /\ DB_access_sem \in BOOLEAN
  /\ query_cnt \in Nat
  /\ pc \in [Queries -> QueryPlaces]
  /\ savepc \in SavePlaces

(* While the database is saved no query works on it, even after follows    *)
(* that were refused.                                                      *)
SaveRunsAlone ==
  savepc = "saving" => \A q \in Queries : pc[q] \notin {"counted", "enter", "in", "leave"}

(* A refused follow has left its query in query_cnt.                       *)
Leaked ==
  query_cnt > Cardinality({q \in Queries : pc[q] \in {"firstIn", "counted", "enter", "in", "leave"}})

(* A save that waits is not passed by new queries for ever: once those     *)
(* inside have left, it runs, unless a refused follow never does.          *)
SaveIsNotStarved == savepc = "waiting" ~> (savepc = "saving" \/ Leaked)

Gate ==
  INSTANCE QueryGate WITH
    saver <- IF savepc = "saved" THEN "saving" ELSE savepc

(* The protocol keeps the promise TweetServer relies on.                   *)
KeepsGate == Gate!GateSpec

=============================================================================
