------------------------ MODULE DatabaseLocksProofs ------------------------
(***************************************************************************)
(* The query protocol keeps saves and queries apart, for any finite set of *)
(* threads and any number of refused follows, and implements QueryGate.    *)
(* The locks of the lists keep a writer alone, for any finite sets of      *)
(* threads and any jobs, and queries that get them still keep the promise  *)
(* of QuerySemaphores towards saves.                                       *)
(***************************************************************************)
EXTENDS DatabaseLocks, FiniteSetTheorems, SequenceTheorems, TLAPS

-----------------------------------------------------------------------------
(* The query protocol (QuerySemaphores).                                   *)
TryPlaces == {"try", "count", "firstIn", "counted", "enter"}
CountPlaces == {"count", "firstIn", "counted", "leave", "lastOut", "left"}
InsidePlaces == {"firstIn", "counted", "enter", "in", "leave"}

(* The queries that query_cnt counts.                                      *)
Inside == {q \in Queries : pc[q] \in InsidePlaces}

(* query_try is held by one query or by the save.                          *)
TryHeldOnce ==
  /\ \A q, r \in Queries : pc[q] \in TryPlaces /\ pc[r] \in TryPlaces => q = r
  /\ \A q \in Queries : pc[q] \in TryPlaces => ~query_try /\ savepc = "idle"
  /\ savepc # "idle" => ~query_try

(* query_cnt_sem is held by one query.                                     *)
CountHeldOnce ==
  /\ \A q, r \in Queries : pc[q] \in CountPlaces /\ pc[r] \in CountPlaces => q = r
  /\ \A q \in Queries : pc[q] \in CountPlaces => ~query_cnt_sem

(* Refused follows only make the count too high.                           *)
CountCovers == query_cnt >= Cardinality(Inside)

(* DB_access_sem is held on behalf of the queries that are counted, or by  *)
(* the save.                                                               *)
DatabaseHeld ==
  /\ query_cnt > 0 /\ (\A q \in Queries : pc[q] # "firstIn")
       => ~DB_access_sem /\ savepc # "saving"
  /\ \A q \in Queries : pc[q] = "lastOut"
       => ~DB_access_sem /\ savepc # "saving" /\ query_cnt = 0
  /\ \A q \in Queries : pc[q] = "firstIn" => query_cnt > 0
  /\ savepc = "saving" => ~DB_access_sem

IInv == TypeOK /\ TryHeldOnce /\ CountHeldOnce /\ CountCovers /\ DatabaseHeld

(* Nobody holds anything at first.                                         *)
LEMMA InitEstablishes == Init => IInv
<1> SUFFICES ASSUME Init PROVE IInv
  OBVIOUS
<1>1. Inside = {}
  BY DEF Init, Inside, InsidePlaces
<1>2. CountCovers
  BY <1>1, FS_EmptySet DEF CountCovers, Init
<1> QED
  BY <1>2 DEF Init, IInv, TypeOK, TryHeldOnce, CountHeldOnce, DatabaseHeld,
              TryPlaces, CountPlaces, QueryPlaces, SavePlaces

(* The set of counted queries is finite, and one that is in it is counted. *)
LEMMA InsideFinite ==
  /\ IsFiniteSet(Inside)
  /\ Cardinality(Inside) \in Nat
  /\ \A q \in Inside : Cardinality(Inside) >= 1
<1>1. IsFiniteSet(Inside)
  BY QueriesAssumption, FS_Subset DEF Inside
<1>2. Cardinality(Inside) \in Nat
  BY <1>1, FS_CardinalityType
<1>3. ASSUME NEW q \in Inside PROVE Cardinality(Inside) # 0
  BY <1>1, <1>3, FS_EmptySet
<1> QED
  BY <1>1, <1>2, <1>3

(* A step that moves one query, and not into or out of the count, leaves   *)
(* CountCovers as it is.                                                   *)
LEMMA CountUnmoved ==
  ASSUME IInv, NEW q \in Queries, NEW to \in QueryPlaces, Goes(q, pc[q], to),
         UNCHANGED query_cnt, to \in InsidePlaces => pc[q] \in InsidePlaces
  PROVE  CountCovers'
<1>1. Inside' \subseteq Inside
  BY DEF Inside, Goes, IInv, TypeOK
<1>2. Cardinality(Inside') <= Cardinality(Inside) /\ Cardinality(Inside') \in Nat
  BY <1>1, InsideFinite, FS_Subset, FS_CardinalityType
<1> QED
  BY <1>2, InsideFinite DEF CountCovers, IInv, TypeOK

(* Every step preserves the invariant.                                     *)
LEMMA StepPreserves == IInv /\ [Next]_vars => IInv'
<1> SUFFICES ASSUME IInv, [Next]_vars PROVE IInv'
  OBVIOUS
<1> USE DEF QueryPlaces, TryPlaces, CountPlaces, InsidePlaces
<1>typed. TypeOK
  BY DEF IInv
<1>1. CASE UNCHANGED vars
  <2>1. Inside' = Inside
    BY <1>1 DEF vars, Inside
  <2> QED
    BY <1>1, <2>1 DEF vars, IInv, TypeOK, TryHeldOnce, CountHeldOnce, CountCovers, DatabaseHeld
<1>2. ASSUME NEW q \in Queries, TryQuery(q) PROVE IInv'
  <2>1. CountCovers'
    BY <1>2, CountUnmoved DEF TryQuery, Goes
  <2> QED
    BY <1>2, <2>1 DEF TryQuery, Goes, IInv, TypeOK, TryHeldOnce, CountHeldOnce, DatabaseHeld
<1>3. ASSUME NEW q \in Queries, LockCount(q) PROVE IInv'
  <2>1. CountCovers'
    BY <1>3, CountUnmoved DEF LockCount, Goes
  <2>2. \A r \in Queries : pc[r] \notin CountPlaces
    BY <1>3 DEF LockCount, IInv, CountHeldOnce
  <2>3. CASE Goes(q, "try", "count")
    BY <1>3, <2>1, <2>2, <2>3
    DEF LockCount, Goes, IInv, TypeOK, TryHeldOnce, CountHeldOnce, DatabaseHeld
  <2>4. CASE Goes(q, "in", "leave")
    BY <1>3, <2>1, <2>2, <2>4
    DEF LockCount, Goes, IInv, TypeOK, TryHeldOnce, CountHeldOnce, DatabaseHeld
  <2> QED
    BY <1>3, <2>3, <2>4 DEF LockCount
<1>4. ASSUME NEW q \in Queries, CountIn(q) PROVE IInv'
  <2>1. Inside' = Inside \cup {q} /\ q \notin Inside
    BY <1>4, <1>typed DEF CountIn, Goes, Inside, TypeOK
  <2>2. Cardinality(Inside') = Cardinality(Inside) + 1
    BY <2>1, InsideFinite, FS_AddElement
  <2>3. CountCovers'
    BY <1>4, <2>2, InsideFinite DEF CountIn, CountCovers, IInv, TypeOK
  <2>4. TypeOK' /\ TryHeldOnce' /\ CountHeldOnce'
    BY <1>4 DEF CountIn, Goes, IInv, TypeOK, TryHeldOnce, CountHeldOnce
  <2>5. DatabaseHeld'
    <3>1. \A r \in Queries \ {q} : pc'[r] = pc[r] /\ pc[r] \notin CountPlaces
      BY <1>4 DEF CountIn, Goes, IInv, TypeOK, CountHeldOnce
    <3>2. CASE query_cnt = 0
      BY <1>4, <3>1, <3>2 DEF CountIn, Goes, IInv, TypeOK, DatabaseHeld
    <3>3. CASE query_cnt # 0
      BY <1>4, <3>1, <3>3 DEF CountIn, Goes, IInv, TypeOK, DatabaseHeld
    <3> QED
      BY <3>2, <3>3
  <2> QED
    BY <2>3, <2>4, <2>5 DEF IInv
<1>5. ASSUME NEW q \in Queries, FirstIn(q) PROVE IInv'
  <2>1. CountCovers'
    BY <1>5, CountUnmoved DEF FirstIn, Goes
  <2> QED
    BY <1>5, <2>1 DEF FirstIn, Goes, IInv, TypeOK, TryHeldOnce, CountHeldOnce, DatabaseHeld
<1>6. ASSUME NEW q \in Queries, UnlockCount(q) PROVE IInv'
  <2>1. CountCovers'
    BY <1>6, CountUnmoved DEF UnlockCount, Goes
  <2> QED
    BY <1>6, <2>1 DEF UnlockCount, Goes, IInv, TypeOK, TryHeldOnce, CountHeldOnce, DatabaseHeld
<1>7. ASSUME NEW q \in Queries, EnterDatabase(q) PROVE IInv'
  <2>1. CountCovers'
    BY <1>7, CountUnmoved DEF EnterDatabase, Goes
  <2> QED
    BY <1>7, <2>1 DEF EnterDatabase, Goes, IInv, TypeOK, TryHeldOnce, CountHeldOnce, DatabaseHeld
<1>8. ASSUME NEW q \in Queries, CountOut(q) PROVE IInv'
  <2>1. Inside' = Inside \ {q} /\ q \in Inside
    BY <1>8, <1>typed DEF CountOut, Goes, Inside, TypeOK
  <2>2. Cardinality(Inside') = Cardinality(Inside) - 1
    BY <2>1, InsideFinite, FS_RemoveElement
  <2>3. query_cnt >= 1
    BY <2>1, InsideFinite DEF IInv, CountCovers, TypeOK
  <2>4. CountCovers'
    BY <1>8, <2>2, InsideFinite DEF CountOut, CountCovers, IInv, TypeOK
  <2> QED
    BY <1>8, <2>3, <2>4
    DEF CountOut, Goes, IInv, TypeOK, TryHeldOnce, CountHeldOnce, DatabaseHeld
<1>9. ASSUME NEW q \in Queries, LastOut(q) PROVE IInv'
  <2>1. CountCovers'
    BY <1>9, CountUnmoved DEF LastOut, Goes
  <2> QED
    BY <1>9, <2>1 DEF LastOut, Goes, IInv, TypeOK, TryHeldOnce, CountHeldOnce, DatabaseHeld
<1>10. ASSUME NEW q \in Queries, RefuseFollow(q) PROVE IInv'
  <2>1. CountCovers'
    BY <1>10, CountUnmoved DEF RefuseFollow, Goes
  <2> QED
    BY <1>10, <2>1 DEF RefuseFollow, Goes, IInv, TypeOK, TryHeldOnce, CountHeldOnce, DatabaseHeld
<1>11. ASSUME TrySave \/ Save \/ Saved \/ EndSave PROVE IInv'
  <2>1. UNCHANGED <<query_cnt_sem, query_cnt, pc>>
    BY <1>11 DEF TrySave, Save, Saved, EndSave, SaveGoes
  <2>2. CountCovers' /\ CountHeldOnce'
    BY <2>1 DEF IInv, CountCovers, CountHeldOnce, Inside
  <2>3. TypeOK'
    BY <1>11, <2>1 DEF TrySave, Save, Saved, EndSave, SaveGoes, IInv, TypeOK, SavePlaces
  <2>4. TryHeldOnce'
    BY <1>11, <2>1 DEF TrySave, Save, Saved, EndSave, SaveGoes, IInv, TypeOK, TryHeldOnce
  <2>5. DatabaseHeld'
    BY <1>11, <2>1
    DEF TrySave, Save, Saved, EndSave, SaveGoes, IInv, TypeOK, TryHeldOnce, DatabaseHeld
  <2> QED
    BY <2>2, <2>3, <2>4, <2>5 DEF IInv
<1> QED
  BY <1>1, <1>2, <1>3, <1>4, <1>5, <1>6, <1>7, <1>8, <1>9, <1>10, <1>11 DEF Next, QueryStep

(* The semaphores are held as the protocol intends, and query_cnt never    *)
(* falls below the number of queries inside.                               *)
THEOREM QueryInvariant == Spec => []IInv
  BY InitEstablishes, StepPreserves, PTL DEF Spec

(* While the database is saved, no query works on it.                      *)
THEOREM QuerySaveRunsAlone == Spec => []SaveRunsAlone
<1>1. IInv => SaveRunsAlone
  <2> SUFFICES ASSUME IInv, savepc = "saving", NEW q \in Queries,
                      pc[q] \in {"counted", "enter", "in", "leave"}
               PROVE  FALSE
    BY DEF SaveRunsAlone
  <2>1. query_cnt > 0
    <3>1. q \in Inside
      BY DEF Inside, InsidePlaces
    <3> QED
      BY <3>1, InsideFinite DEF IInv, CountCovers, TypeOK
  <2>2. \A r \in Queries : pc[r] # "firstIn"
    BY DEF IInv, TryHeldOnce, TryPlaces
  <2> QED
    BY <2>1, <2>2 DEF IInv, DatabaseHeld
<1> QED
  BY <1>1, QueryInvariant, PTL

GateStep ==
  Gate!EnterQuery \/ Gate!LeaveQuery \/ Gate!BeginSave \/ Gate!Save \/ Gate!EndSave

(* Every step of the protocol is a step of the gate or leaves it as it is. *)
LEMMA StepImplements == IInv /\ [Next]_vars => [GateStep]_(Gate!gateVars)
<1> SUFFICES ASSUME IInv, [Next]_vars PROVE [GateStep]_(Gate!gateVars)
  OBVIOUS
<1> USE DEF Gate!gateVars, GateStep
<1>1. CASE UNCHANGED vars
  BY <1>1 DEF vars
<1>2. ASSUME NEW q \in Queries,
             \/ TryQuery(q) \/ LockCount(q) \/ FirstIn(q) \/ UnlockCount(q)
             \/ EnterDatabase(q) \/ LastOut(q) \/ RefuseFollow(q)
      PROVE  [GateStep]_(Gate!gateVars)
  BY <1>2 DEF TryQuery, LockCount, FirstIn, UnlockCount, EnterDatabase, LastOut, RefuseFollow
<1>3. ASSUME NEW q \in Queries, CountIn(q) PROVE [GateStep]_(Gate!gateVars)
  <2>1. savepc = "idle"
    BY <1>3 DEF CountIn, Goes, IInv, TryHeldOnce, TryPlaces
  <2> QED
    BY <1>3, <2>1 DEF CountIn, Gate!EnterQuery
<1>4. ASSUME NEW q \in Queries, CountOut(q) PROVE [GateStep]_(Gate!gateVars)
  <2>1. q \in Inside
    BY <1>4 DEF CountOut, Goes, Inside, InsidePlaces
  <2>2. query_cnt > 0
    BY <2>1, InsideFinite DEF IInv, CountCovers, TypeOK
  <2> QED
    BY <1>4, <2>2 DEF CountOut, Gate!LeaveQuery
<1>5. CASE TrySave
  BY <1>5 DEF TrySave, SaveGoes, Gate!BeginSave
<1>6. CASE Save
  <2>1. savepc = "waiting" /\ DB_access_sem
    BY <1>6 DEF Save, SaveGoes
  <2>2. \A q \in Queries : pc[q] # "firstIn"
    BY <2>1 DEF IInv, TryHeldOnce, TryPlaces
  <2>3. query_cnt = 0
    BY <2>1, <2>2 DEF IInv, DatabaseHeld, TypeOK
  <2> QED
    BY <1>6, <2>3 DEF Save, SaveGoes, Gate!Save
<1>7. CASE Saved
  BY <1>7 DEF Saved, SaveGoes
<1>8. CASE EndSave
  BY <1>8 DEF EndSave, SaveGoes, Gate!EndSave
<1> QED
  BY <1>1, <1>2, <1>3, <1>4, <1>5, <1>6, <1>7, <1>8 DEF Next, QueryStep

(* The protocol implements the gate that TweetServer is built on.          *)
THEOREM QueryRefinement == Spec => KeepsGate
<1>1. Init => Gate!GateInit
  BY DEF Init, Gate!GateInit
<1> QED
  BY <1>1, StepImplements, QueryInvariant, PTL DEF Spec, KeepsGate, Gate!GateSpec, GateStep

-----------------------------------------------------------------------------
(* The locks of the lists (DatabaseLocks).                                 *)

(* A step in the lists is no step of the gate, and every other one is one. *)
LEMMA LocksStepImplements == [LocksNext]_<<vars, lockVars>> => [Next]_vars
<1> SUFFICES ASSUME [LocksNext]_<<vars, lockVars>>, ~UNCHANGED vars PROVE Next
  OBVIOUS
<1>1. ASSUME NEW q \in Queries, QueryWorks(q) \/ RefuseFollowed(q)
      PROVE TryQuery(q) \/ QueryStep(q) \/ RefuseFollow(q)
  BY <1>1 DEF QueryWorks, RefuseFollowed, EnterWithJob, AtGate, QueryStep
<1>2. ASSUME NEW t \in Outsiders PROVE ~OutsiderWorks(t) /\ ~(TakeJob(t) /\ UNCHANGED vars)
  BY DEF OutsiderWorks
<1>3. LocksNext
  OBVIOUS
<1>4. CASE \E q \in Queries : QueryWorks(q) \/ RefuseFollowed(q)
  BY <1>1, <1>4 DEF Next
<1>5. CASE SaveStep
  BY <1>5 DEF SaveStep, Next
<1> QED
  BY <1>2, <1>3, <1>4, <1>5 DEF LocksNext

(* The program with its lists is an instance of the protocol without them. *)
THEOREM LocksImplementQueries == LocksSpec => Spec
<1>1. LocksInit => Init
  BY DEF LocksInit
<1> QED
  BY <1>1, LocksStepImplements, PTL DEF LocksSpec, Spec

(* While the database is saved no query is inside (saveDatabase), whatever *)
(* queries do with the locks of the lists.                                 *)
THEOREM LocksSaveRunsAlone == LocksSpec => []SaveRunsAlone
BY LocksImplementQueries, QuerySaveRunsAlone, PTL

(* The four semaphores keep the promise of QueryGate under the lists.      *)
THEOREM LocksKeepGate == LocksSpec => KeepsGate
BY LocksImplementQueries, QueryRefinement, PTL
-----------------------------------------------------------------------------
Entering(t, l) == Doing(t, Read(l), "first")
Reading(t, l) == Doing(t, Read(l), "inside")
Writing(t, l) == Doing(t, Write(l), "inside")

(* The readers of a list, and one that waits for its writer.               *)
Readers(l) == {t \in Threads : Entering(t, l) \/ Reading(t, l)}

IdleAtStart == \A t \in Threads : todo[t] = <<>> => at[t] = "start"
ReadersCounted == \A l \in Lists : cnt[l] = Cardinality(Readers(l))
FirstAlone ==
  \A l \in Lists, t \in Threads : Entering(t, l) => ~cnt_mutex[l] /\ Readers(l) = {t}
ReadersHold == \A l \in Lists, t \in Threads : Reading(t, l) => ~rw_sem[l]
WriterAlone ==
  \A l \in Lists, t \in Threads :
    Writing(t, l) => /\ ~rw_sem[l]
                     /\ \A u \in Threads : ~Reading(u, l) /\ (Writing(u, l) => u = t)

LockInv == IdleAtStart /\ ReadersCounted /\ FirstAlone /\ ReadersHold /\ WriterAlone

(* Accesses of different modes or lists are different.                     *)
LEMMA DifferentAccesses ==
  ASSUME NEW l, NEW m
  PROVE  /\ Read(l) = Read(m) => l = m
         /\ Write(l) = Write(m) => l = m
         /\ Read(l) # Write(m)
         /\ Hold # Read(l) /\ Hold # Write(l)
         /\ Release # Read(l) /\ Release # Write(l)
  BY DEF Read, Write, Hold, Release

(* There are finitely many readers.                                        *)
LEMMA ReadersFinite == ASSUME NEW l PROVE IsFiniteSet(Readers(l))
<1>1. IsFiniteSet(Threads)
  BY QueriesAssumption, LocksAssumption, FS_Union DEF Threads
<1> QED
  BY <1>1, FS_Subset DEF Readers

(* What a thread does after it has moved within an access.                 *)
LEMMA AfterMove ==
  ASSUME LocksTypeOK, NEW t \in Threads, NEW a, NEW from, NEW to,
         Doing(t, a, from), Moves(t, to)
  PROVE  \A u \in Threads : \A b, p :
           Doing(u, b, p)' <=> IF u = t THEN b = a /\ p = to ELSE Doing(u, b, p)
  BY DEF LocksTypeOK, Doing, Moves

(* And after it is done with one.                                          *)
LEMMA AfterDone ==
  ASSUME LocksTypeOK, NEW t \in Threads, Done(t)
  PROVE  \A u \in Threads : \A b, p :
           /\ u # t => (Doing(u, b, p)' <=> Doing(u, b, p))
           /\ Doing(t, b, p)' => p = "start"
  BY DEF LocksTypeOK, Doing, Done

(* A step after which the same threads are in the same lists, or at their  *)
(* door, and which leaves the locks of the readers alone.                  *)
LEMMA QuietStep ==
  ASSUME LockInv,
         \A u \in Threads, l \in Lists :
           /\ Entering(u, l)' <=> Entering(u, l)
           /\ Reading(u, l)' <=> Reading(u, l)
           /\ Writing(u, l)' <=> Writing(u, l),
         UNCHANGED <<cnt_mutex, cnt>>,
         \A l \in Lists : rw_sem'[l] = rw_sem[l]
  PROVE  (ReadersCounted /\ FirstAlone /\ ReadersHold /\ WriterAlone)'
<1>1. \A l \in Lists : Readers(l)' = Readers(l)
  BY DEF Readers
<1> QED
  BY <1>1 DEF LockInv, ReadersCounted, FirstAlone, ReadersHold, WriterAlone
(* Where threads are, and what they have to do, keep their types.          *)
WorkTypes ==
  /\ todo \in [Threads -> Seq(Accesses)]
  /\ at \in [Threads -> LockPlaces]
  /\ IdleAtStart

LEMMA MoveKeepsTypes ==
  ASSUME WorkTypes, NEW t \in Threads, NEW a, NEW from, NEW to \in LockPlaces,
         Doing(t, a, from), Moves(t, to)
  PROVE  WorkTypes'
  BY DEF WorkTypes, IdleAtStart, Doing, Moves

LEMMA DoneKeepsTypes ==
  ASSUME WorkTypes, NEW t \in Threads, NEW a, NEW from, Doing(t, a, from), Done(t)
  PROVE  WorkTypes'
<1>1. todo[t] # <<>> /\ todo[t] \in Seq(Accesses)
  BY DEF Doing, WorkTypes
<1>2. Tail(todo[t]) \in Seq(Accesses)
  BY <1>1
<1> QED
  BY <1>2 DEF WorkTypes, IdleAtStart, Done, LockPlaces

(* Types, and a thread without work being at no access.                    *)
LEMMA TypesPreserved ==
  LocksTypeOK /\ IdleAtStart /\ [LocksNext]_<<vars, lockVars>> /\ TypeOK'
    => (LocksTypeOK /\ IdleAtStart)'
<1> SUFFICES ASSUME LocksTypeOK, IdleAtStart, [LocksNext]_<<vars, lockVars>>, TypeOK'
             PROVE  (LocksTypeOK /\ IdleAtStart)'
  OBVIOUS
<1> DEFINE LockTypes ==
      /\ cnt_mutex \in [Lists -> BOOLEAN]
      /\ cnt \in [Lists -> Int]
      /\ rw_sem \in [Locks -> BOOLEAN]
      /\ LOPT_readTry \in BOOLEAN
      /\ LOPT_w_cnt_mut \in BOOLEAN
      /\ LOPT_w_cnt \in Int
      /\ listenerProceedMUT \in BOOLEAN
<1>typed. WorkTypes /\ LockTypes
  BY DEF LocksTypeOK, WorkTypes
<1> SUFFICES WorkTypes' /\ LockTypes'
  BY DEF LocksTypeOK, WorkTypes
<1>1. CASE UNCHANGED lockVars
  BY <1>1, <1>typed DEF lockVars, listVars, WorkTypes, IdleAtStart
<1>2. ASSUME NEW t \in Threads, TakeJob(t) PROVE WorkTypes' /\ LockTypes'
  <2>1. PICK job \in Jobs[t] : todo' = [todo EXCEPT ![t] = job]
    BY <1>2 DEF TakeJob
  <2>2. job \in Seq(Accesses)
    BY LocksAssumption
  <2> QED
    BY <1>2, <1>typed, <2>1, <2>2 DEF TakeJob, listVars, WorkTypes, IdleAtStart
<1>3. ASSUME NEW t \in Queries, RefuseFollowed(t) PROVE WorkTypes' /\ LockTypes'
  BY <1>3, <1>typed DEF RefuseFollowed, listVars, WorkTypes, IdleAtStart, Threads
<1>4. ASSUME NEW t \in Threads, LockStep(t) PROVE WorkTypes' /\ LockTypes'
  <2> USE DEF LockPlaces
  <2>1. CASE TryRead(t) \/ CountWriter(t) \/ FirstWriter(t)
    <3>1. WorkTypes'
      BY <1>typed, <2>1, MoveKeepsTypes DEF TryRead, CountWriter, FirstWriter
    <3>2. CASE TryRead(t)
      BY <1>typed, <3>2, <3>1 DEF TryRead
    <3>3. CASE CountWriter(t)
      BY <1>typed, <3>3, <3>1 DEF CountWriter
    <3>4. CASE FirstWriter(t)
      BY <1>typed, <3>4, <3>1 DEF FirstWriter
    <3> QED
      BY <2>1, <3>2, <3>3, <3>4
  <2>2. CASE UncountWriter(t) \/ HoldListeners(t) \/ ReleaseListeners(t)
    <3>1. WorkTypes'
      BY <1>typed, <2>2, DoneKeepsTypes DEF UncountWriter, HoldListeners, ReleaseListeners
    <3>2. CASE UncountWriter(t)
      <4>1. LOPT_readTry' \in BOOLEAN
        BY <1>typed, <3>2 DEF UncountWriter
      <4>2. LOPT_w_cnt' \in Int
        BY <1>typed, <3>2 DEF UncountWriter
      <4> QED
        BY <1>typed, <3>1, <3>2, <4>1, <4>2 DEF UncountWriter
    <3>3. CASE HoldListeners(t)
      BY <1>typed, <3>1, <3>3 DEF HoldListeners
    <3>4. CASE ReleaseListeners(t)
      BY <1>typed, <3>1, <3>4 DEF ReleaseListeners
    <3> QED
      BY <2>2, <3>2, <3>3, <3>4
  <2>3. ASSUME NEW l \in Lists, BeginRead(t, l) \/ FirstRead(t, l)
        PROVE  WorkTypes' /\ LockTypes'
    <3>1. WorkTypes'
      BY <1>typed, <2>3, MoveKeepsTypes DEF BeginRead, FirstRead
    <3>2. CASE BeginRead(t, l)
      <4>1. LOPT_readTry' \in BOOLEAN
        BY <1>typed, <3>2, Zenon DEF BeginRead
      <4>2. cnt' \in [Lists -> Int]
        BY <1>typed, <3>2 DEF BeginRead
      <4>3. cnt_mutex' \in [Lists -> BOOLEAN]
        BY <1>typed, <3>2 DEF BeginRead
      <4> QED
        BY <1>typed, <3>1, <3>2, <4>1, <4>2, <4>3 DEF BeginRead
    <3>3. CASE FirstRead(t, l)
      BY <1>typed, <3>1, <3>3 DEF FirstRead, Locks
    <3> QED
      BY <2>3, <3>2, <3>3
  <2>4. ASSUME NEW l \in Lists, EndRead(t, l) PROVE WorkTypes' /\ LockTypes'
    <3>1. WorkTypes'
      BY <1>typed, <2>4, DoneKeepsTypes DEF EndRead
    <3>2. cnt' \in [Lists -> Int]
      BY <1>typed, <2>4 DEF EndRead
    <3>3. rw_sem' \in [Locks -> BOOLEAN]
      BY <1>typed, <2>4 DEF EndRead, Locks
    <3> QED
      BY <1>typed, <2>4, <3>1, <3>2, <3>3 DEF EndRead
  <2>5. ASSUME NEW l \in Locks, BeginWrite(t, l) \/ EndWrite(t, l)
        PROVE  WorkTypes' /\ LockTypes'
    <3>1. WorkTypes'
      BY <1>typed, <2>5, MoveKeepsTypes, DoneKeepsTypes DEF BeginWrite, EndWrite
    <3> QED
      BY <1>typed, <2>5, <3>1 DEF BeginWrite, EndWrite
  <2> QED
    BY <1>4, <2>1, <2>2, <2>3, <2>4, <2>5 DEF LockStep
<1> QED
  BY <1>1, <1>2, <1>3, <1>4
  DEF LocksNext, QueryWorks, OutsiderWorks, EnterWithJob, AtGate, SaveStep, lockVars, Threads
-----------------------------------------------------------------------------
Exclusion == ReadersCounted /\ FirstAlone /\ ReadersHold /\ WriterAlone

(* A reader that is counted.                                               *)
LEMMA BeginReadExcludes ==
  ASSUME LocksTypeOK, LockInv, NEW t \in Threads, NEW l \in Lists, BeginRead(t, l)
  PROVE  Exclusion'
<1> DEFINE to == IF cnt[l] = 0 THEN "first" ELSE "inside"
<1> DEFINE from == IF l = "LOPT" THEN "tried" ELSE "start"
<1>1. Doing(t, Read(l), from) /\ Moves(t, to) /\ cnt_mutex[l]
  <2>1. Doing(t, Read(l), from) /\ cnt_mutex[l]
    BY DEF BeginRead
  <2>2. CASE cnt[l] = 0
    BY <2>2, <2>1 DEF BeginRead
  <2>3. CASE cnt[l] > 0
    <3>1. cnt[l] # 0
      BY <2>3 DEF LocksTypeOK
    <3>2. Moves(t, "inside")
      BY <3>1 DEF BeginRead
    <3> QED
      BY <2>1, <3>1, <3>2
  <2> QED
    BY <2>2, <2>3 DEF BeginRead
<1>2. \A u \in Threads : \A b, p :
        Doing(u, b, p)' <=> IF u = t THEN b = Read(l) /\ p = to ELSE Doing(u, b, p)
  BY <1>1, AfterMove
<1>3. \A b, p : Doing(t, b, p) => p = from
  BY <1>1 DEF Doing
<1>4. t \notin Readers(l) /\ Readers(l)' = Readers(l) \cup {t}
  BY <1>2, <1>3 DEF Readers, Entering, Reading
<1>5. \A m \in Lists \ {l} : Readers(m)' = Readers(m)
  BY <1>2, <1>3, DifferentAccesses DEF Readers, Entering, Reading
<1>6. Cardinality(Readers(l)') = Cardinality(Readers(l)) + 1
  BY <1>4, ReadersFinite, FS_AddElement
<1>7. ReadersCounted'
  BY <1>5, <1>6 DEF LockInv, ReadersCounted, BeginRead, LocksTypeOK
<1>8. \A u \in Threads : ~Entering(u, l)
  BY <1>1 DEF LockInv, FirstAlone
<1>9. cnt[l] = 0 => Readers(l) = {}
  BY ReadersFinite, FS_EmptySet DEF LockInv, ReadersCounted
<1>10. \A u \in Threads, m \in Lists : Writing(u, m)' <=> Writing(u, m)
  BY <1>2, <1>3, DifferentAccesses DEF Writing
<1>11. \A u \in Threads, m \in Lists :
         /\ Reading(u, m)' <=> Reading(u, m) \/ (u = t /\ m = l /\ cnt[l] # 0)
         /\ Entering(u, m)' <=> Entering(u, m) \/ (u = t /\ m = l /\ cnt[l] = 0)
  BY <1>2, <1>3, DifferentAccesses DEF Reading, Entering
<1>12. FirstAlone'
  <2> SUFFICES ASSUME NEW m \in Lists, NEW u \in Threads, Entering(u, m)'
               PROVE  ~cnt_mutex'[m] /\ Readers(m)' = {u}
    BY DEF FirstAlone
  <2>1. CASE m # l
    <3>1. Entering(u, m) /\ cnt_mutex'[m] = cnt_mutex[m]
      BY <1>11, <2>1 DEF BeginRead, LocksTypeOK
    <3> QED
      BY <1>5, <2>1, <3>1 DEF LockInv, FirstAlone
  <2>2. CASE m = l
    <3>1. u = t /\ cnt[l] = 0
      BY <1>8, <1>11, <2>2
    <3>2. ~cnt_mutex'[l]
      BY <3>1 DEF BeginRead, LocksTypeOK
    <3> QED
      BY <1>4, <1>9, <2>2, <3>1, <3>2
  <2> QED
    BY <2>1, <2>2
<1>13. cnt[l] # 0 => \E u \in Threads : Reading(u, l)
  BY <1>8, FS_EmptySet DEF LockInv, ReadersCounted, Readers
<1>14. ReadersHold'
  BY <1>11, <1>13 DEF BeginRead, LockInv, ReadersHold
<1>15. WriterAlone'
  BY <1>10, <1>11, <1>13 DEF BeginRead, LockInv, WriterAlone
<1> QED
  BY <1>7, <1>12, <1>14, <1>15 DEF Exclusion

(* The first reader gets the lock for all.                                 *)
LEMMA FirstReadExcludes ==
  ASSUME LocksTypeOK, LockInv, NEW t \in Threads, NEW l \in Lists, FirstRead(t, l)
  PROVE  Exclusion'
<1>1. Doing(t, Read(l), "first") /\ Moves(t, "inside") /\ rw_sem[l]
  BY DEF FirstRead
<1>2. \A u \in Threads : \A b, p :
        Doing(u, b, p)' <=> IF u = t THEN b = Read(l) /\ p = "inside" ELSE Doing(u, b, p)
  BY <1>1, AfterMove
<1>3. \A b, p : Doing(t, b, p) => b = Read(l) /\ p = "first"
  BY <1>1 DEF Doing
<1>4. \A m \in Lists : Readers(m)' = Readers(m)
  BY <1>1, <1>2, <1>3, DifferentAccesses DEF Readers, Entering, Reading
<1>5. \A u \in Threads, m \in Lists :
        /\ Writing(u, m)' <=> Writing(u, m)
        /\ Reading(u, m)' <=> Reading(u, m) \/ (u = t /\ m = l)
        /\ Entering(u, m)' <=> Entering(u, m) /\ u # t
  BY <1>2, <1>3, DifferentAccesses DEF Writing, Reading, Entering
<1>6. Readers(l) = {t}
  BY <1>1 DEF LockInv, FirstAlone, Entering
<1>7. ReadersCounted'
  BY <1>4 DEF FirstRead, LockInv, ReadersCounted
<1>8. FirstAlone'
  BY <1>4, <1>5, <1>6 DEF FirstRead, LockInv, FirstAlone, LocksTypeOK, Readers
<1>9. ReadersHold'
  BY <1>5 DEF FirstRead, LockInv, ReadersHold, LocksTypeOK, Locks
<1>10. \A u \in Threads : ~Writing(u, l)
  BY <1>1 DEF LockInv, WriterAlone
<1>11. WriterAlone'
  BY <1>5, <1>10 DEF FirstRead, LockInv, WriterAlone, LocksTypeOK, Locks
<1> QED
  BY <1>7, <1>8, <1>9, <1>11 DEF Exclusion
(* The last reader gives it back.                                          *)
LEMMA EndReadExcludes ==
  ASSUME LocksTypeOK, LockInv, NEW t \in Threads, NEW l \in Lists, EndRead(t, l)
  PROVE  Exclusion'
<1>1. Reading(t, l) /\ Done(t) /\ cnt_mutex[l]
  BY DEF EndRead, Reading
<1>2. \A u \in Threads : \A b, p :
        /\ u # t => (Doing(u, b, p)' <=> Doing(u, b, p))
        /\ Doing(t, b, p)' => p = "start"
  BY <1>1, AfterDone
<1>3. \A b, p : Doing(t, b, p) => b = Read(l) /\ p = "inside"
  BY <1>1 DEF Doing, Reading
<1>4. \A u \in Threads, m \in Lists :
        /\ Writing(u, m)' <=> Writing(u, m)
        /\ Reading(u, m)' <=> Reading(u, m) /\ u # t
        /\ Entering(u, m)' <=> Entering(u, m)
  BY <1>2, <1>3, DifferentAccesses DEF Writing, Reading, Entering
<1>5. t \in Readers(l) /\ Readers(l)' = Readers(l) \ {t}
  BY <1>1, <1>2, <1>3 DEF Readers, Entering, Reading
<1>6. \A m \in Lists \ {l} : Readers(m)' = Readers(m)
  BY <1>2, <1>3, DifferentAccesses DEF Readers, Entering, Reading
<1>7. Cardinality(Readers(l)') = Cardinality(Readers(l)) - 1
  BY <1>5, ReadersFinite, FS_RemoveElement
<1>8. ReadersCounted'
  BY <1>6, <1>7 DEF EndRead, LockInv, ReadersCounted, LocksTypeOK
<1>9. \A u \in Threads : ~Entering(u, l)
  BY <1>1 DEF LockInv, FirstAlone
<1>10. FirstAlone'
  BY <1>4, <1>6, <1>9 DEF EndRead, LockInv, FirstAlone
<1>11. cnt[l] = 1 => Readers(l)' = {}
  BY <1>5, <1>7, ReadersFinite, FS_RemoveElement, FS_EmptySet DEF LockInv, ReadersCounted
<1>12. \A u \in Threads : Reading(u, l)' => cnt[l] # 1
  BY <1>11 DEF Readers
<1>13. \A m \in Lists : rw_sem'[m] = IF m = l /\ cnt[l] = 1 THEN TRUE ELSE rw_sem[m]
  BY DEF EndRead, LocksTypeOK, Locks
<1>14. ReadersHold'
  BY <1>4, <1>12, <1>13 DEF LockInv, ReadersHold
<1>15. \A u \in Threads : ~Writing(u, l)
  BY <1>1 DEF LockInv, WriterAlone
<1>16. ASSUME NEW m \in Lists, NEW u \in Threads, Writing(u, m)'
      PROVE  ~rw_sem'[m] /\ \A v \in Threads : ~Reading(v, m)' /\ (Writing(v, m)' => v = u)
  <2>1. Writing(u, m) /\ m # l
    BY <1>4, <1>15, <1>16
  <2>2. ~rw_sem[m] /\ \A v \in Threads : ~Reading(v, m) /\ (Writing(v, m) => v = u)
    BY <2>1 DEF LockInv, WriterAlone
  <2> QED
    BY <1>4, <1>13, <2>1, <2>2
<1>17. WriterAlone'
  BY <1>16 DEF WriterAlone
<1> QED
  BY <1>8, <1>10, <1>14, <1>17 DEF Exclusion

(* A writer finds nobody inside.                                           *)
LEMMA BeginWriteExcludes ==
  ASSUME LocksTypeOK, LockInv, NEW t \in Threads, NEW l \in Locks, BeginWrite(t, l)
  PROVE  Exclusion'
<1> DEFINE from == IF l = "LOPT" THEN "counted" ELSE "start"
<1>1. Doing(t, Write(l), from) /\ Moves(t, "inside") /\ rw_sem[l]
  BY DEF BeginWrite
<1>2. \A u \in Threads : \A b, p :
        Doing(u, b, p)' <=> IF u = t THEN b = Write(l) /\ p = "inside" ELSE Doing(u, b, p)
  BY <1>1, AfterMove
<1>3. \A b, p : Doing(t, b, p) => b = Write(l) /\ p = from
  BY <1>1 DEF Doing
<1>4. \A u \in Threads, m \in Lists :
        /\ Writing(u, m)' <=> Writing(u, m) \/ (u = t /\ m = l)
        /\ Reading(u, m)' <=> Reading(u, m)
        /\ Entering(u, m)' <=> Entering(u, m)
  BY <1>2, <1>3, DifferentAccesses DEF Writing, Reading, Entering
<1>5. \A m \in Lists : Readers(m)' = Readers(m)
  BY <1>4 DEF Readers
<1>6. ReadersCounted' /\ FirstAlone'
  BY <1>4, <1>5 DEF BeginWrite, LockInv, ReadersCounted, FirstAlone
<1>7. \A m \in Lists : rw_sem'[m] = IF m = l THEN FALSE ELSE rw_sem[m]
  BY DEF BeginWrite, LocksTypeOK, Locks
<1>8. ReadersHold'
  BY <1>4, <1>7 DEF LockInv, ReadersHold
<1>9. l \in Lists => \A u \in Threads : ~Writing(u, l) /\ ~Reading(u, l)
  BY <1>1 DEF LockInv, WriterAlone, ReadersHold
<1>10. WriterAlone'
  <2> SUFFICES ASSUME NEW m \in Lists, NEW u \in Threads, Writing(u, m)'
               PROVE  /\ ~rw_sem'[m]
                      /\ \A v \in Threads : ~Reading(v, m)' /\ (Writing(v, m)' => v = u)
    BY DEF WriterAlone
  <2>1. CASE m = l
    BY <1>4, <1>7, <1>9, <2>1
  <2>2. CASE m # l
    BY <1>4, <1>7, <2>2 DEF LockInv, WriterAlone
  <2> QED
    BY <2>1, <2>2
<1> QED
  BY <1>6, <1>8, <1>10 DEF Exclusion

(* And leaves nobody inside.                                               *)
LEMMA EndWriteExcludes ==
  ASSUME LocksTypeOK, LockInv, NEW t \in Threads, NEW l \in Locks, EndWrite(t, l)
  PROVE  Exclusion'
<1>1. Doing(t, Write(l), "inside")
  BY DEF EndWrite
<1>2. \A b, p : Doing(t, b, p) => b = Write(l) /\ p = "inside"
  BY <1>1 DEF Doing
<1>3. \A u \in Threads : \A b, p :
        /\ u # t => (Doing(u, b, p)' <=> Doing(u, b, p))
        /\ Doing(t, b, p)' => p \in {"start", "wrote"}
  BY <1>1, AfterDone, AfterMove DEF EndWrite
<1>4. \A u \in Threads, m \in Lists :
        /\ Writing(u, m)' <=> Writing(u, m) /\ u # t
        /\ Reading(u, m)' <=> Reading(u, m)
        /\ Entering(u, m)' <=> Entering(u, m)
  BY <1>2, <1>3, DifferentAccesses DEF Writing, Reading, Entering
<1>5. \A m \in Lists : Readers(m)' = Readers(m)
  BY <1>4 DEF Readers
<1>6. ReadersCounted' /\ FirstAlone'
  BY <1>4, <1>5 DEF EndWrite, LockInv, ReadersCounted, FirstAlone
<1>7. \A m \in Lists : rw_sem'[m] = IF m = l THEN TRUE ELSE rw_sem[m]
  BY DEF EndWrite, LocksTypeOK, Locks
<1>8. l \in Lists => \A u \in Threads : ~Reading(u, l) /\ (Writing(u, l) => u = t)
  BY <1>1 DEF LockInv, WriterAlone, Writing
<1>9. ReadersHold'
  BY <1>4, <1>7, <1>8 DEF LockInv, ReadersHold
<1>10. WriterAlone'
  BY <1>4, <1>7, <1>8 DEF LockInv, WriterAlone
<1> QED
  BY <1>6, <1>9, <1>10 DEF Exclusion
(* Every step keeps writers alone.                                         *)
LEMMA LockStepExcludes ==
  ASSUME LocksTypeOK, LockInv, NEW t \in Threads, LockStep(t)
  PROVE  Exclusion'
<1> DEFINE Quiet ==
      TryRead(t) \/ CountWriter(t) \/ FirstWriter(t) \/ UncountWriter(t)
        \/ HoldListeners(t) \/ ReleaseListeners(t)
<1>1. ASSUME Quiet PROVE Exclusion'
  <2>1. \A b, p : Doing(t, b, p) => p \notin {"first", "inside"}
    BY <1>1 DEF Doing, TryRead, CountWriter, FirstWriter, UncountWriter, HoldListeners,
                ReleaseListeners
  <2>2. \A u \in Threads : \A b, p :
          /\ u # t => (Doing(u, b, p)' <=> Doing(u, b, p))
          /\ Doing(t, b, p)' => p \notin {"first", "inside"}
    <3>1. ASSUME TryRead(t) \/ CountWriter(t) \/ FirstWriter(t)
          PROVE  \E a, from : \E to \in {"tried", "firstWriter", "counted"} :
                   Doing(t, a, from) /\ Moves(t, to)
      <4>1. CASE TryRead(t)
        BY <4>1 DEF TryRead
      <4>2. CASE CountWriter(t)
        BY <4>2 DEF CountWriter
      <4>3. CASE FirstWriter(t)
        BY <4>3 DEF FirstWriter
      <4> QED
        BY <3>1, <4>1, <4>2, <4>3
    <3>2. CASE TryRead(t) \/ CountWriter(t) \/ FirstWriter(t)
      <4>1. PICK a, from : \E to \in {"tried", "firstWriter", "counted"} :
                             Doing(t, a, from) /\ Moves(t, to)
        BY <3>1, <3>2
      <4>2. PICK to \in {"tried", "firstWriter", "counted"} :
              Doing(t, a, from) /\ Moves(t, to)
        BY <4>1
      <4> QED
        BY <4>2, AfterMove
    <3>3. CASE UncountWriter(t) \/ HoldListeners(t) \/ ReleaseListeners(t)
      <4>1. Done(t)
        BY <3>3 DEF UncountWriter, HoldListeners, ReleaseListeners
      <4> QED
        BY <4>1, AfterDone
    <3> QED
      BY <1>1, <3>2, <3>3
  <2>3. UNCHANGED <<cnt_mutex, cnt>> /\ \A l \in Lists : rw_sem'[l] = rw_sem[l]
    BY <1>1 DEF TryRead, CountWriter, FirstWriter, UncountWriter, HoldListeners,
                ReleaseListeners
  <2> QED
    BY <2>1, <2>2, <2>3, QuietStep DEF Exclusion, Entering, Reading, Writing
<1>2. ASSUME NEW l \in Lists, BeginRead(t, l) \/ FirstRead(t, l) \/ EndRead(t, l)
      PROVE  Exclusion'
  BY <1>2, BeginReadExcludes, FirstReadExcludes, EndReadExcludes
<1>3. ASSUME NEW l \in Locks, BeginWrite(t, l) \/ EndWrite(t, l) PROVE Exclusion'
  BY <1>3, BeginWriteExcludes, EndWriteExcludes
<1> QED
  BY <1>1, <1>2, <1>3 DEF LockStep

LEMMA LocksStepPreserves ==
  LocksTypeOK /\ LockInv /\ [LocksNext]_<<vars, lockVars>> /\ TypeOK'
    => (LocksTypeOK /\ LockInv)'
<1> SUFFICES ASSUME LocksTypeOK, LockInv, [LocksNext]_<<vars, lockVars>>, TypeOK'
             PROVE  (LocksTypeOK /\ LockInv)'
  OBVIOUS
<1>types. (LocksTypeOK /\ IdleAtStart)'
  BY TypesPreserved DEF LockInv
<1> SUFFICES Exclusion'
  BY <1>types DEF LockInv, Exclusion
<1>1. CASE UNCHANGED lockVars
  BY <1>1, QuietStep DEF lockVars, listVars, Exclusion, Entering, Reading, Writing, Doing
<1>2. ASSUME NEW t \in Threads, todo[t] = <<>> \/ at[t] = "start",
             \A u \in Threads \ {t} : todo'[u] = todo[u],
             UNCHANGED <<at, listVars>>
      PROVE  Exclusion'
  <2>1. at[t] = "start"
    BY <1>2 DEF LockInv, IdleAtStart
  <2> QED
    BY <1>2, <2>1, QuietStep DEF listVars, Exclusion, Entering, Reading, Writing, Doing
<1>3. ASSUME NEW t \in Threads, TakeJob(t) PROVE Exclusion'
  BY <1>2, <1>3 DEF TakeJob, LocksTypeOK
<1>4. ASSUME NEW t \in Queries, RefuseFollowed(t) PROVE Exclusion'
  BY <1>2, <1>4 DEF RefuseFollowed, LocksTypeOK, Threads
<1>5. ASSUME NEW t \in Threads, LockStep(t) PROVE Exclusion'
  BY <1>5, LockStepExcludes
<1> QED
  BY <1>1, <1>3, <1>4, <1>5
  DEF LocksNext, QueryWorks, OutsiderWorks, EnterWithJob, AtGate, SaveStep, Threads, lockVars

(* Nobody uses a list at first.                                            *)
LEMMA LocksInitEstablishes == LocksInit => LocksTypeOK /\ LockInv
<1> SUFFICES ASSUME LocksInit PROVE LocksTypeOK /\ LockInv
  OBVIOUS
<1>1. TypeOK
  BY InitEstablishes DEF LocksInit, IInv
<1>2. LocksTypeOK
  BY <1>1 DEF LocksInit, LocksTypeOK, LockPlaces
<1>3. \A t \in Threads : \A a, p : ~Doing(t, a, p)
  BY DEF LocksInit, Doing
<1>4. \A l \in Lists : Readers(l) = {}
  BY <1>3 DEF Readers, Entering, Reading
<1>5. ReadersCounted
  BY <1>4, FS_EmptySet DEF LocksInit, ReadersCounted
<1> QED
  BY <1>2, <1>3, <1>5
  DEF LocksInit, LockInv, IdleAtStart, FirstAlone, ReadersHold, WriterAlone, Entering,
      Reading, Writing

(* The counts are those of the readers, and writers are alone.             *)
THEOREM LocksInvariant == LocksSpec => [](LocksTypeOK /\ LockInv)
<1>1. IInv => TypeOK
  BY DEF IInv
<1>2. LocksSpec => []TypeOK
  BY <1>1, LocksImplementQueries, QueryInvariant, PTL
<1> QED
  BY <1>2, LocksInitEstablishes, LocksStepPreserves, PTL DEF LocksSpec

(* Every variable keeps its type.                                          *)
THEOREM LocksTypes == LocksSpec => []LocksTypeOK
BY LocksInvariant, PTL

(* A thread that writes one of the four lists (databaseManager) is the     *)
(* only one that has its lock.                                             *)
THEOREM ListWritersExclude == LocksSpec => []WritersExclude
<1>1. LockInv => WritersExclude
  BY DEF LockInv, WriterAlone, WritersExclude, Reading, Writing
<1> QED
  BY <1>1, LocksInvariant, PTL

-----------------------------------------------------------------------------
(***************************************************************************)
(* The pending tweets: LOPT_readTry is of one reader that is about to be   *)
(* counted, or of all the writers from the first to the last.              *)
(***************************************************************************)
Trying(t) == Doing(t, Read("LOPT"), "tried") \/ Doing(t, Read("LOPT"), "first")
Heading(t) == Doing(t, Write("LOPT"), "firstWriter")
Keeping(t) == \E p \in {"counted", "inside", "wrote"} : Doing(t, Write("LOPT"), p)
PendingWriters == {t \in Threads : Heading(t) \/ Keeping(t)}

WritersCounted == LOPT_w_cnt = Cardinality(PendingWriters)
HeadAlone == \A t \in Threads : Heading(t) => ~LOPT_w_cnt_mut /\ PendingWriters = {t}
TryingAlone ==
  \A t \in Threads :
    Trying(t) => /\ ~LOPT_readTry
                 /\ \A u \in Threads : ~Keeping(u) /\ (Trying(u) => u = t)
KeepersKeep == \A t \in Threads : Keeping(t) => ~LOPT_readTry

TryInv == WritersCounted /\ HeadAlone /\ TryingAlone /\ KeepersKeep

LEMMA WritersFinite == IsFiniteSet(PendingWriters)
<1>1. IsFiniteSet(Threads)
  BY QueriesAssumption, LocksAssumption, FS_Union DEF Threads
<1> QED
  BY <1>1, FS_Subset DEF PendingWriters

(* Who is what for the pending tweets.                                     *)
SameRoles(u) ==
  /\ Trying(u)' <=> Trying(u)
  /\ Heading(u)' <=> Heading(u)
  /\ Keeping(u)' <=> Keeping(u)

(* A step of one thread.                                                   *)
LEMMA OthersStay ==
  ASSUME LocksTypeOK, NEW t \in Threads, LockStep(t)
  PROVE  \A u \in Threads \ {t} : /\ todo'[u] = todo[u]
                                  /\ SameRoles(u)
                                  /\ \A b, p : Doing(u, b, p)' <=> Doing(u, b, p)
<1>1. ASSUME NEW to, Moves(t, to) \/ Done(t)
      PROVE  \A u \in Threads \ {t} : todo'[u] = todo[u] /\ at'[u] = at[u]
  BY <1>1 DEF Moves, Done, LocksTypeOK
<1>2. \E to : Moves(t, to) \/ Done(t)
  <2>1. CASE TryRead(t) \/ CountWriter(t) \/ FirstWriter(t) \/ UncountWriter(t)
    BY <2>1 DEF TryRead, CountWriter, FirstWriter, UncountWriter
  <2>2. CASE HoldListeners(t) \/ ReleaseListeners(t)
    BY <2>2 DEF HoldListeners, ReleaseListeners
  <2>3. ASSUME NEW l \in Lists, BeginRead(t, l) \/ FirstRead(t, l) \/ EndRead(t, l)
        PROVE  \E to : Moves(t, to) \/ Done(t)
    BY <2>3 DEF BeginRead, FirstRead, EndRead
  <2>4. ASSUME NEW l \in Locks, BeginWrite(t, l) \/ EndWrite(t, l)
        PROVE  \E to : Moves(t, to) \/ Done(t)
    BY <2>4 DEF BeginWrite, EndWrite
  <2> QED
    BY <2>1, <2>2, <2>3, <2>4 DEF LockStep
<1> QED
  BY <1>1, <1>2 DEF Doing, SameRoles, Trying, Heading, Keeping

(* A step that leaves the roles and the locks of the pending tweets alone. *)
LEMMA QuietForPending ==
  ASSUME TryInv, \A u \in Threads : SameRoles(u),
         UNCHANGED <<LOPT_readTry, LOPT_w_cnt_mut, LOPT_w_cnt>>
  PROVE  TryInv'
<1>1. PendingWriters' = PendingWriters
  BY DEF PendingWriters, SameRoles
<1> QED
  BY <1>1 DEF TryInv, WritersCounted, HeadAlone, TryingAlone, KeepersKeep, SameRoles

(* What a thread at an access is for the pending tweets.                   *)
LEMMA RoleOf ==
  ASSUME NEW t, NEW a, NEW p, Doing(t, a, p)
  PROVE  /\ Trying(t) <=> a = Read("LOPT") /\ p \in {"tried", "first"}
         /\ Heading(t) <=> a = Write("LOPT") /\ p = "firstWriter"
         /\ Keeping(t) <=> a = Write("LOPT") /\ p \in {"counted", "inside", "wrote"}
BY DifferentAccesses DEF Trying, Heading, Keeping, Doing

(* And after it has moved.                                                 *)
LEMMA RoleAfterMove ==
  ASSUME LocksTypeOK, NEW t \in Threads, NEW a, NEW from, NEW to,
         Doing(t, a, from), Moves(t, to)
  PROVE  /\ Trying(t)' <=> a = Read("LOPT") /\ to \in {"tried", "first"}
         /\ Heading(t)' <=> a = Write("LOPT") /\ to = "firstWriter"
         /\ Keeping(t)' <=> a = Write("LOPT") /\ to \in {"counted", "inside", "wrote"}
<1>1. \A b, p : Doing(t, b, p)' <=> b = a /\ p = to
  BY AfterMove
<1> QED
  BY <1>1, DifferentAccesses DEF Trying, Heading, Keeping

(* Once it is done with an access it has no part.                          *)
LEMMA RoleAfterDone ==
  ASSUME LocksTypeOK, NEW t \in Threads, Done(t)
  PROVE  ~Trying(t)' /\ ~Heading(t)' /\ ~Keeping(t)'
<1>1. \A b, p : Doing(t, b, p)' => p = "start"
  BY AfterDone
<1> QED
  BY <1>1 DEF Trying, Heading, Keeping

(* A reader takes LOPT_readTry.                                            *)
LEMMA TryReadAlone ==
  ASSUME LocksTypeOK, TryInv, NEW t \in Threads, TryRead(t) PROVE TryInv'
<1>1. /\ Doing(t, Read("LOPT"), "start") /\ Moves(t, "tried")
      /\ LOPT_readTry /\ LOPT_readTry' = FALSE
      /\ UNCHANGED <<LOPT_w_cnt_mut, LOPT_w_cnt>>
  BY DEF TryRead
<1>2. ~Trying(t) /\ ~Heading(t) /\ ~Keeping(t)
  BY <1>1, RoleOf, DifferentAccesses
<1>3. Trying(t)' /\ ~Heading(t)' /\ ~Keeping(t)'
  BY <1>1, RoleAfterMove, DifferentAccesses
<1>4. \A u \in Threads \ {t} : SameRoles(u)
  BY OthersStay DEF LockStep
<1>5. PendingWriters' = PendingWriters
  BY <1>2, <1>3, <1>4 DEF PendingWriters, SameRoles
<1>6. \A u \in Threads : ~Trying(u) /\ ~Keeping(u)
  BY <1>1 DEF TryInv, TryingAlone, KeepersKeep
<1> QED
  BY <1>1, <1>3, <1>4, <1>5, <1>6
  DEF TryInv, WritersCounted, HeadAlone, TryingAlone, KeepersKeep, SameRoles

(* A reader that has it gives it back once it is inside.                   *)
LEMMA ReaderGivesBack ==
  ASSUME LocksTypeOK, TryInv, NEW t \in Threads, LockStep(t),
         NEW from \in {"tried", "first"}, NEW to \in {"first", "inside"},
         Doing(t, Read("LOPT"), from), Moves(t, to),
         UNCHANGED <<LOPT_w_cnt_mut, LOPT_w_cnt>>,
         LOPT_readTry' = IF to = "inside" THEN TRUE ELSE LOPT_readTry
  PROVE  TryInv'
<1>1. Trying(t) /\ ~Heading(t) /\ ~Keeping(t)
  BY RoleOf, DifferentAccesses
<1>2. (Trying(t)' <=> to = "first") /\ ~Heading(t)' /\ ~Keeping(t)'
  BY RoleAfterMove, DifferentAccesses
<1>3. \A u \in Threads \ {t} : SameRoles(u)
  BY OthersStay
<1>4. PendingWriters' = PendingWriters
  BY <1>1, <1>2, <1>3 DEF PendingWriters, SameRoles
<1>5. \A u \in Threads : ~Keeping(u) /\ (Trying(u) => u = t)
  BY <1>1 DEF TryInv, TryingAlone
<1>6. \A u \in Threads : ~Keeping(u)' /\ (Trying(u)' => u = t /\ to = "first")
  BY <1>2, <1>3, <1>5 DEF SameRoles
<1>7. ~LOPT_readTry
  BY <1>1 DEF TryInv, TryingAlone
<1>8. WritersCounted' /\ HeadAlone'
  BY <1>2, <1>3, <1>4 DEF TryInv, WritersCounted, HeadAlone, SameRoles
<1>9. TryingAlone' /\ KeepersKeep'
  BY <1>6, <1>7 DEF TryingAlone, KeepersKeep
<1> QED
  BY <1>8, <1>9 DEF TryInv

(* A writer that comes is the first, or one more of them.                  *)
LEMMA CountWriterKeeps ==
  ASSUME LocksTypeOK, TryInv, NEW t \in Threads, CountWriter(t) PROVE TryInv'
<1> DEFINE to == IF LOPT_w_cnt = 0 THEN "firstWriter" ELSE "counted"
<1>1. /\ Doing(t, Write("LOPT"), "start") /\ Moves(t, to)
      /\ LOPT_w_cnt_mut /\ LOPT_w_cnt' = LOPT_w_cnt + 1
      /\ LOPT_w_cnt_mut' = (LOPT_w_cnt > 0)
      /\ UNCHANGED LOPT_readTry
  BY DEF CountWriter
<1>2. ~Trying(t) /\ ~Heading(t) /\ ~Keeping(t)
  BY <1>1, RoleOf, DifferentAccesses
<1>3. ~Trying(t)' /\ (Heading(t)' <=> LOPT_w_cnt = 0) /\ (Keeping(t)' <=> LOPT_w_cnt # 0)
  BY <1>1, RoleAfterMove, DifferentAccesses
<1>4. \A u \in Threads \ {t} : SameRoles(u)
  BY OthersStay DEF LockStep
<1>5. PendingWriters' = PendingWriters \cup {t} /\ t \notin PendingWriters
  BY <1>2, <1>3, <1>4 DEF PendingWriters, SameRoles
<1>6. Cardinality(PendingWriters') = Cardinality(PendingWriters) + 1
  BY <1>5, WritersFinite, FS_AddElement
<1>7. WritersCounted'
  BY <1>1, <1>6 DEF TryInv, WritersCounted
<1>8. \A u \in Threads : ~Heading(u)
  BY <1>1 DEF TryInv, HeadAlone
<1>9. CASE LOPT_w_cnt = 0
  <2>1. PendingWriters = {}
    BY <1>9, WritersFinite, FS_EmptySet DEF TryInv, WritersCounted
  <2>2. \A u \in Threads : ~Keeping(u)
    BY <2>1 DEF PendingWriters
  <2>3. ~LOPT_w_cnt_mut'
    <3>1. ~(LOPT_w_cnt > 0)
      BY <1>9
    <3> QED
      BY <1>1, <3>1, Zenon
  <2>4. HeadAlone'
    BY <1>4, <1>5, <1>8, <2>1, <2>3 DEF HeadAlone, SameRoles
  <2>5. TryingAlone' /\ KeepersKeep'
    BY <1>1, <1>3, <1>4, <1>9, <2>2 DEF TryInv, TryingAlone, KeepersKeep, SameRoles
  <2> QED
    BY <1>7, <2>4, <2>5 DEF TryInv
<1>10. CASE LOPT_w_cnt # 0
  <2>1. PICK w \in Threads : Keeping(w)
    BY <1>8, <1>10, FS_EmptySet DEF TryInv, WritersCounted, PendingWriters
  <2>2. ~LOPT_readTry /\ \A u \in Threads : ~Trying(u)
    BY <2>1 DEF TryInv, TryingAlone, KeepersKeep
  <2>3. HeadAlone'
    BY <1>3, <1>4, <1>8, <1>10 DEF HeadAlone, SameRoles
  <2>4. TryingAlone' /\ KeepersKeep'
    BY <1>1, <1>3, <1>4, <2>2 DEF TryingAlone, KeepersKeep, SameRoles
  <2> QED
    BY <1>7, <2>3, <2>4 DEF TryInv
<1> QED
  BY <1>9, <1>10

(* The first writer takes LOPT_readTry for all of them.                    *)
LEMMA FirstWriterKeeps ==
  ASSUME LocksTypeOK, TryInv, NEW t \in Threads, FirstWriter(t) PROVE TryInv'
<1>1. /\ Doing(t, Write("LOPT"), "firstWriter") /\ Moves(t, "counted")
      /\ LOPT_readTry /\ LOPT_readTry' = FALSE /\ LOPT_w_cnt_mut' = TRUE
      /\ UNCHANGED LOPT_w_cnt
  BY DEF FirstWriter
<1>2. ~Trying(t) /\ Heading(t) /\ ~Keeping(t)
  BY <1>1, RoleOf, DifferentAccesses
<1>3. ~Trying(t)' /\ ~Heading(t)' /\ Keeping(t)'
  BY <1>1, RoleAfterMove, DifferentAccesses
<1>4. \A u \in Threads \ {t} : SameRoles(u)
  BY OthersStay DEF LockStep
<1>5. PendingWriters' = PendingWriters /\ PendingWriters = {t}
  BY <1>2, <1>3, <1>4 DEF PendingWriters, SameRoles, TryInv, HeadAlone
<1>6. \A u \in Threads : ~Trying(u)
  BY <1>1 DEF TryInv, TryingAlone
<1>7. \A u \in Threads : ~Heading(u)' /\ ~Trying(u)'
  BY <1>3, <1>4, <1>5, <1>6 DEF SameRoles, PendingWriters
<1> QED
  BY <1>1, <1>5, <1>7 DEF TryInv, WritersCounted, HeadAlone, TryingAlone, KeepersKeep

(* A writer goes through the list.                                         *)
LEMMA WriterStays ==
  ASSUME LocksTypeOK, TryInv, NEW t \in Threads, LockStep(t),
         NEW from \in {"counted", "inside"}, NEW to \in {"inside", "wrote"},
         Doing(t, Write("LOPT"), from), Moves(t, to),
         UNCHANGED <<LOPT_readTry, LOPT_w_cnt_mut, LOPT_w_cnt>>
  PROVE  TryInv'
<1>1. ~Trying(t) /\ ~Heading(t) /\ Keeping(t)
  BY RoleOf, DifferentAccesses
<1>2. ~Trying(t)' /\ ~Heading(t)' /\ Keeping(t)'
  BY RoleAfterMove, DifferentAccesses
<1> QED
  BY <1>1, <1>2, OthersStay, QuietForPending DEF SameRoles

(* The last writer gives LOPT_readTry back.                                *)
LEMMA UncountWriterGivesBack ==
  ASSUME LocksTypeOK, TryInv, NEW t \in Threads, UncountWriter(t) PROVE TryInv'
<1>1. /\ Doing(t, Write("LOPT"), "wrote") /\ Done(t)
      /\ LOPT_w_cnt_mut /\ LOPT_w_cnt' = LOPT_w_cnt - 1
      /\ UNCHANGED LOPT_w_cnt_mut
  BY DEF UncountWriter
<1>2. ~Trying(t) /\ ~Heading(t) /\ Keeping(t)
  BY <1>1, RoleOf, DifferentAccesses
<1>3. ~Trying(t)' /\ ~Heading(t)' /\ ~Keeping(t)'
  BY <1>1, RoleAfterDone
<1>4. \A u \in Threads \ {t} : SameRoles(u)
  BY OthersStay DEF LockStep
<1>5. PendingWriters' = PendingWriters \ {t} /\ t \in PendingWriters
  BY <1>2, <1>3, <1>4 DEF PendingWriters, SameRoles
<1>6. Cardinality(PendingWriters') = Cardinality(PendingWriters) - 1
  BY <1>5, WritersFinite, FS_RemoveElement
<1>7. WritersCounted'
  BY <1>1, <1>6 DEF TryInv, WritersCounted
<1>8. \A u \in Threads : ~Heading(u) /\ ~Heading(u)'
  BY <1>1, <1>3, <1>4 DEF TryInv, HeadAlone, SameRoles
<1>9. \A u \in Threads : ~Trying(u) /\ ~Trying(u)'
  BY <1>2, <1>3, <1>4 DEF TryInv, TryingAlone, SameRoles
<1>10. KeepersKeep'
  <2>1. CASE LOPT_w_cnt = 1
    <3>1. Cardinality(PendingWriters') = 0
      BY <1>6, <2>1 DEF TryInv, WritersCounted
    <3>2. IsFiniteSet(PendingWriters')
      BY <1>5, WritersFinite, FS_RemoveElement
    <3>3. PendingWriters' = {}
      BY <3>1, <3>2, FS_EmptySet
    <3> QED
      BY <3>3 DEF PendingWriters, KeepersKeep
  <2>2. CASE LOPT_w_cnt # 1
    <3>1. LOPT_readTry' = LOPT_readTry
      BY <2>2 DEF UncountWriter
    <3> QED
      BY <3>1, <1>2 DEF TryInv, KeepersKeep
  <2> QED
    BY <2>1, <2>2
<1> QED
  BY <1>7, <1>8, <1>9, <1>10 DEF TryInv, HeadAlone, TryingAlone

(* Every step keeps LOPT_readTry with those it is of.                      *)
LEMMA LockStepKeepsTry ==
  ASSUME LocksTypeOK, TryInv, NEW t \in Threads, LockStep(t) PROVE TryInv'
<1> DEFINE Pending == UNCHANGED <<LOPT_readTry, LOPT_w_cnt_mut, LOPT_w_cnt>>
<1>1. CASE TryRead(t) \/ CountWriter(t) \/ FirstWriter(t) \/ UncountWriter(t)
  BY <1>1, TryReadAlone, CountWriterKeeps, FirstWriterKeeps, UncountWriterGivesBack
<1>2. ASSUME NEW l \in Lists, BeginRead(t, l) \/ FirstRead(t, l), l = "LOPT"
      PROVE  TryInv'
  <2>1. CASE BeginRead(t, l)
    <3>1. CASE cnt[l] = 0 /\ Moves(t, "first") /\ UNCHANGED LOPT_readTry
      BY <1>2, <2>1, <3>1, ReaderGivesBack DEF BeginRead
    <3>2. CASE Moves(t, "inside") /\ LOPT_readTry' = TRUE
      BY <1>2, <2>1, <3>2, ReaderGivesBack DEF BeginRead
    <3> QED
      BY <1>2, <2>1, <3>1, <3>2 DEF BeginRead
  <2>2. CASE FirstRead(t, l)
    BY <1>2, <2>2, ReaderGivesBack DEF FirstRead
  <2> QED
    BY <1>2, <2>1, <2>2
<1>3. ASSUME NEW l \in Locks, BeginWrite(t, l) \/ EndWrite(t, l), l = "LOPT"
      PROVE  TryInv'
  BY <1>3, WriterStays DEF BeginWrite, EndWrite
<1>4. ASSUME NEW a, NEW from, Doing(t, a, from), from \in {"start", "first", "inside"},
             a # Write("LOPT"), a = Read("LOPT") => from # "first",
             Done(t) \/ \E to \in {"first", "inside"} : Moves(t, to) /\ a # Read("LOPT"),
             Pending
      PROVE  TryInv'
  <2>1. ~Trying(t) /\ ~Heading(t) /\ ~Keeping(t)
    BY <1>4, RoleOf
  <2>2. ~Trying(t)' /\ ~Heading(t)' /\ ~Keeping(t)'
    BY <1>4, RoleAfterDone, RoleAfterMove
  <2> QED
    BY <2>1, <2>2, <1>4, OthersStay, QuietForPending DEF SameRoles
<1>5. ASSUME NEW l \in Lists, BeginRead(t, l) \/ FirstRead(t, l), l # "LOPT"
      PROVE  TryInv'
  BY <1>4, <1>5, DifferentAccesses DEF BeginRead, FirstRead
<1>6. ASSUME NEW l \in Lists, EndRead(t, l) PROVE TryInv'
  BY <1>4, <1>6, DifferentAccesses DEF EndRead
<1>7. ASSUME NEW l \in Locks, BeginWrite(t, l) \/ EndWrite(t, l), l # "LOPT"
      PROVE  TryInv'
  BY <1>4, <1>7, DifferentAccesses DEF BeginWrite, EndWrite
<1>8. CASE HoldListeners(t) \/ ReleaseListeners(t)
  BY <1>4, <1>8, DifferentAccesses DEF HoldListeners, ReleaseListeners
<1> QED
  BY <1>1, <1>2, <1>3, <1>5, <1>6, <1>7, <1>8 DEF LockStep

(* A thread that changes jobs is in no list.                               *)
LEMMA NewJobIsNoRole ==
  ASSUME LocksTypeOK, IdleAtStart, NEW t \in Threads, todo[t] = <<>> \/ at[t] = "start",
         \A u \in Threads \ {t} : todo'[u] = todo[u],
         UNCHANGED <<at, listVars>>
  PROVE  /\ \A u \in Threads : SameRoles(u)
         /\ \A u \in Threads : \A b, p : p # "start" => (Doing(u, b, p)' <=> Doing(u, b, p))
<1>1. at[t] = "start"
  BY DEF IdleAtStart
<1> QED
  BY <1>1 DEF Doing, SameRoles, Trying, Heading, Keeping

LEMMA TryPreserved ==
  LocksTypeOK /\ IdleAtStart /\ TryInv /\ [LocksNext]_<<vars, lockVars>> => TryInv'
<1> SUFFICES ASSUME LocksTypeOK, IdleAtStart, TryInv, [LocksNext]_<<vars, lockVars>>
             PROVE  TryInv'
  OBVIOUS
<1>1. CASE UNCHANGED lockVars
  BY <1>1, QuietForPending DEF lockVars, listVars, SameRoles, Trying, Heading, Keeping, Doing
<1>2. ASSUME NEW t \in Threads, TakeJob(t) PROVE TryInv'
  BY <1>2, NewJobIsNoRole, QuietForPending DEF TakeJob, LocksTypeOK, listVars
<1>3. ASSUME NEW t \in Queries, RefuseFollowed(t) PROVE TryInv'
  BY <1>3, NewJobIsNoRole, QuietForPending DEF RefuseFollowed, LocksTypeOK, Threads, listVars
<1>4. ASSUME NEW t \in Threads, LockStep(t) PROVE TryInv'
  BY <1>4, LockStepKeepsTry
<1> QED
  BY <1>1, <1>2, <1>3, <1>4
  DEF LocksNext, QueryWorks, OutsiderWorks, EnterWithJob, AtGate, SaveStep, Threads, lockVars

LEMMA TryInit == LocksInit => TryInv
<1> SUFFICES ASSUME LocksInit PROVE TryInv
  OBVIOUS
<1>1. \A t \in Threads : \A a, p : ~Doing(t, a, p)
  BY DEF LocksInit, Doing
<1>2. PendingWriters = {}
  BY <1>1 DEF PendingWriters, Heading, Keeping
<1> QED
  BY <1>1, <1>2, FS_EmptySet
  DEF LocksInit, TryInv, WritersCounted, HeadAlone, TryingAlone, KeepersKeep, Trying,
      Heading, Keeping

(* LOPT_readTry is held by the writers together or by one reader.          *)
THEOREM TryInvariant == LocksSpec => [](LocksTypeOK /\ LockInv /\ TryInv)
<1>1. LocksTypeOK /\ LockInv /\ TryInv /\ [LocksNext]_<<vars, lockVars>> => TryInv'
  BY TryPreserved DEF LockInv
<1> QED
  BY <1>1, LocksInvariant, TryInit, PTL DEF LocksSpec

(* Only a reader that has LOPT_readTry gets in.                            *)
LEMMA OnlyTryingGetsIn ==
  ASSUME LocksTypeOK, IdleAtStart, [LocksNext]_<<vars, lockVars>>, NEW r \in Threads,
         ~Reading(r, "LOPT"), Reading(r, "LOPT")'
  PROVE  Trying(r)
<1>1. CASE UNCHANGED lockVars
  BY <1>1 DEF lockVars, Reading, Doing
<1>2. ASSUME NEW t \in Threads, TakeJob(t) PROVE Trying(r)
  BY <1>2, NewJobIsNoRole DEF TakeJob, LocksTypeOK, Reading
<1>3. ASSUME NEW t \in Queries, RefuseFollowed(t) PROVE Trying(r)
  BY <1>3, NewJobIsNoRole DEF RefuseFollowed, LocksTypeOK, Threads, Reading
<1>4. ASSUME NEW t \in Threads, LockStep(t) PROVE Trying(r)
  <2>1. t = r
    BY <1>4, OthersStay DEF Reading
  <2>2. ASSUME Done(t) PROVE FALSE
    BY <2>1, <2>2, AfterDone DEF Reading
  <2>3. ASSUME NEW a, NEW from, NEW to, Doing(t, a, from), Moves(t, to),
               a # Read("LOPT") \/ to # "inside"
        PROVE  FALSE
    BY <2>1, <2>3, AfterMove DEF Reading
  <2>4. CASE TryRead(t) \/ CountWriter(t) \/ FirstWriter(t)
    BY <2>3, <2>4 DEF TryRead, CountWriter, FirstWriter
  <2>5. CASE UncountWriter(t) \/ HoldListeners(t) \/ ReleaseListeners(t)
    BY <2>2, <2>5 DEF UncountWriter, HoldListeners, ReleaseListeners
  <2>6. ASSUME NEW l \in Lists, BeginRead(t, l) \/ FirstRead(t, l) PROVE Trying(r)
    <3>1. CASE l = "LOPT"
      BY <2>1, <2>6, <3>1 DEF BeginRead, FirstRead, Trying
    <3>2. CASE l # "LOPT"
      BY <2>3, <2>6, <3>2, DifferentAccesses DEF BeginRead, FirstRead
    <3> QED
      BY <3>1, <3>2
  <2>7. ASSUME NEW l \in Lists, EndRead(t, l) PROVE FALSE
    BY <2>2, <2>7 DEF EndRead
  <2>8. ASSUME NEW l \in Locks, BeginWrite(t, l) \/ EndWrite(t, l) PROVE FALSE
    BY <2>2, <2>3, <2>8, DifferentAccesses DEF BeginWrite, EndWrite
  <2> QED
    BY <1>4, <2>4, <2>5, <2>6, <2>7, <2>8 DEF LockStep
<1> QED
  BY <1>1, <1>2, <1>3, <1>4
  DEF LocksNext, QueryWorks, OutsiderWorks, EnterWithJob, AtGate, SaveStep, Threads, lockVars

(* Writers of the pending tweets go first: while one waits for the readers *)
(* inside, no other reader gets in (the LOPT locks of databaseManager).    *)
THEOREM PendingWritersFirst == LocksSpec => WritersFirst
<1> DEFINE NoneBefore ==
      \A w, r \in Threads :
        Doing(w, Write("LOPT"), "counted") /\ Doing(w, Write("LOPT"), "counted")' =>
          ~(~Doing(r, Read("LOPT"), "inside") /\ Doing(r, Read("LOPT"), "inside")')
<1>1. LocksTypeOK /\ LockInv /\ TryInv /\ [LocksNext]_<<vars, lockVars>> => NoneBefore
  <2> SUFFICES ASSUME LocksTypeOK, LockInv, TryInv, [LocksNext]_<<vars, lockVars>>,
                      NEW w \in Threads, NEW r \in Threads,
                      Doing(w, Write("LOPT"), "counted"),
                      ~Reading(r, "LOPT"), Reading(r, "LOPT")'
               PROVE  FALSE
    BY DEF Reading
  <2>1. Trying(r)
    BY OnlyTryingGetsIn DEF LockInv
  <2>2. Keeping(w)
    BY DEF Keeping
  <2> QED
    BY <2>1, <2>2 DEF TryInv, TryingAlone
<1> HIDE DEF NoneBefore
<1>2. LocksSpec => [][NoneBefore]_lockVars
  BY <1>1, TryInvariant, PTL DEF LocksSpec
<1> QED
  BY <1>2 DEF NoneBefore, WritersFirst

-----------------------------------------------------------------------------
(***************************************************************************)
(* Nobody waits for ever for everybody: of the threads that have work in   *)
(* the lists one finds the guard of its next step true.  SomeoneGoesOn     *)
(* says it with ENABLED; the guards are written out here.                  *)
(***************************************************************************)
CanGoOn(t) ==
  \/ Doing(t, Read("LOPT"), "start") /\ LOPT_readTry
  \/ Doing(t, Write("LOPT"), "start") /\ LOPT_w_cnt_mut
  \/ Doing(t, Write("LOPT"), "firstWriter") /\ LOPT_readTry
  \/ Doing(t, Write("LOPT"), "wrote") /\ LOPT_w_cnt_mut
  \/ \E l \in Lists :
       \/ Doing(t, Read(l), IF l = "LOPT" THEN "tried" ELSE "start") /\ cnt_mutex[l]
       \/ Doing(t, Read(l), "first") /\ rw_sem[l]
       \/ Doing(t, Read(l), "inside") /\ cnt_mutex[l]
  \/ \E l \in Locks :
       \/ Doing(t, Write(l), IF l = "LOPT" THEN "counted" ELSE "start") /\ rw_sem[l]
       \/ Doing(t, Write(l), "inside")
  \/ Doing(t, Hold, "start") /\ listenerProceedMUT
  \/ Doing(t, Release, "start")

NeverStuck ==
  (\E t \in Threads : todo[t] # <<>>) => \E t \in Threads : CanGoOn(t)

(* What a thread holds listenerProceedMUT for it gives back, and before it *)
(* takes it again.                                                         *)
Releases(job) ==
  \A i \in 1..Len(job) :
    job[i] = Hold => \E k \in (i + 1)..Len(job) :
                       /\ job[k] = Release
                       /\ \A j \in (i + 1)..(k - 1) : job[j] # Hold
JobsRelease == \A t \in Threads : \A job \in Jobs[t] : Releases(job)

(* The next mark that is left is a release.                                *)
HoldsIn(job) ==
  \E k \in 1..Len(job) : job[k] = Release /\ \A j \in 1..(k - 1) : job[j] # Hold

(* All jobs of the program do.                                             *)
LEMMA ProgramJobsRelease ==
  /\ Releases(postFollow)
  /\ Releases(postUnseen)
  /\ Releases(postUpdate)
  /\ Releases(checkPending)
  /\ Releases(findUser)
  /\ \A n \in Nat : Releases(retrieveTweets(n))
<1>1. \A l : Read(l) # Hold /\ Write(l) # Hold
  BY DifferentAccesses
<1>2. Releases(postFollow) /\ Releases(postUnseen) /\ Releases(findUser)
  BY <1>1 DEF Releases, postFollow, postUnseen, findUser
<1>3. Releases(checkPending)
  <2>1. Release # Hold /\ Len(checkPending) = 3 /\ checkPending[1] = Hold
        /\ checkPending[2] = Read("LOPT") /\ checkPending[3] = Release
    BY DEF checkPending, Hold, Release
  <2> QED
    BY <1>1, <2>1 DEF Releases
<1>4. Releases(postUpdate)
  <2> DEFINE seen == <<Hold, Read("LOF"), Write("LORT"), Read("LOF"), Write("LOPT"), Release>>
  <2>1. postUpdate = postUnseen \o seen
    BY DEF postUpdate
  <2>2. postUnseen \in Seq(Accesses) /\ seen \in Seq(Accesses)
    BY DEF postUnseen, Accesses, Locks, Lists
  <2>3. Len(postUnseen) = 2 /\ postUnseen[1] # Hold /\ postUnseen[2] # Hold
    BY <1>1 DEF postUnseen
  <2>4. /\ Len(seen) = 6 /\ seen[6] = Release /\ Release # Hold
        /\ seen[2] # Hold /\ seen[3] # Hold /\ seen[4] # Hold /\ seen[5] # Hold
    BY <1>1 DEF Hold, Release
  <2> HIDE DEF seen
  <2>5. /\ Len(postUpdate) = 8
        /\ \A i \in 1..8 : postUpdate[i] = IF i <= 2 THEN postUnseen[i] ELSE seen[i - 2]
    <3>1. /\ Len(postUnseen \o seen) = Len(postUnseen) + Len(seen)
          /\ \A i \in 1..Len(postUnseen) + Len(seen) :
               (postUnseen \o seen)[i] = IF i <= Len(postUnseen) THEN postUnseen[i]
                                        ELSE seen[i - Len(postUnseen)]
      BY <2>2, ConcatProperties
    <3> QED
      BY <2>1, <2>3, <2>4, <3>1
  <2> HIDE DEF postUpdate
  <2>6. postUpdate[8] = Release
    BY <2>4, <2>5
  <2>7. ASSUME NEW i \in 1..8, i # 3 PROVE postUpdate[i] # Hold
    BY <2>3, <2>4, <2>5, <2>7
  <2>8. 8 \in (3 + 1)..8 /\ \A j \in (3 + 1)..(8 - 1) : postUpdate[j] # Hold
    BY <2>7
  <2> QED
    BY <2>5, <2>6, <2>7, <2>8 DEF Releases
<1>5. ASSUME NEW n \in Nat PROVE Releases(retrieveTweets(n))
  <2> DEFINE many == [i \in 1..n |-> Write("LORT")]
  <2>1. /\ Len(retrieveTweets(n)) = 2 + n
        /\ \A i \in 1..(2 + n) : retrieveTweets(n)[i] \in {Read("LOPT"), Read("LORT"), Write("LORT")}
    BY DEF retrieveTweets
  <2> QED
    BY <1>1, <2>1 DEF Releases
<1> QED
  BY <1>2, <1>3, <1>4, <1>5

(* When an access is done.                                                 *)
LEMMA AfterTail ==
  ASSUME NEW job \in Seq(Accesses), job # <<>>, Releases(job)
  PROVE  /\ Releases(Tail(job))
         /\ Head(job) = Hold => HoldsIn(Tail(job)) /\ ~HoldsIn(job)
         /\ Head(job) \notin {Hold, Release} /\ HoldsIn(job) => HoldsIn(Tail(job))
<1> DEFINE n == Len(job)
           rest == Tail(job)
<1>1. /\ n \in Nat /\ n > 0 /\ Head(job) = job[1]
      /\ Len(rest) = n - 1
      /\ \A i \in 1..(n - 1) : rest[i] = job[i + 1]
  BY HeadTailProperties, LenProperties
<1> HIDE DEF n, rest
<1>n. n = Len(job)
  BY DEF n
<1>2. ASSUME NEW i \in 1..Len(rest), rest[i] = Hold
      PROVE  \E k \in (i + 1)..Len(rest) :
               rest[k] = Release /\ \A j \in (i + 1)..(k - 1) : rest[j] # Hold
  <2>1. i + 1 \in 1..n /\ job[i + 1] = Hold
    BY <1>1, <1>2
  <2>2. PICK k \in ((i + 1) + 1)..n :
          job[k] = Release /\ \A j \in ((i + 1) + 1)..(k - 1) : job[j] # Hold
    BY <2>1, <1>n DEF Releases
  <2>3. k - 1 \in (i + 1)..Len(rest) /\ rest[k - 1] = Release
    BY <1>1, <2>2
  <2>4. ASSUME NEW j \in (i + 1)..((k - 1) - 1) PROVE rest[j] # Hold
    <3>1. j + 1 \in ((i + 1) + 1)..(k - 1) /\ j \in 1..(n - 1)
      BY <1>1, <2>2
    <3> QED
      BY <3>1, <1>1, <2>2
  <2> QED
    BY <2>3, <2>4
<1>3. ASSUME Head(job) = Hold PROVE HoldsIn(rest) /\ ~HoldsIn(job)
  <2>1. 1 \in 1..n /\ job[1] = Hold
    BY <1>1, <1>3
  <2>2. PICK k \in (1 + 1)..n :
          job[k] = Release /\ \A j \in (1 + 1)..(k - 1) : job[j] # Hold
    BY <2>1, <1>n DEF Releases
  <2>3. k - 1 \in 1..Len(rest) /\ rest[k - 1] = Release
    BY <1>1, <2>2
  <2>4. ASSUME NEW j \in 1..((k - 1) - 1) PROVE rest[j] # Hold
    <3>1. j + 1 \in (1 + 1)..(k - 1) /\ j \in 1..(n - 1)
      BY <1>1, <2>2
    <3> QED
      BY <3>1, <1>1, <2>2
  <2>5. ASSUME NEW m \in 1..n, job[m] = Release, \A j \in 1..(m - 1) : job[j] # Hold
        PROVE  FALSE
    <3>1. m # 1
      BY <2>1, <2>5 DEF Hold, Release
    <3>2. 1 \in 1..(m - 1)
      BY <3>1, <1>1
    <3> QED
      BY <2>1, <2>5, <3>2
  <2> QED
    BY <2>3, <2>4, <2>5, <1>n DEF HoldsIn
<1>4. ASSUME Head(job) \notin {Hold, Release}, HoldsIn(job) PROVE HoldsIn(rest)
  <2>1. PICK k \in 1..n : job[k] = Release /\ \A j \in 1..(k - 1) : job[j] # Hold
    BY <1>4, <1>n DEF HoldsIn
  <2>2. k # 1
    BY <1>1, <1>4, <2>1
  <2>3. k - 1 \in 1..Len(rest) /\ rest[k - 1] = Release
    BY <1>1, <2>1, <2>2
  <2>4. ASSUME NEW j \in 1..((k - 1) - 1) PROVE rest[j] # Hold
    <3>1. j + 1 \in 1..(k - 1) /\ j \in 1..(n - 1)
      BY <1>1, <2>1
    <3> QED
      BY <3>1, <1>1, <2>1
  <2> QED
    BY <2>3, <2>4 DEF HoldsIn
<1> QED
  BY <1>2, <1>3, <1>4 DEF Releases, rest

-----------------------------------------------------------------------------
(* Where a thread can be at an access.                                     *)
Fits(a, p) ==
  \/ p = "start"
  \/ \E l \in Lists : a = Read(l) /\ (p \in {"first", "inside"} \/ (l = "LOPT" /\ p = "tried"))
  \/ \E l \in Locks : a = Write(l) /\ (p = "inside" \/ (l = "LOPT" /\ p \in {"firstWriter", "counted", "wrote"}))

PlacesFit == \A t \in Threads : todo[t] # <<>> => Fits(Head(todo[t]), at[t])
TodoReleases == \A t \in Threads : Releases(todo[t])

(* What is taken somebody has.                                             *)
TryTaken == ~LOPT_readTry => \E t \in Threads : Trying(t) \/ Keeping(t)
CountTaken == ~LOPT_w_cnt_mut => \E t \in Threads : Heading(t)
MutexTaken == \A l \in Lists : ~cnt_mutex[l] => \E t \in Threads : Entering(t, l)
LockTaken ==
  \A l \in Locks : ~rw_sem[l] => \E t \in Threads : Writing(t, l) \/ (l \in Lists /\ Reading(t, l))
ProceedTaken == ~listenerProceedMUT => \E t \in Threads : HoldsIn(todo[t])

TakenInv ==
  PlacesFit /\ TodoReleases /\ TryTaken /\ CountTaken /\ MutexTaken /\ LockTaken /\ ProceedTaken

(* If nobody could go on, each in turn of those that hold what others wait *)
(* for would not be there: those inside a list, the first readers, the     *)
(* readers and writers at the door, the holders of LOPT_readTry; and those *)
(* that hold listeners up, since nobody with that right waits for it.      *)
LEMMA TakenMeansNeverStuck ==
  LocksTypeOK /\ LockInv /\ TryInv /\ TakenInv => NeverStuck
<1> SUFFICES ASSUME LocksTypeOK, LockInv, TryInv, TakenInv,
                    NEW t \in Threads, todo[t] # <<>>,
                    \A u \in Threads : ~CanGoOn(u)
             PROVE  FALSE
  BY DEF NeverStuck
<1>1. \A u \in Threads, l \in Locks : ~Writing(u, l)
  BY DEF CanGoOn, Writing
<1>2. \A u \in Threads, l \in Lists : ~Reading(u, l)
  <2> SUFFICES ASSUME NEW u \in Threads, NEW l \in Lists, Reading(u, l) PROVE FALSE
    OBVIOUS
  <2>1. ~cnt_mutex[l]
    BY DEF CanGoOn, Reading
  <2>2. PICK v \in Threads : Entering(v, l)
    BY <2>1 DEF TakenInv, MutexTaken
  <2>3. u \in Readers(l) /\ Readers(l) = {v}
    BY <2>2 DEF LockInv, FirstAlone, Readers
  <2> QED
    BY <2>2, <2>3 DEF Entering, Reading, Doing
<1>3. \A l \in Locks : rw_sem[l]
  BY <1>1, <1>2 DEF TakenInv, LockTaken
<1>4. \A u \in Threads, l \in Lists : ~Entering(u, l)
  BY <1>3 DEF CanGoOn, Entering, Locks
<1>5. \A l \in Lists : cnt_mutex[l]
  BY <1>4 DEF TakenInv, MutexTaken
<1>6. \A u \in Threads : ~Trying(u)
  BY <1>4, <1>5 DEF CanGoOn, Trying, Entering, Lists
<1>7. \A u \in Threads : ~Keeping(u)
  <2> SUFFICES ASSUME NEW u \in Threads, Keeping(u) PROVE FALSE
    OBVIOUS
  <2>1. "LOPT" \in Locks
    BY DEF Locks, Lists
  <2>2. Doing(u, Write("LOPT"), "wrote") /\ ~LOPT_w_cnt_mut
    BY <1>3, <2>1 DEF CanGoOn, Keeping
  <2>3. PICK v \in Threads : Heading(v)
    BY <2>2 DEF TakenInv, CountTaken
  <2>4. u \in PendingWriters /\ PendingWriters = {v}
    BY <2>3 DEF TryInv, HeadAlone, PendingWriters
  <2> QED
    BY <2>2, <2>3, <2>4 DEF Heading, Doing
<1>8. LOPT_readTry
  BY <1>6, <1>7 DEF TakenInv, TryTaken
<1>9. \A u \in Threads : ~Heading(u)
  BY <1>8 DEF CanGoOn, Heading
<1>10. LOPT_w_cnt_mut
  BY <1>9 DEF TakenInv, CountTaken
<1>11. ASSUME NEW u \in Threads, todo[u] # <<>> PROVE Head(todo[u]) = Hold /\ ~listenerProceedMUT
  <2> DEFINE a == Head(todo[u])
  <2>1. Doing(u, a, at[u]) /\ Fits(a, at[u])
    BY <1>11 DEF Doing, TakenInv, PlacesFit
  <2>2. a \in Accesses
    BY <1>11, HeadTailProperties DEF LocksTypeOK
  <2> HIDE DEF a
  <2>3. ASSUME NEW l \in Lists, a = Read(l) PROVE FALSE
    <3>1. at[u] \in {"start", "tried", "first", "inside"} /\ (at[u] = "tried" => l = "LOPT")
      BY <2>1, <2>3, DifferentAccesses DEF Fits
    <3>2. at[u] # "first" /\ at[u] # "inside"
      BY <1>2, <1>4, <2>1, <2>3 DEF Entering, Reading
    <3>3. CASE l = "LOPT"
      BY <1>6, <1>8, <2>1, <2>3, <3>1, <3>2, <3>3 DEF CanGoOn, Trying
    <3>4. CASE l # "LOPT"
      BY <1>5, <2>1, <2>3, <3>1, <3>2, <3>4 DEF CanGoOn
    <3> QED
      BY <3>3, <3>4
  <2>4. ASSUME NEW l \in Locks, a = Write(l) PROVE FALSE
    <3>1. /\ at[u] \in {"start", "inside", "firstWriter", "counted", "wrote"}
          /\ at[u] \in {"firstWriter", "counted", "wrote"} => l = "LOPT"
      BY <2>1, <2>4, DifferentAccesses DEF Fits
    <3>2. at[u] # "inside"
      BY <1>1, <2>1, <2>4 DEF Writing
    <3>3. CASE l = "LOPT"
      BY <1>7, <1>9, <1>10, <2>1, <2>4, <3>1, <3>2, <3>3 DEF CanGoOn, Keeping, Heading
    <3>4. CASE l # "LOPT"
      BY <1>3, <2>1, <2>4, <3>1, <3>2, <3>4 DEF CanGoOn
    <3> QED
      BY <3>3, <3>4
  <2>5. a \in {Hold, Release}
    BY <2>2, <2>3, <2>4 DEF Accesses
  <2>6. at[u] = "start"
    BY <2>1, <2>5, DifferentAccesses DEF Fits
  <2> QED
    BY <2>1, <2>5, <2>6 DEF CanGoOn, a
<1>12. PICK u \in Threads : HoldsIn(todo[u])
  BY <1>11 DEF TakenInv, ProceedTaken
<1>13. todo[u] # <<>> /\ todo[u] \in Seq(Accesses)
  BY <1>12, EmptySeq DEF HoldsIn, LocksTypeOK
<1> QED
  BY <1>11, <1>12, <1>13, AfterTail DEF TakenInv, TodoReleases

(* What is left to do after an access.                                     *)
LEMMA WorkAfterDone ==
  ASSUME LocksTypeOK, PlacesFit, TodoReleases, NEW t \in Threads, todo[t] # <<>>, Done(t)
  PROVE  /\ PlacesFit' /\ TodoReleases'
         /\ Head(todo[t]) = Hold => HoldsIn(todo'[t])
         /\ Head(todo[t]) \notin {Hold, Release} /\ HoldsIn(todo[t]) => HoldsIn(todo'[t])
<1>1. /\ todo' = [todo EXCEPT ![t] = Tail(todo[t])]
      /\ at' = [at EXCEPT ![t] = "start"]
      /\ todo[t] \in Seq(Accesses)
  BY DEF Done, LocksTypeOK
<1>2. /\ todo'[t] = Tail(todo[t]) /\ at'[t] = "start"
      /\ \A u \in Threads \ {t} : todo'[u] = todo[u] /\ at'[u] = at[u]
  BY <1>1 DEF LocksTypeOK
<1>3. PlacesFit'
  BY <1>2 DEF PlacesFit, Fits
<1>4. TodoReleases'
  BY <1>1, <1>2, AfterTail DEF TodoReleases
<1> QED
  BY <1>1, <1>2, <1>3, <1>4, AfterTail DEF TodoReleases

LEMMA WorkAfterMove ==
  ASSUME LocksTypeOK, PlacesFit, TodoReleases, NEW t \in Threads, NEW a, NEW from, NEW to,
         Doing(t, a, from), Moves(t, to), Fits(a, to)
  PROVE  PlacesFit' /\ TodoReleases' /\ todo' = todo
<1>1. /\ todo' = todo /\ Head(todo[t]) = a /\ at'[t] = to
      /\ \A u \in Threads \ {t} : at'[u] = at[u]
  BY DEF Doing, Moves, LocksTypeOK
<1> QED
  BY <1>1 DEF PlacesFit, TodoReleases

(* The works of all threads, and who holds listeners up.                   *)
Works == PlacesFit /\ TodoReleases /\ ProceedTaken

LEMMA LockStepKeepsWorks ==
  ASSUME LocksTypeOK, Works, NEW t \in Threads, LockStep(t) PROVE Works'
<1>others. \A u \in Threads \ {t} : todo'[u] = todo[u]
  BY OthersStay
<1>1. ASSUME NEW a, NEW from, Doing(t, a, from), Done(t), a \notin {Hold, Release},
             UNCHANGED listenerProceedMUT
      PROVE  Works'
  <2>1. todo[t] # <<>> /\ Head(todo[t]) = a
    BY <1>1 DEF Doing
  <2>2. PlacesFit' /\ TodoReleases' /\ (HoldsIn(todo[t]) => HoldsIn(todo'[t]))
    BY <1>1, <2>1, WorkAfterDone DEF Works
  <2> QED
    BY <1>others, <1>1, <2>2 DEF Works, ProceedTaken
<1>2. ASSUME NEW a, NEW from, NEW to, Doing(t, a, from), Moves(t, to), Fits(a, to),
             UNCHANGED listenerProceedMUT
      PROVE  Works'
  BY <1>2, WorkAfterMove DEF Works, ProceedTaken
<1>3. CASE TryRead(t) \/ CountWriter(t) \/ FirstWriter(t)
  BY <1>2, <1>3 DEF TryRead, CountWriter, FirstWriter, Fits, Lists, Locks
<1>4. CASE UncountWriter(t)
  BY <1>1, <1>4, DifferentAccesses DEF UncountWriter
<1>5. ASSUME NEW l \in Lists, BeginRead(t, l) PROVE Works'
  <2>1. Fits(Read(l), "first") /\ Fits(Read(l), "inside")
    BY DEF Fits
  <2>2. Moves(t, "first") \/ Moves(t, "inside")
    BY <1>5 DEF BeginRead
  <2> QED
    BY <1>2, <1>5, <2>1, <2>2 DEF BeginRead
<1>6. ASSUME NEW l \in Lists, FirstRead(t, l) PROVE Works'
  BY <1>2, <1>6 DEF FirstRead, Fits
<1>7. ASSUME NEW l \in Lists, EndRead(t, l) PROVE Works'
  BY <1>1, <1>7, DifferentAccesses DEF EndRead
<1>8. ASSUME NEW l \in Locks, BeginWrite(t, l) PROVE Works'
  BY <1>2, <1>8 DEF BeginWrite, Fits
<1>9. ASSUME NEW l \in Locks, EndWrite(t, l) PROVE Works'
  <2>1. CASE l = "LOPT"
    BY <1>2, <1>9, <2>1 DEF EndWrite, Fits
  <2>2. CASE l # "LOPT"
    BY <1>1, <1>9, <2>2, DifferentAccesses DEF EndWrite
  <2> QED
    BY <2>1, <2>2
<1>10. CASE HoldListeners(t)
  <2>1. todo[t] # <<>> /\ Head(todo[t]) = Hold /\ Done(t)
    BY <1>10 DEF HoldListeners, Doing
  <2> QED
    BY <2>1, WorkAfterDone DEF Works, ProceedTaken
<1>11. CASE ReleaseListeners(t)
  <2>1. todo[t] # <<>> /\ Done(t) /\ listenerProceedMUT'
    BY <1>11 DEF ReleaseListeners, Doing
  <2> QED
    BY <2>1, WorkAfterDone DEF Works, ProceedTaken
<1> QED
  BY <1>3, <1>4, <1>5, <1>6, <1>7, <1>8, <1>9, <1>10, <1>11 DEF LockStep

(* LOPT_readTry and the mutex of the writers' count.                       *)
LEMMA LockStepKeepsTaken ==
  ASSUME LocksTypeOK, TryInv, TryTaken, CountTaken, NEW t \in Threads, LockStep(t)
  PROVE  TryTaken' /\ CountTaken'
<1>others. \A u \in Threads \ {t} : SameRoles(u)
  BY OthersStay
<1>same. ASSUME ~Trying(t), ~Keeping(t), ~Heading(t),
                UNCHANGED <<LOPT_readTry, LOPT_w_cnt_mut>>
         PROVE  TryTaken' /\ CountTaken'
  BY <1>same, <1>others DEF TryTaken, CountTaken, SameRoles
<1>1. CASE TryRead(t)
  <2>1. Doing(t, Read("LOPT"), "start") /\ Moves(t, "tried") /\ UNCHANGED LOPT_w_cnt_mut
    BY <1>1 DEF TryRead
  <2>2. Trying(t)' /\ ~Heading(t)
    BY <2>1, RoleOf, RoleAfterMove, DifferentAccesses
  <2> QED
    BY <2>1, <2>2, <1>others DEF TryTaken, CountTaken, SameRoles
<1>2. CASE CountWriter(t)
  <2> DEFINE to == IF LOPT_w_cnt = 0 THEN "firstWriter" ELSE "counted"
  <2>1. /\ Doing(t, Write("LOPT"), "start") /\ Moves(t, to) /\ UNCHANGED LOPT_readTry
        /\ LOPT_w_cnt_mut' = (LOPT_w_cnt > 0)
    BY <1>2 DEF CountWriter
  <2>2. ~Trying(t) /\ ~Keeping(t)
    BY <2>1, RoleOf, DifferentAccesses
  <2>3. TryTaken'
    BY <2>1, <2>2, <1>others DEF TryTaken, SameRoles
  <2>4. CASE LOPT_w_cnt = 0
    BY <2>1, <2>3, <2>4, RoleAfterMove DEF CountTaken
  <2>5. CASE LOPT_w_cnt # 0
    <3>1. LOPT_w_cnt > 0
      BY <2>5, WritersFinite, FS_CardinalityType DEF TryInv, WritersCounted
    <3>2. LOPT_w_cnt_mut'
      BY <2>1, <3>1, Zenon
    <3> QED
      BY <2>3, <3>2 DEF CountTaken
  <2> QED
    BY <2>4, <2>5
<1>3. CASE FirstWriter(t)
  <2>1. /\ Doing(t, Write("LOPT"), "firstWriter") /\ Moves(t, "counted") /\ LOPT_w_cnt_mut'
    BY <1>3 DEF FirstWriter
  <2>2. Keeping(t)'
    BY <2>1, RoleAfterMove
  <2> QED
    BY <2>1, <2>2 DEF TryTaken, CountTaken
<1>4. CASE UncountWriter(t)
  <2>1. Doing(t, Write("LOPT"), "wrote") /\ LOPT_w_cnt_mut /\ LOPT_w_cnt_mut'
    BY <1>4 DEF UncountWriter
  <2>2. Keeping(t)
    BY <2>1, RoleOf
  <2>3. CASE LOPT_w_cnt = 1
    BY <1>4, <2>1, <2>3 DEF UncountWriter, TryTaken, CountTaken
  <2>4. CASE LOPT_w_cnt # 1
    <3>1. PendingWriters # {t}
      BY <2>4, FS_Singleton DEF TryInv, WritersCounted
    <3>2. PICK u \in PendingWriters : u # t
      BY <2>2, <3>1 DEF PendingWriters
    <3>3. Keeping(u) /\ u \in Threads
      BY <2>1, <3>2 DEF PendingWriters, TryInv, HeadAlone
    <3>4. Keeping(u)'
      BY <3>2, <3>3, <1>others DEF SameRoles
    <3> QED
      BY <2>1, <3>3, <3>4 DEF TryTaken, CountTaken
  <2> QED
    BY <2>3, <2>4
<1>5. ASSUME NEW l \in Lists, BeginRead(t, l) \/ FirstRead(t, l) \/ EndRead(t, l)
      PROVE  TryTaken' /\ CountTaken'
  <2>1. UNCHANGED LOPT_w_cnt_mut
    BY <1>5 DEF BeginRead, FirstRead, EndRead
  <2>2. PICK p \in {"start", "tried", "first", "inside"} : Doing(t, Read(l), p)
    BY <1>5 DEF BeginRead, FirstRead, EndRead
  <2>3. ~Keeping(t) /\ ~Heading(t) /\ (Trying(t) <=> l = "LOPT" /\ p \in {"tried", "first"})
    BY <2>2, RoleOf, DifferentAccesses
  <2>4. CASE UNCHANGED LOPT_readTry /\ ~Trying(t)
    BY <2>1, <2>3, <2>4, <1>same
  <2>5. CountTaken'
    BY <2>1, <2>3, <1>others DEF CountTaken, SameRoles
  <2>6. CASE Trying(t)
    <3>1. l = "LOPT" /\ p \in {"tried", "first"}
      BY <2>3, <2>6
    <3>2. ~EndRead(t, l)
      BY <2>2, <3>1 DEF EndRead, Doing
    <3>3. LOPT_readTry' \/ Moves(t, "first")
      BY <1>5, <3>1, <3>2 DEF BeginRead, FirstRead
    <3>4. Moves(t, "first") => Trying(t)'
      BY <2>2, <3>1, RoleAfterMove
    <3> QED
      BY <2>5, <3>3, <3>4 DEF TryTaken
  <2>7. CASE ~Trying(t)
    <3>1. l # "LOPT" \/ EndRead(t, l)
      BY <1>5, <2>2, <2>7 DEF BeginRead, FirstRead, Trying
    <3>2. UNCHANGED LOPT_readTry
      BY <1>5, <3>1 DEF BeginRead, FirstRead, EndRead
    <3> QED
      BY <2>4, <2>7, <3>2
  <2> QED
    BY <2>6, <2>7
<1>6. ASSUME NEW l \in Locks, BeginWrite(t, l) \/ EndWrite(t, l)
      PROVE  TryTaken' /\ CountTaken'
  <2>1. UNCHANGED <<LOPT_readTry, LOPT_w_cnt_mut>>
    BY <1>6 DEF BeginWrite, EndWrite
  <2>2. CASE l = "LOPT"
    <3>1. PICK from \in {"counted", "inside"} : Doing(t, Write(l), from)
      BY <1>6, <2>2 DEF BeginWrite, EndWrite
    <3>2. PICK to \in {"inside", "wrote"} : Moves(t, to)
      BY <1>6, <2>2 DEF BeginWrite, EndWrite
    <3>3. Keeping(t)' /\ ~Heading(t)
      BY <2>2, <3>1, <3>2, RoleOf, RoleAfterMove
    <3> QED
      BY <2>1, <3>3, <1>others DEF TryTaken, CountTaken, SameRoles
  <2>3. CASE l # "LOPT"
    <3>1. PICK from \in {"start", "inside"} : Doing(t, Write(l), from)
      BY <1>6, <2>3 DEF BeginWrite, EndWrite
    <3>2. ~Trying(t) /\ ~Keeping(t) /\ ~Heading(t)
      BY <2>3, <3>1, RoleOf, DifferentAccesses
    <3> QED
      BY <2>1, <3>2, <1>same
  <2> QED
    BY <2>2, <2>3
<1>7. CASE HoldListeners(t) \/ ReleaseListeners(t)
  <2>1. /\ Doing(t, Hold, "start") \/ Doing(t, Release, "start")
        /\ UNCHANGED <<LOPT_readTry, LOPT_w_cnt_mut>>
    BY <1>7 DEF HoldListeners, ReleaseListeners
  <2>2. ~Trying(t) /\ ~Keeping(t) /\ ~Heading(t)
    BY <2>1, RoleOf
  <2> QED
    BY <2>1, <2>2, <1>same
<1> QED
  BY <1>1, <1>2, <1>3, <1>4, <1>5, <1>6, <1>7 DEF LockStep

(* The mutexes of the readers' counts, and the semaphores of the lists.    *)
Has(t, l) == Writing(t, l) \/ (l \in Lists /\ Reading(t, l))

LEMMA LockStepKeepsLocks ==
  ASSUME LocksTypeOK, LockInv, MutexTaken, LockTaken, NEW t \in Threads, LockStep(t)
  PROVE  MutexTaken' /\ LockTaken'
<1>others. \A u \in Threads \ {t} : \A l : /\ Entering(u, l)' <=> Entering(u, l)
                                           /\ Has(u, l)' <=> Has(u, l)
  BY OthersStay DEF Entering, Reading, Writing, Has
<1>mutex. ASSUME NEW m \in Lists, ~cnt_mutex'[m] => ~cnt_mutex[m], ~Entering(t, m)
          PROVE  ~cnt_mutex'[m] => \E u \in Threads : Entering(u, m)'
  BY <1>mutex, <1>others DEF MutexTaken
<1>lock. ASSUME NEW m \in Locks, ~rw_sem'[m] => ~rw_sem[m], ~Has(t, m)
         PROVE  ~rw_sem'[m] => \E u \in Threads : Has(u, m)'
  BY <1>lock, <1>others DEF LockTaken, Has
<1>goal. ASSUME \A m \in Lists : ~cnt_mutex'[m] => \E u \in Threads : Entering(u, m)',
                \A m \in Locks : ~rw_sem'[m] => \E u \in Threads : Has(u, m)'
         PROVE  MutexTaken' /\ LockTaken'
  BY <1>goal DEF MutexTaken, LockTaken, Has
<1>1. ASSUME NEW a, NEW p, Doing(t, a, p), p \notin {"first", "inside"},
             UNCHANGED <<cnt_mutex, rw_sem>>
      PROVE  MutexTaken' /\ LockTaken'
  <2>1. \A m : ~Entering(t, m) /\ ~Has(t, m)
    BY <1>1 DEF Entering, Reading, Writing, Has, Doing
  <2> QED
    BY <2>1, <1>1, <1>mutex, <1>lock, <1>goal
<1>2. CASE TryRead(t) \/ CountWriter(t) \/ FirstWriter(t) \/ UncountWriter(t)
             \/ HoldListeners(t) \/ ReleaseListeners(t)
  <2>1. CASE TryRead(t) \/ CountWriter(t)
    BY <1>1, <2>1 DEF TryRead, CountWriter
  <2>2. CASE FirstWriter(t)
    BY <1>1, <2>2 DEF FirstWriter
  <2>3. CASE UncountWriter(t)
    BY <1>1, <2>3 DEF UncountWriter
  <2>4. CASE HoldListeners(t) \/ ReleaseListeners(t)
    BY <1>1, <2>4 DEF HoldListeners, ReleaseListeners
  <2> QED
    BY <1>2, <2>1, <2>2, <2>3, <2>4
<1>3. ASSUME NEW l \in Lists, BeginRead(t, l) PROVE MutexTaken' /\ LockTaken'
  <2>1. PICK p \in {"start", "tried"} : Doing(t, Read(l), p)
    BY <1>3 DEF BeginRead
  <2>2. \A m : ~Entering(t, m) /\ ~Has(t, m)
    BY <2>1 DEF Entering, Reading, Writing, Has, Doing
  <2>3. \A m \in Locks : ~rw_sem'[m] => \E u \in Threads : Has(u, m)'
    BY <2>2, <1>3, <1>lock DEF BeginRead
  <2>4. ASSUME NEW m \in Lists, ~cnt_mutex'[m]
        PROVE  \E u \in Threads : Entering(u, m)'
    <3>1. CASE m = l /\ cnt[l] = 0
      <4>1. Moves(t, "first")
        BY <1>3, <3>1 DEF BeginRead
      <4>2. Doing(t, Read(l), "first")'
        BY <2>1, <4>1, AfterMove
      <4> QED
        BY <3>1, <4>2 DEF Entering
    <3>2. CASE ~(m = l /\ cnt[l] = 0)
      <4>1. cnt_mutex'[m] = cnt_mutex[m]
        BY <1>3, <3>2 DEF BeginRead, LocksTypeOK
      <4> QED
        BY <4>1, <2>2, <2>4, <1>mutex
    <3> QED
      BY <3>1, <3>2
  <2> QED
    BY <2>3, <2>4, <1>goal
<1>4. ASSUME NEW l \in Lists, FirstRead(t, l) PROVE MutexTaken' /\ LockTaken'
  <2>1. /\ Doing(t, Read(l), "first") /\ Moves(t, "inside")
        /\ rw_sem' = [rw_sem EXCEPT ![l] = FALSE]
        /\ cnt_mutex' = [cnt_mutex EXCEPT ![l] = TRUE]
    BY <1>4 DEF FirstRead
  <2>2. \A m : ~Has(t, m)
    BY <2>1 DEF Reading, Writing, Has, Doing
  <2>3. Has(t, l)'
    BY <2>1, AfterMove DEF Has, Reading
  <2>4. ASSUME NEW m \in Locks, ~rw_sem'[m] PROVE \E u \in Threads : Has(u, m)'
    BY <2>1, <2>2, <2>3, <2>4, <1>lock DEF LocksTypeOK
  <2>5. ASSUME NEW m \in Lists, ~cnt_mutex'[m] PROVE \E u \in Threads : Entering(u, m)'
    <3>1. m # l /\ cnt_mutex'[m] = cnt_mutex[m]
      BY <2>1, <2>5 DEF LocksTypeOK
    <3>2. ~Entering(t, m)
      BY <2>1, <3>1, DifferentAccesses DEF Entering, Doing
    <3> QED
      BY <2>5, <3>1, <3>2, <1>mutex
  <2> QED
    BY <2>4, <2>5, <1>goal
<1>5. ASSUME NEW l \in Lists, EndRead(t, l) PROVE MutexTaken' /\ LockTaken'
  <2>1. /\ Doing(t, Read(l), "inside") /\ cnt_mutex[l] /\ UNCHANGED cnt_mutex
        /\ rw_sem' = [rw_sem EXCEPT ![l] = IF cnt[l] = 1 THEN TRUE ELSE @]
    BY <1>5 DEF EndRead
  <2>2. \A m : ~Entering(t, m) /\ (m # l => ~Has(t, m))
    BY <2>1, DifferentAccesses DEF Entering, Reading, Writing, Has, Doing
  <2>3. ASSUME NEW m \in Locks, ~rw_sem'[m] PROVE \E u \in Threads : Has(u, m)'
    <3>1. CASE m # l
      <4>1. rw_sem'[m] = rw_sem[m]
        BY <2>1, <3>1 DEF LocksTypeOK
      <4> QED
        BY <2>2, <2>3, <3>1, <4>1, <1>lock
    <3>2. CASE m = l
      <4>1. cnt[l] # 1
        BY <2>1, <2>3, <3>2 DEF LocksTypeOK
      <4>2. t \in Readers(l) /\ Readers(l) # {t}
        <5>1. t \in Readers(l)
          BY <2>1 DEF Readers, Reading
        <5>2. Cardinality(Readers(l)) # 1
          BY <4>1 DEF LockInv, ReadersCounted
        <5> QED
          BY <5>1, <5>2, FS_Singleton
      <4>3. PICK u \in Readers(l) : u # t
        BY <4>2
      <4>4. u \in Threads /\ Reading(u, l)
        BY <2>1, <4>3 DEF Readers, LockInv, FirstAlone
      <4> QED
        BY <3>2, <4>3, <4>4, <1>others DEF Has
    <3> QED
      BY <3>1, <3>2
  <2> QED
    BY <2>1, <2>2, <2>3, <1>mutex, <1>goal
<1>6. ASSUME NEW l \in Locks, BeginWrite(t, l) PROVE MutexTaken' /\ LockTaken'
  <2>1. PICK p \in {"start", "counted"} : Doing(t, Write(l), p)
    BY <1>6 DEF BeginWrite
  <2>2. \A m : ~Entering(t, m) /\ ~Has(t, m)
    BY <2>1 DEF Entering, Reading, Writing, Has, Doing
  <2>3. Has(t, l)'
    BY <2>1, <1>6, AfterMove DEF BeginWrite, Has, Writing
  <2>4. ASSUME NEW m \in Locks, ~rw_sem'[m] PROVE \E u \in Threads : Has(u, m)'
    BY <1>6, <2>2, <2>3, <2>4, <1>lock DEF BeginWrite, LocksTypeOK
  <2> QED
    BY <1>6, <2>2, <2>4, <1>mutex, <1>goal DEF BeginWrite
<1>7. ASSUME NEW l \in Locks, EndWrite(t, l) PROVE MutexTaken' /\ LockTaken'
  <2>1. /\ Doing(t, Write(l), "inside") /\ UNCHANGED cnt_mutex
        /\ rw_sem' = [rw_sem EXCEPT ![l] = TRUE]
    BY <1>7 DEF EndWrite
  <2>2. \A m : ~Entering(t, m) /\ (m # l => ~Has(t, m))
    BY <2>1, DifferentAccesses DEF Entering, Reading, Writing, Has, Doing
  <2>3. ASSUME NEW m \in Locks, ~rw_sem'[m] PROVE \E u \in Threads : Has(u, m)'
    BY <2>1, <2>2, <2>3, <1>lock DEF LocksTypeOK
  <2> QED
    BY <2>1, <2>2, <2>3, <1>mutex, <1>goal
<1> QED
  BY <1>2, <1>3, <1>4, <1>5, <1>6, <1>7 DEF LockStep

(* A change of jobs takes nothing and gives nothing back.                  *)
LEMMA NewJobKeepsTaken ==
  ASSUME LocksTypeOK, IdleAtStart, TakenInv, NEW t \in Threads,
         todo[t] = <<>> \/ at[t] = "start",
         \A u \in Threads \ {t} : todo'[u] = todo[u],
         Releases(todo'[t]), ~HoldsIn(todo[t]),
         UNCHANGED <<at, listVars>>
  PROVE  TakenInv'
<1>1. at[t] = "start"
  BY DEF IdleAtStart
<1>2. PlacesFit'
  BY <1>1 DEF TakenInv, PlacesFit, Fits
<1>3. TodoReleases' /\ ProceedTaken'
  BY DEF TakenInv, TodoReleases, ProceedTaken, listVars
<1>4. \A u \in Threads : SameRoles(u)
  BY NewJobIsNoRole
<1>5. TryTaken' /\ CountTaken'
  BY <1>4 DEF TakenInv, TryTaken, CountTaken, SameRoles, listVars
<1>6. \A u \in Threads : \A l : /\ Entering(u, l)' <=> Entering(u, l)
                                /\ Reading(u, l)' <=> Reading(u, l)
                                /\ Writing(u, l)' <=> Writing(u, l)
  BY NewJobIsNoRole DEF Entering, Reading, Writing
<1>7. MutexTaken' /\ LockTaken'
  BY <1>6 DEF TakenInv, MutexTaken, LockTaken, listVars
<1> QED
  BY <1>2, <1>3, <1>5, <1>7 DEF TakenInv

LEMMA TakenPreserved ==
  ASSUME JobsRelease
  PROVE  LocksTypeOK /\ LockInv /\ TryInv /\ TakenInv /\ [LocksNext]_<<vars, lockVars>>
           => TakenInv'
<1> SUFFICES ASSUME LocksTypeOK, LockInv, TryInv, TakenInv, [LocksNext]_<<vars, lockVars>>
             PROVE  TakenInv'
  OBVIOUS
<1>empty. Releases(<<>>) /\ ~HoldsIn(<<>>)
  BY DEF Releases, HoldsIn
<1>1. CASE UNCHANGED lockVars
  BY <1>1 DEF lockVars, listVars, TakenInv, PlacesFit, TodoReleases, TryTaken, CountTaken,
              MutexTaken, LockTaken, ProceedTaken, Trying, Heading, Keeping, Entering,
              Reading, Writing, Doing
<1>2. ASSUME NEW t \in Threads, TakeJob(t) PROVE TakenInv'
  <2>1. PICK job \in Jobs[t] : todo' = [todo EXCEPT ![t] = job]
    BY <1>2 DEF TakeJob
  <2>2. /\ todo[t] = <<>> /\ todo'[t] = job /\ UNCHANGED <<at, listVars>>
        /\ \A u \in Threads \ {t} : todo'[u] = todo[u]
    BY <1>2, <2>1 DEF TakeJob, LocksTypeOK
  <2>3. Releases(job)
    BY DEF JobsRelease
  <2> QED
    BY <2>2, <2>3, <1>empty, NewJobKeepsTaken DEF LockInv
<1>3. ASSUME NEW t \in Queries, RefuseFollowed(t) PROVE TakenInv'
  <2>1. /\ t \in Threads /\ todo'[t] = <<>> /\ at[t] = "start" /\ UNCHANGED <<at, listVars>>
        /\ \A u \in Threads \ {t} : todo'[u] = todo[u]
        /\ todo[t] \in {Tail(postFollow), Tail(Tail(postFollow))}
    BY <1>3 DEF RefuseFollowed, LocksTypeOK, Threads
  <2>2. /\ Tail(postFollow) = <<Read("LOF"), Write("LOF")>>
        /\ Tail(<<Read("LOF"), Write("LOF")>>) = <<Write("LOF")>>
    BY DEF postFollow
  <2>3. ~HoldsIn(todo[t])
    <3>1. Read("LOF") # Release /\ Write("LOF") # Release
      BY DifferentAccesses
    <3>2. todo[t] = <<Read("LOF"), Write("LOF")>> \/ todo[t] = <<Write("LOF")>>
      BY <2>1, <2>2
    <3>3. \A k \in 1..Len(todo[t]) : todo[t][k] \in {Read("LOF"), Write("LOF")}
      BY <3>2
    <3> QED
      BY <3>1, <3>3 DEF HoldsIn
  <2> QED
    BY <2>1, <2>3, <1>empty, NewJobKeepsTaken DEF LockInv
<1>4. ASSUME NEW t \in Threads, LockStep(t) PROVE TakenInv'
  <2>1. Works'
    BY <1>4, LockStepKeepsWorks DEF TakenInv, Works
  <2>2. TryTaken' /\ CountTaken'
    BY <1>4, LockStepKeepsTaken DEF TakenInv
  <2>3. MutexTaken' /\ LockTaken'
    BY <1>4, LockStepKeepsLocks DEF TakenInv
  <2> QED
    BY <2>1, <2>2, <2>3 DEF TakenInv, Works
<1> QED
  BY <1>1, <1>2, <1>3, <1>4
  DEF LocksNext, QueryWorks, OutsiderWorks, EnterWithJob, AtGate, SaveStep, Threads, lockVars

(* The locks of the lists do not wait for each other: as long as a thread  *)
(* has work there, the guard of some thread's next step is true.  It needs *)
(* of the jobs only that they give listenerProceedMUT back; those of       *)
(* databaseManager and of the listener do (ProgramJobsRelease).            *)
THEOREM LocksNeverStuck == ASSUME JobsRelease PROVE LocksSpec => []NeverStuck
<1>1. LocksInit => TakenInv
  <2> SUFFICES ASSUME LocksInit PROVE TakenInv
    OBVIOUS
  <2>1. Releases(<<>>)
    BY DEF Releases
  <2> QED
    BY <2>1 DEF LocksInit, TakenInv, PlacesFit, TodoReleases, TryTaken, CountTaken,
                MutexTaken, LockTaken, ProceedTaken, Locks
<1>2. LocksTypeOK /\ LockInv /\ TryInv /\ TakenInv /\ [LocksNext]_<<vars, lockVars>>
        => TakenInv'
  BY TakenPreserved
<1>3. LocksSpec => [](LocksTypeOK /\ LockInv /\ TryInv /\ TakenInv)
  BY <1>1, <1>2, TryInvariant, PTL DEF LocksSpec
<1> QED
  BY <1>3, TakenMeansNeverStuck, PTL

=============================================================================
