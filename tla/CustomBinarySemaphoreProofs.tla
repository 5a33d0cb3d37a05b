--------------------- MODULE CustomBinarySemaphoreProofs ---------------------
(***************************************************************************)
(* The class customBinarySemaphore is a binary semaphore that forgets no   *)
(* waiting thread, for any set of threads.                                 *)
(***************************************************************************)
EXTENDS CustomBinarySemaphore, TLAPS

(* The flag agrees with the counter, except before the first P: nobody     *)
(* waits then.                                                             *)
FlagAgrees ==
  \/ canProceed = (n # 0)
  \/ n = 1 /\ \A t \in Threads : pc[t] \notin {"waiting", "woken"}

IInv == TypeOK /\ MutualExclusion /\ NoLostWakeUp /\ FlagAgrees

(* The semaphore starts free, with nobody in it and nobody waiting.        *)
LEMMA InitEstablishes == Init => IInv
  BY DEF Init, IInv, TypeOK, MutualExclusion, NoLostWakeUp, FlagAgrees, Places

(* Whoever gets in by P, at once or after a wait, takes the counter to 0,  *)
(* which nobody else has done.                                             *)
LEMMA TakingPreserves ==
  ASSUME IInv, NEW t \in Threads, n = 1, pc[t] # "in",
         Goes(t, pc[t], "in"), Decrement
  PROVE  IInv'
<1>1. n' = 0 /\ canProceed' = FALSE
  <2>1. n' = 0
    BY DEF Decrement
  <2>2. canProceed' = (n' # 0)
    BY DEF Decrement
  <2> QED
    BY <2>1, <2>2, Zenon
<1>2. pc' = [pc EXCEPT ![t] = "in"] /\ pc \in [Threads -> Places]
  BY DEF Goes, IInv, TypeOK
<1>3. TypeOK'
  BY <1>1, <1>2 DEF TypeOK, Places
<1>4. \A u \in Threads : pc[u] # "in"
  BY DEF IInv, MutualExclusion
<1>5. MutualExclusion'
  BY <1>1, <1>2, <1>4 DEF MutualExclusion
<1>6. NoLostWakeUp' /\ FlagAgrees'
  <2>1. NoLostWakeUp'
    BY <1>1 DEF NoLostWakeUp
  <2>2. FlagAgrees'
    BY Zenon DEF Decrement, FlagAgrees
  <2> QED
    BY <2>1, <2>2
<1> QED
  BY <1>3, <1>5, <1>6 DEF IInv

(* Every step preserves the invariant.                                     *)
LEMMA StepPreserves == IInv /\ [Next]_vars => IInv'
<1> SUFFICES ASSUME IInv, [Next]_vars PROVE IInv'
  OBVIOUS
<1> USE DEF Places
<1>1. CASE UNCHANGED vars
  BY <1>1 DEF vars, IInv, TypeOK, MutualExclusion, NoLostWakeUp, FlagAgrees
<1>2. ASSUME NEW t \in Threads, PFast(t) PROVE IInv'
  <2>1. n = 1 /\ pc[t] = "ready"
    BY <1>2 DEF PFast, Goes, IInv, TypeOK
  <2>2. Goes(t, pc[t], "in") /\ Decrement
    BY <1>2, <2>1 DEF PFast, Goes
  <2> QED
    BY <2>1, <2>2, TakingPreserves
<1>3. ASSUME NEW t \in Threads, PSlow(t) PROVE IInv'
  <2>1. n = 0 /\ ~canProceed
    BY <1>3 DEF PSlow, IInv, TypeOK, FlagAgrees
  <2>2. Goes(t, "ready", "waiting") /\ UNCHANGED <<n, canProceed>>
    BY <1>3, <2>1 DEF PSlow
  <2> QED
    BY <2>1, <2>2 DEF Goes, IInv, TypeOK, MutualExclusion, NoLostWakeUp, FlagAgrees
<1>4. ASSUME NEW t \in Threads, WakeUp(t) PROVE IInv'
  BY <1>4 DEF WakeUp, Goes, IInv, TypeOK, MutualExclusion, NoLostWakeUp, FlagAgrees
<1>5. ASSUME NEW t \in Threads, PResume(t) PROVE IInv'
  <2>1. pc[t] = "woken" /\ canProceed = (n # 0)
    BY <1>5 DEF PResume, Goes, IInv, FlagAgrees
  <2>2. CASE n = 1
    <3>1. canProceed
      <4>1. n # 0
        BY <2>2
      <4> QED
        BY <2>1, <4>1, Zenon
    <3>2. Goes(t, pc[t], "in") /\ Decrement
      BY <1>5, <2>1, <3>1, Zenon DEF PResume, Goes
    <3> QED
      BY <2>1, <2>2, <3>2, TakingPreserves
  <2>3. CASE n = 0
    <3>1. Goes(t, "woken", "waiting") /\ UNCHANGED <<n, canProceed>>
      BY <1>5, <2>1, <2>3 DEF PResume
    <3> QED
      BY <2>1, <2>3, <3>1 DEF Goes, IInv, TypeOK, MutualExclusion, NoLostWakeUp, FlagAgrees
  <2> QED
    BY <2>2, <2>3 DEF IInv, TypeOK
<1>6. ASSUME NEW t \in Threads, V(t) PROVE IInv'
  <2>1. n = 0 /\ n' = 1 /\ canProceed' = TRUE
    <3>1. n = 0 /\ n' = 1
      BY <1>6 DEF V, Goes, IInv, TypeOK, MutualExclusion
    <3>2. n' # 0
      BY <3>1
    <3> QED
      BY <1>6, <3>1, <3>2, Zenon DEF V
  <2>2. pc[t] = "in" /\ pc' = [pc EXCEPT ![t] = "notify"] /\ pc \in [Threads -> Places]
    BY <1>6 DEF V, Goes, IInv, TypeOK
  <2>3. \A u \in Threads : pc'[u] # "in"
    BY <2>2 DEF IInv, MutualExclusion
  <2> QED
    BY <2>1, <2>2, <2>3 DEF IInv, TypeOK, MutualExclusion, NoLostWakeUp, FlagAgrees
<1>7. ASSUME NEW t \in Threads, Notify(t) PROVE IInv'
  <2>1. pc[t] = "notify" /\ UNCHANGED <<n, canProceed>> /\ pc \in [Threads -> Places]
    BY <1>7 DEF Notify, IInv, TypeOK
  <2>2. CASE (\A w \in Threads : pc[w] # "waiting") /\ pc' = [pc EXCEPT ![t] = "ready"]
    BY <2>1, <2>2 DEF IInv, TypeOK, MutualExclusion, NoLostWakeUp, FlagAgrees
  <2>3. ASSUME NEW w \in Threads, pc[w] = "waiting",
               pc' = [pc EXCEPT ![t] = "ready", ![w] = "woken"]
        PROVE  IInv'
    <3>1. TypeOK' /\ FlagAgrees'
      BY <2>1, <2>3 DEF IInv, TypeOK, FlagAgrees
    <3>2. MutualExclusion'
      BY <2>1, <2>3 DEF IInv, TypeOK, MutualExclusion
    <3>3. NoLostWakeUp'
      BY <2>1, <2>3 DEF NoLostWakeUp
    <3> QED
      BY <3>1, <3>2, <3>3 DEF IInv
  <2> QED
    BY <1>7, <2>2, <2>3 DEF Notify
<1>8. ASSUME NEW t \in Threads, NEW u \in Threads, HandOver(t, u) PROVE IInv'
  <2>1. /\ pc[t] = "in" /\ pc[u] = "ready" /\ UNCHANGED <<n, canProceed>>
        /\ pc' = [pc EXCEPT ![t] = "ready", ![u] = "in"] /\ pc \in [Threads -> Places]
    BY <1>8 DEF HandOver, IInv, TypeOK
  <2>2. n = 0 /\ pc'[u] = "in" /\ \A v \in Threads \ {u} : pc'[v] # "in"
    BY <2>1 DEF IInv, TypeOK, MutualExclusion
  <2> QED
    BY <2>1, <2>2 DEF IInv, TypeOK, MutualExclusion, NoLostWakeUp, FlagAgrees
<1> QED
  BY <1>1, <1>2, <1>3, <1>4, <1>5, <1>6, <1>7, <1>8 DEF Next, Step

(* The counter stays in {0, 1}; at most one thread has the semaphore, and  *)
(* it is free exactly when none has it; no waiting thread is forgotten.    *)
THEOREM SemaphoreInvariant == Spec => []IInv
  BY InitEstablishes, StepPreserves, PTL DEF Spec

(* For any threads, two never have the semaphore together.                 *)
THEOREM SemaphoreMutualExclusion == Spec => []MutualExclusion
<1>1. IInv => MutualExclusion
  BY DEF IInv
<1> QED
  BY <1>1, SemaphoreInvariant, PTL

(* For any threads, the notification of V is never lost, although another  *)
(* thread may take the semaphore between the release and the notification. *)
THEOREM SemaphoreNoLostWakeUp == Spec => []NoLostWakeUp
<1>1. IInv => NoLostWakeUp
  BY DEF IInv
<1> QED
  BY <1>1, SemaphoreInvariant, PTL

(* The threads that have the semaphore.                                    *)
holders == {t \in Threads : pc[t] = "in"}

(* Every step of the class is an operation of the abstract semaphore or    *)
(* leaves it as it is.                                                     *)
LEMMA StepImplements == IInv /\ [Next]_vars => [Sem!SemNext]_holders
<1> SUFFICES ASSUME IInv, [Next]_vars PROVE [Sem!SemNext]_holders
  OBVIOUS
<1>1. n \in {0, 1} /\ pc \in [Threads -> Places]
  BY DEF IInv, TypeOK
<1>2. CASE UNCHANGED vars
  BY <1>2 DEF vars, holders
<1>3. ASSUME NEW t \in Threads, PFast(t) \/ PSlow(t) \/ PResume(t)
      PROVE  [Sem!SemNext]_holders
  <2>1. holders' = holders \/ (n = 1 /\ pc[t] # "in" /\ pc' = [pc EXCEPT ![t] = "in"])
    <3>1. CASE PFast(t)
      BY <1>1, <3>1 DEF PFast, Goes
    <3>2. CASE PSlow(t)
      <4>1. ~canProceed
        BY <3>2 DEF PSlow, Goes, IInv, TypeOK, FlagAgrees
      <4> QED
        BY <1>1, <3>2, <4>1 DEF PSlow, Goes, holders
    <3>3. CASE PResume(t)
      <4>1. CASE canProceed
        <5>1. n # 0
          BY <3>3, <4>1 DEF PResume, Goes, IInv, FlagAgrees
        <5> QED
          BY <1>1, <3>3, <4>1, <5>1 DEF PResume, Goes
      <4>2. CASE ~canProceed
        BY <1>1, <3>3, <4>2 DEF PResume, Goes, holders
      <4> QED
        BY <4>1, <4>2
    <3> QED
      BY <1>3, <3>1, <3>2, <3>3
  <2>2. CASE n = 1 /\ pc[t] # "in" /\ pc' = [pc EXCEPT ![t] = "in"]
    <3>1. holders = {} /\ holders' = {t}
      BY <1>1, <2>2 DEF IInv, MutualExclusion, holders
    <3> QED
      BY <3>1 DEF Sem!SemNext, Sem!Acquire, holders
  <2> QED
    BY <2>1, <2>2
<1>4. ASSUME NEW t \in Threads, V(t) PROVE [Sem!SemNext]_holders
  <2>1. holders = {t} /\ holders' = {}
    BY <1>1, <1>4 DEF V, Goes, IInv, MutualExclusion, holders
  <2> QED
    BY <2>1 DEF Sem!SemNext, Sem!Release, holders
<1>5. ASSUME NEW t \in Threads, NEW u \in Threads, HandOver(t, u)
      PROVE  [Sem!SemNext]_holders
  <2>1. holders = {t} /\ holders' = {u}
    BY <1>1, <1>5 DEF HandOver, IInv, MutualExclusion, holders
  <2> QED
    BY <2>1 DEF Sem!SemNext, Sem!PassOn, holders
<1>6. ASSUME NEW t \in Threads, WakeUp(t) \/ Notify(t) PROVE [Sem!SemNext]_holders
  <2>1. holders' = holders
    BY <1>1, <1>6 DEF WakeUp, Notify, Goes, holders
  <2> QED
    BY <2>1
<1> QED
  BY <1>2, <1>3, <1>4, <1>5, <1>6 DEF Next, Step

(* For any threads, the class implements the abstract binary semaphore.    *)
THEOREM SemaphoreRefinement == Spec => IsBinarySemaphore
<1>1. Init => Sem!SemInit
  BY DEF Init, Sem!SemInit
<1>2. IInv /\ [Next]_vars => [Sem!SemNext]_{t \in Threads : pc[t] = "in"}
  BY StepImplements DEF holders
<1> QED
  BY <1>1, <1>2, SemaphoreInvariant, PTL DEF Spec, IsBinarySemaphore, Sem!SemSpec

=============================================================================
