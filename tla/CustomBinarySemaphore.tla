------------------------ MODULE CustomBinarySemaphore ------------------------
(***************************************************************************)
(* The class customBinarySemaphore of src/src/main_server.cpp, of which    *)
(* every lock of the database is an object: a counter n and a flag under a *)
(* mutex, with a condition variable.  A step is a section under the mutex, *)
(* or the notify_one that V calls after it has released it.  The waits     *)
(* follow std::condition_variable: a thread may wake up without being      *)
(* notified.                                                               *)
(***************************************************************************)
EXTENDS Integers

CONSTANT Threads

VARIABLES
  n,            \* the counter
  canProceed,   \* the flag the waiting threads look at
  pc            \* where each thread is

vars == <<n, canProceed, pc>>

(***************************************************************************)
(*   ready    outside P and V, without the semaphore                       *)
(*   waiting  in cv.wait, asleep                                           *)
(*   woken    in cv.wait, about to lock the mutex and read the flag        *)
(*   in       P has returned                                               *)
(*   notify   in V, about to notify                                        *)
(***************************************************************************)
Places == {"ready", "waiting", "woken", "in", "notify"}

Init ==
  /\ n = 1
  /\ canProceed = FALSE
  /\ pc = [t \in Threads |-> "ready"]

Goes(t, from, to) ==
  /\ pc[t] = from
  /\ pc' = [pc EXCEPT ![t] = to]

Decrement ==
  /\ n' = n - 1
  /\ canProceed' = (n' # 0)

-----------------------------------------------------------------------------
(* Mutated form: two threads are let in.                                   *)
PFastTwo(t) ==
  /\ n >= 0
  /\ Goes(t, "ready", "in")
  /\ Decrement

PFast(t) ==
  /\ n > 0
  /\ Goes(t, "ready", "in")
  /\ Decrement

(* cv.wait looks at the flag before it sleeps.                             *)
PSlow(t) ==
  /\ ~(n > 0)
  /\ Goes(t, "ready", IF canProceed THEN "in" ELSE "waiting")
  /\ IF canProceed THEN Decrement ELSE UNCHANGED <<n, canProceed>>

WakeUp(t) ==
  /\ Goes(t, "waiting", "woken")
  /\ UNCHANGED <<n, canProceed>>

PResume(t) ==
  /\ Goes(t, "woken", IF canProceed THEN "in" ELSE "waiting")
  /\ IF canProceed THEN Decrement ELSE UNCHANGED <<n, canProceed>>

V(t) ==
  /\ Goes(t, "in", "notify")
  /\ n' = n + 1
  /\ canProceed' = (n' # 0)

(* Mutated form: nobody is notified.                                       *)
NotifyNobody(t) ==
  /\ Goes(t, "notify", "ready")
  /\ UNCHANGED <<n, canProceed>>

(* notify_one wakes one waiting thread, if there is any.                   *)
Notify(t) ==
  /\ pc[t] = "notify"
  /\ \/ /\ \A w \in Threads : pc[w] # "waiting"
        /\ pc' = [pc EXCEPT ![t] = "ready"]
     \/ \E w \in Threads :
          /\ pc[w] = "waiting"
          /\ pc' = [pc EXCEPT ![t] = "ready", ![w] = "woken"]
  /\ UNCHANGED <<n, canProceed>>

(* The locks of readers: the first one calls P, the last one, which may be *)
(* another thread, calls V.                                                *)
HandOver(t, u) ==
  /\ pc[t] = "in"
  /\ pc[u] = "ready"
  /\ pc' = [pc EXCEPT ![t] = "ready", ![u] = "in"]
  /\ UNCHANGED <<n, canProceed>>

-----------------------------------------------------------------------------
Step(t) ==
  \/ PFast(t) \/ PSlow(t) \/ WakeUp(t) \/ PResume(t) \/ V(t) \/ Notify(t)
  \/ \E u \in Threads : HandOver(t, u)

Next == \E t \in Threads : Step(t)

Spec == Init /\ [][Next]_vars

(* A thread inside P or V goes on when it can.  Nobody has to call P or V, *)
(* nor does a sleeping thread have to wake up by itself.                   *)
FairSpec == Spec /\ \A t \in Threads : WF_vars(PResume(t)) /\ WF_vars(Notify(t))

-----------------------------------------------------------------------------
(***************************************************************************)
(* Properties.                                                             *)
(***************************************************************************)
(* Every variable has its type, and the counter never leaves {0, 1}.       *)
TypeOK ==
  /\ n \in {0, 1}
  /\ canProceed \in BOOLEAN
  /\ pc \in [Threads -> Places]

(* Two threads never have the semaphore together, and it is free exactly   *)
(* when nobody has it.                                                     *)
MutualExclusion ==
  /\ \A t, u \in Threads : pc[t] = "in" /\ pc[u] = "in" => t = u
  /\ (n = 1) <=> \A t \in Threads : pc[t] # "in"

(* A thread that waits while the semaphore is free has not been forgotten: *)
(* another one is about to look at the flag, or about to notify, although  *)
(* V notifies after it has released the mutex.                             *)
NoLostWakeUp ==
  n > 0 /\ (\E t \in Threads : pc[t] = "waiting")
    => \E t \in Threads : pc[t] \in {"woken", "notify"}

(* While someone waits, a free semaphore does not stay free.               *)
SomeoneProceeds ==
  (n > 0 /\ \E t \in Threads : pc[t] = "waiting") ~> n = 0

Sem == INSTANCE BinarySemaphore WITH holders <- {t \in Threads : pc[t] = "in"}

(* The class is a binary semaphore for the threads between P and V.        *)
IsBinarySemaphore == Sem!SemSpec

=============================================================================
