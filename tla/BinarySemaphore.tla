--------------------------- MODULE BinarySemaphore ---------------------------
(***************************************************************************)
(* What a binary semaphore promises: a thread gets it only when no thread  *)
(* has it, and loses it only by giving it up or passing it on.  The other  *)
(* modules take one semaphore operation for one step.                      *)
(***************************************************************************)
CONSTANT Threads

VARIABLE holders

SemInit == holders = {}

Acquire(t) ==
  /\ holders = {}
  /\ holders' = {t}

Release(t) ==
  /\ holders = {t}
  /\ holders' = {}

PassOn(t, u) ==
  /\ holders = {t}
  /\ holders' = {u}

SemNext == \E t \in Threads : Acquire(t) \/ Release(t) \/ \E u \in Threads : PassOn(t, u)

SemSpec == SemInit /\ [][SemNext]_holders

=============================================================================
