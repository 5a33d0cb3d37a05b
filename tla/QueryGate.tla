------------------------------ MODULE QueryGate ------------------------------
(***************************************************************************)
(* What the four semaphores around the database promise (query_try,        *)
(* query_cnt_sem, query_cnt and DB_access_sem of databaseManager): any     *)
(* number of queries runs together, a save runs alone, and a save that     *)
(* waits keeps new queries out.  QuerySemaphores is the protocol that      *)
(* keeps the promise.                                                      *)
(***************************************************************************)
EXTENDS Integers

VARIABLES
  query_cnt,   \* queries that have entered and not left
  saver        \* "idle", "waiting" for the queries to leave, or "saving"

gateVars == <<query_cnt, saver>>

GateInit ==
  /\ query_cnt = 0
  /\ saver = "idle"

(* Mutated form: a query enters while a save waits or runs.                *)
EnterQueryAnytime ==
  /\ query_cnt' = query_cnt + 1
  /\ UNCHANGED saver

EnterQuery ==
  /\ saver = "idle"
  /\ query_cnt' = query_cnt + 1
  /\ UNCHANGED saver

LeaveQuery ==
  /\ query_cnt > 0
  /\ query_cnt' = query_cnt - 1
  /\ UNCHANGED saver

BeginSave ==
  /\ saver = "idle"
  /\ saver' = "waiting"
  /\ UNCHANGED query_cnt

Save ==
  /\ saver = "waiting"
  /\ query_cnt = 0
  /\ saver' = "saving"
  /\ UNCHANGED query_cnt

EndSave ==
  /\ saver = "saving"
  /\ saver' = "idle"
  /\ UNCHANGED query_cnt

GateSpec ==
  GateInit /\ [][EnterQuery \/ LeaveQuery \/ BeginSave \/ Save \/ EndSave]_gateVars

=============================================================================
