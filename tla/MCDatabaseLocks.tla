---------------------------- MODULE MCDatabaseLocks ----------------------------
(* Three threads that run queries, two of which may retrieve at the same     *)
(* time while the third posts, and a listener that looks for work.           *)
EXTENDS DatabaseLocks, TLC

CONSTANTS q1, q2, q3, c1

MCQueries == {q1, q2, q3}
OneFollower == {q1}
MCOutsiders == {c1}
MCJobs ==
  q1 :> {postFollow, retrieveTweets(1)} @@ q2 :> {postUpdate}
    @@ q3 :> {postUpdate, retrieveTweets(1)} @@ c1 :> {checkPending}
================================================================================
