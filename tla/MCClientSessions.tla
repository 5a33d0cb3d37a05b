--------------------------- MODULE MCClientSessions ---------------------------
(***************************************************************************)
(* Instance of ClientSessions for TLC: three connections of one user and   *)
(* one that never names a user.                                            *)
(***************************************************************************)
EXTENDS ClientSessions

CONSTANTS a, s1, s2, s3, s4, t

MCUsers == {a}
MCTweets == {t}
MCSessions == {s1, s2, s3, s4}

(* An archive of the server may have any length.                           *)
CONSTANT MaxArchived
ArchivesBounded ==
  \A i \in DOMAIN listOfDuplicatedTweets : Len(listOfDuplicatedTweets[i]) <= MaxArchived
BoundedSpec == CSInit /\ [][CSNext /\ ArchivesBounded']_csVars

StrangerLogin == [s \in MCSessions |-> IF s = s4 THEN NoUser ELSE a]
=============================================================================
