------------------------------ MODULE Accounts ------------------------------
(***************************************************************************)
(* The registered users, which every list of the server is indexed by.     *)
(* They come from the file of users and never change while the server      *)
(* runs (addUser, in src/src/main_server.cpp, has no caller).              *)
(***************************************************************************)
CONSTANTS
  Users,    \* the registered users (the code: indexes into listOfUsers)
  NoUser    \* the code's user index -1: not signed in, or no such user

ASSUME NoUserAssumption == NoUser \notin Users

=============================================================================
