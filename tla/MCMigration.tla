---------------------------- MODULE MCMigration ----------------------------
(* An instance of Migration for TLC: a broken event before a sound one, so   *)
(* that overlapping runs meet on a book and on a user, which the event lists *)
(* twice (as its leader and as a reader).                                    *)
EXTENDS Migration, TLC

CONSTANTS d1, d2, p1, u1

BrokenFirst == <<d1, d2>>
OneBook == d1 :> p1 @@ d2 :> p1
Twice == d1 :> <<>> @@ d2 :> <<u1, u1>>
=============================================================================
