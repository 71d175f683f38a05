---------------------------- MODULE EventTransfer ----------------------------
(***************************************************************************)
(* What migrating events promises, stated without the queries it takes: an *)
(* event of the old database is copied whole, in one step, and a run       *)
(* reports as migrated only what it has copied.  An event given up is left *)
(* as it is in the new database: untouched, or copied by this very run,    *)
(* which never heard that it was.  A stop of the process leaves copies     *)
(* nobody reports.  Only events that can be copied are; clients may delete *)
(* a copy at any time.                                                     *)
(***************************************************************************)
CONSTANTS
  Runs,     \* the runs of the migration
  Docs,     \* the events of the old database
  Sound,    \* those that can be copied
  Copy      \* Copy[d]: event d as it is in the new database

VARIABLES
  stored,   \* the copies in the new database
  written,  \* written[w]: the event run w has copied and not yet reported, if any
  moved,    \* moved[w]: the events run w reports as migrated
  dropped   \* dropped[w]: the events run w has given up

vars == <<stored, written, moved, dropped>>

Nothing == [w \in Runs |-> {}]

Init == stored = {} /\ written = Nothing /\ moved = Nothing /\ dropped = Nothing

\* A copy that is there already is written again.
Write(w, d) ==
  /\ d \in Sound /\ written[w] = {}
  /\ stored' = stored \union {Copy[d]}
  /\ written' = [written EXCEPT ![w] = {d}]
  /\ UNCHANGED <<moved, dropped>>

Report(w, d) ==
  /\ d \in written[w]
  /\ moved' = [moved EXCEPT ![w] = moved[w] \union {d}]
  /\ written' = [written EXCEPT ![w] = {}]
  /\ UNCHANGED <<stored, dropped>>

GiveUp(w, d) ==
  /\ written[w] \subseteq {d}
  /\ dropped' = [dropped EXCEPT ![w] = dropped[w] \union {d}]
  /\ written' = [written EXCEPT ![w] = {}]
  /\ UNCHANGED <<stored, moved>>

Stop ==
  /\ written' = Nothing
  /\ UNCHANGED <<stored, moved, dropped>>

Delete(c) ==
  /\ stored' = stored \ {c}
  /\ UNCHANGED <<written, moved, dropped>>

Next ==
  \/ \E w \in Runs, d \in Docs : Write(w, d) \/ Report(w, d) \/ GiveUp(w, d)
  \/ Stop
  \/ \E c \in stored : Delete(c)

Spec == Init /\ [][Next]_vars
=============================================================================
