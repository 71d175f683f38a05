----------------------------- MODULE EventStore -----------------------------
(***************************************************************************)
(* What becomes of a stored event: clients create, patch and delete it     *)
(* (EventsController), while runs of the migration give events of the old  *)
(* database a status that depends on the clock and write them over what is *)
(* there (MigrationsService.migrateEvent, here for one event at a time).   *)
(*                                                                         *)
(* Of an event only the status is kept: the other fields are written with  *)
(* it, and its type is checked in the same way.  A create is checked       *)
(* against the schema; a patch is not, since Mongoose does not validate    *)
(* what findByIdAndUpdate is given.                                        *)
(***************************************************************************)
EXTENDS Integers

EventStatus == {"Requested", "Approved", "Announced", "Ongoing", "Completed",
                "Rejected", "Cancelled"}

CONSTANTS
  Old,          \* the _ids of events in the old database
  New,          \* the _ids that creates may draw
  Runs,         \* migrations of one event
  Bodies,       \* what clients send as the status
  StartDate,    \* StartDate[d], EndDate[d]: the dates of an old event
  EndDate,
  MaxTime       \* bound: the clock stops there

ASSUME IdsAssumption == Old \intersect New = {}
ASSUME BodiesAssumption == Bodies \subseteq EventStatus \union {"unknown", "absent"}
ASSUME DatesAssumption ==
  /\ StartDate \in [Old -> Nat] /\ EndDate \in [Old -> Nat]
  /\ \A d \in Old : StartDate[d] < EndDate[d]
ASSUME BoundAssumption == MaxTime \in Nat

VARIABLES
  now,
  old,       \* how many are interested in an old event, and whether any read
             \* it; nothing here writes the old database
  status,    \* the status of each stored event, or "none stored"
  pc,        \* the await a run is suspended at
  doc,       \* the event it migrates
  result,    \* the status it gives the event
  began,     \* history: when it came to the event
  overlap,   \* history: another run has been at the event meanwhile
  giver,     \* history: who gave an event its status, and a run from when to when
  deleted    \* history: the events that clients have deleted

run == <<pc, doc, result, began, overlap>>
vars == <<now, old, status, pc, doc, result, began, overlap, giver, deleted>>

Ids == Old \union New
Points == {"off", "people", "find", "update", "create", "done"}
Times == 0 .. MaxTime

TypeOK ==
  /\ now \in Times
  /\ old \in [Old -> [interested : {"none", "few", "many"}, readers : {"none", "some"}]]
  /\ status \in [Ids -> EventStatus \union {"unknown", "none stored"}]
  /\ pc \in [Runs -> Points]
  /\ doc \in [Runs -> Old]
  /\ result \in [Runs -> EventStatus]
  /\ began \in [Runs -> Times]
  /\ overlap \in [Runs -> BOOLEAN]
  /\ giver \in [Ids -> [by : {"post", "patch", "run"}, from : Times, to : Times]]
  /\ deleted \subseteq Ids

Init ==
  /\ now = 0
  /\ old \in [Old -> [interested : {"none", "few", "many"}, readers : {"none", "some"}]]
  /\ status = [e \in Ids |-> "none stored"]
  /\ pc = [w \in Runs |-> "off"]
  /\ doc \in [Runs -> Old]
  /\ result = [w \in Runs |-> "Completed"]
  /\ began = [w \in Runs |-> 0]
  /\ overlap = [w \in Runs |-> FALSE]
  /\ giver = [e \in Ids |-> [by |-> "post", from |-> 0, to |-> 0]]
  /\ deleted = {}
-----------------------------------------------------------------------------
Stored(e) == status[e] # "none stored"

Give(e, s, by, from, to) ==
  /\ status' = [status EXCEPT ![e] = s]
  /\ giver' = [giver EXCEPT ![e] = [by |-> by, from |-> from, to |-> to]]

\* POST api/events: a status the schema does not list is refused, and one that
\* is absent defaults.
PostEvent(e, s) ==
  /\ ~Stored(e) /\ e \notin deleted
  /\ s # "unknown"
  /\ Give(e, IF s = "absent" THEN "Requested" ELSE s, "post", 0, 0)
  /\ UNCHANGED <<now, old, run, deleted>>

\* PATCH api/events/:id sets the fields of its body, whatever their values; an
\* event that is not there is not created.
PatchEvent(e, s) ==
  /\ Stored(e)
  /\ s # "absent"
  /\ Give(e, s, "patch", 0, 0)
  /\ UNCHANGED <<now, old, run, deleted>>

DeleteEvent(e) ==
  /\ Stored(e)
  /\ status' = [status EXCEPT ![e] = "none stored"]
  /\ deleted' = deleted \union {e}
  /\ UNCHANGED <<now, old, run, giver>>
-----------------------------------------------------------------------------
Goto(w, point) == pc' = [pc EXCEPT ![w] = point]
At(d) == {w \in Runs : pc[w] \notin {"off", "done"} /\ doc[w] = d}

\* Mutant: an event is over once it has begun.
OverOnceBegun(start, end, readers, interested, time) ==
  CASE time > start -> IF readers = "some" THEN "Completed" ELSE "Rejected"
    [] time < start -> IF interested = "many" THEN "Announced" ELSE "Requested"
    [] OTHER -> "Completed"

\* Mutant: the branches before and after the event are exchanged.
BeforeForAfter(start, end, readers, interested, time) ==
  CASE time < start -> IF readers = "some" THEN "Completed" ELSE "Rejected"
    [] time > end -> IF interested = "many" THEN "Announced" ELSE "Requested"
    [] OTHER -> "Completed"

\* The status by the clock: "many" are more than ten.
getEventStatus(start, end, readers, interested, time) ==
  CASE time > end /\ readers = "none" -> "Rejected"
    [] start < time /\ time < end /\ interested = "many" -> "Ongoing"
    [] start < time /\ time < end /\ interested = "none" -> "Rejected"
    [] time < start /\ interested = "many" -> "Announced"
    [] time < start /\ interested # "many" -> "Requested"
    [] OTHER -> "Completed"

StatusAt(d, time) ==
  getEventStatus(StartDate[d], EndDate[d], old[d].readers, old[d].interested, time)

\* A run comes to its event, and awaits the book and the people of it.
Begin(w) ==
  /\ pc[w] = "off"
  /\ Goto(w, "people")
  /\ began' = [began EXCEPT ![w] = now]
  /\ overlap' = [v \in Runs |->
       overlap[v] \/ (v = w /\ At(doc[w]) # {}) \/ v \in At(doc[w])]
  /\ UNCHANGED <<now, old, status, doc, result, giver, deleted>>

\* It has them all, reads the clock and looks for the event.
GetStatus(w) ==
  /\ pc[w] = "people"
  /\ Goto(w, "find")
  /\ result' = [result EXCEPT ![w] = StatusAt(doc[w], now)]
  /\ UNCHANGED <<now, old, status, doc, began, overlap, giver, deleted>>

FindEvent(w) ==
  /\ pc[w] = "find"
  /\ Goto(w, IF Stored(doc[w]) THEN "update" ELSE "create")
  /\ UNCHANGED <<now, old, status, doc, result, began, overlap, giver, deleted>>

\* Mutant: an event deleted meanwhile is stored again.
UpdateUpserts(w) ==
  /\ pc[w] = "update"
  /\ Goto(w, "done")
  /\ Give(doc[w], result[w], "run", began[w], now)
  /\ UNCHANGED <<now, old, doc, result, began, overlap, deleted>>

\* findByIdAndUpdate gives null for an event that is gone, and the run gives
\* the event up.
UpdateEvent(w) ==
  /\ pc[w] = "update"
  /\ Goto(w, "done")
  /\ \/ Stored(doc[w]) /\ Give(doc[w], result[w], "run", began[w], now)
     \/ ~Stored(doc[w]) /\ UNCHANGED <<status, giver>>
  /\ UNCHANGED <<now, old, doc, result, began, overlap, deleted>>

\* The _id of an event that is there by now is refused.
CreateEvent(w) ==
  /\ pc[w] = "create"
  /\ Goto(w, "done")
  /\ \/ ~Stored(doc[w]) /\ Give(doc[w], result[w], "run", began[w], now)
     \/ Stored(doc[w]) /\ UNCHANGED <<status, giver>>
  /\ UNCHANGED <<now, old, doc, result, began, overlap, deleted>>

\* An error, or the end of the process, cuts the run off.
Fail(w) ==
  /\ pc[w] \in {"people", "find", "update", "create"}
  /\ Goto(w, "done")
  /\ UNCHANGED <<now, old, status, doc, result, began, overlap, giver, deleted>>

Tick ==
  /\ now < MaxTime
  /\ now' = now + 1
  /\ UNCHANGED <<old, status, run, giver, deleted>>

Next ==
  \/ \E e \in New, s \in Bodies : PostEvent(e, s)
  \/ \E e \in Ids : DeleteEvent(e) \/ \E s \in Bodies : PatchEvent(e, s)
  \/ \E w \in Runs : \/ Begin(w) \/ GetStatus(w) \/ FindEvent(w)
                     \/ UpdateEvent(w) \/ CreateEvent(w) \/ Fail(w)
  \/ Tick

Spec == Init /\ [][Next]_vars
-----------------------------------------------------------------------------
\* A status the schema does not list gets into the database by a patch only
\* (EventSchema, which creates validate and updates do not), and a run that
\* migrates the event again puts it right.
UnknownByPatchOnly ==
  \A e \in Ids : status[e] = "unknown" => giver[e].by = "patch"

\* A status that a run has given says where the event was in time while the
\* run was at it, however long it waited in between: what is announced had
\* not begun, what is ongoing was under way, and what is completed or rejected
\* was over, unless too few were interested or the run hit the very instant
\* the event began (getEventStatus, migrateEvent).
StatusWasRight ==
  \A d \in Old : (Stored(d) /\ giver[d].by = "run") =>
    \E t \in giver[d].from .. giver[d].to :
      CASE status[d] \in {"Requested", "Announced"} -> t < StartDate[d]
        [] status[d] = "Ongoing" -> StartDate[d] < t /\ t < EndDate[d]
        [] status[d] \in {"Completed", "Rejected"} ->
             \/ t >= EndDate[d]
             \/ t = StartDate[d]
             \/ t > StartDate[d] /\ old[d].interested # "many"
        [] OTHER -> FALSE

\* Every status is accounted for by whoever gave it: a client that creates by
\* the schema, a run by the clock, and a patch by nothing at all.
StatusAccountedFor == UnknownByPatchOnly /\ StatusWasRight

Rank(s) == CASE s \in {"Requested", "Announced"} -> 0
             [] s = "Ongoing" -> 1
             [] OTHER -> 2

\* Migrating an event again moves its status on: to one that lies further back
\* it goes only when runs overlap at the event, or when the first run gave
\* "Completed" at the instant the event began (migrateEvent, getEventStatus).
GoesOnUnlessOverlapped ==
  [][ \A d \in Old :
        (/\ giver[d].by = "run" /\ Stored(d)
         /\ giver'[d].by = "run" /\ status'[d] # "none stored"
         /\ Rank(status'[d]) < Rank(status[d])) =>
          \/ \E w \in Runs : pc[w] = "update" /\ doc[w] = d /\ overlap[w]
          \/ status[d] = "Completed" /\ StartDate[d] \in giver[d].from .. giver[d].to ]_vars

\* An event a client has deleted does not come back by a patch, or by a run
\* that had found it before: only by one that finds nothing and creates it
\* (EventRepository.update, which does not upsert; migrateEvent).
DeletedComesBackByCreateOnly ==
  [][ \A e \in deleted :
        (~Stored(e) /\ status'[e] # "none stored") =>
          \E w \in Runs : pc[w] = "create" /\ doc[w] = e /\ pc'[w] = "done" ]_vars
=============================================================================
