-------------------------- MODULE EventStore_proofs --------------------------
(***************************************************************************)
(* Proofs about EventStore, for any events, dates, runs and bounds.        *)
(*                                                                         *)
(* What a run is about to write, and what it wrote, is what getEventStatus *)
(* gives at a moment while the run was at the event (ResultWasRight,       *)
(* GivenWasRight).  A run that none overlaps came to its event after the   *)
(* run before it had written (ComesAfter, by OverlapSeen), so its moment   *)
(* is the later one, and getEventStatus goes on with time (StatusGoesOn).  *)
(***************************************************************************)
EXTENDS EventStore, TLAPS

Active == {"people", "find", "update", "create"}
Writing == {"find", "update", "create"}

\* StatusAt of the old events o, so that only its arguments change.
Of(o, d, time) ==
  getEventStatus(StartDate[d], EndDate[d], o[d].readers, o[d].interested, time)

Right(o, d, s, from, to) == \E t \in from .. to : s = Of(o, d, t)

BeganBefore == \A w \in Runs : began[w] <= now

ResultWasRight ==
  \A w \in Runs : pc[w] \in Writing => Right(old, doc[w], result[w], began[w], now)

GivenWasRight ==
  \A d \in Old : (Stored(d) /\ giver[d].by = "run") =>
    /\ giver[d].to <= now
    /\ Right(old, d, status[d], giver[d].from, giver[d].to)

OverlapSeen ==
  \A v, w \in Runs :
    (v # w /\ doc[v] = doc[w] /\ pc[v] \in Active /\ pc[w] \in Active) => overlap[v]

ComesAfter ==
  \A w \in Runs :
    (/\ pc[w] \in Active /\ ~overlap[w]
     /\ Stored(doc[w]) /\ giver[doc[w]].by = "run") => giver[doc[w]].to <= began[w]

Inv ==
  /\ TypeOK
  /\ UnknownByPatchOnly
  /\ BeganBefore
  /\ ResultWasRight
  /\ GivenWasRight
  /\ OverlapSeen
  /\ ComesAfter
-----------------------------------------------------------------------------
LEMMA ZeroIsATime == 0 \in Times
  BY BoundAssumption DEF Times

LEMMA TimesAreNumbers ==
  ASSUME TypeOK
  PROVE  /\ now \in Nat /\ MaxTime \in Nat
         /\ \A w \in Runs : began[w] \in Nat /\ began[w] \in Times
         /\ \A e \in Ids : giver[e].from \in Nat /\ giver[e].to \in Nat
<1>1. /\ now \in Times
      /\ \A w \in Runs : began[w] \in Times
      /\ \A e \in Ids : giver[e].from \in Times /\ giver[e].to \in Times
  BY DEF TypeOK
<1>2. Times \subseteq Nat /\ MaxTime \in Nat
  BY BoundAssumption DEF Times
<1> QED
  BY <1>1, <1>2

LEMMA StatusIsKnown ==
  ASSUME NEW d \in Old, NEW t
  PROVE  StatusAt(d, t) = Of(old, d, t) /\ StatusAt(d, t) \in EventStatus
  BY DEF getEventStatus, StatusAt, Of, EventStatus

(* getEventStatus goes on with time, but for the instant of the start.     *)
LEMMA StatusGoesOn ==
  ASSUME TypeOK, NEW d \in Old, NEW t \in Nat, NEW u \in Nat, t <= u,
         Rank(Of(old, d, u)) < Rank(Of(old, d, t))
  PROVE  t = StartDate[d] /\ Of(old, d, t) = "Completed"
<1>1. /\ StartDate[d] \in Nat /\ EndDate[d] \in Nat /\ StartDate[d] < EndDate[d]
      /\ old[d].interested \in {"none", "few", "many"} /\ old[d].readers \in {"none", "some"}
  BY DatesAssumption DEF TypeOK
<1>2. CASE t < StartDate[d]
  BY <1>1, <1>2 DEF Of, getEventStatus, Rank
<1>3. CASE StartDate[d] < t /\ t < EndDate[d]
  BY <1>1, <1>3 DEF Of, getEventStatus, Rank
<1>4. CASE t >= EndDate[d]
  BY <1>1, <1>4 DEF Of, getEventStatus, Rank
<1>5. CASE t = StartDate[d]
  BY <1>1, <1>5 DEF Of, getEventStatus
<1> QED
  BY <1>1, <1>2, <1>3, <1>4, <1>5

(* A status is right for longer if it was right at all.                    *)
LEMMA RightForLonger ==
  ASSUME NEW o, NEW d, NEW s, NEW from \in Nat, NEW to \in Nat, NEW later \in Nat,
         to <= later, Right(o, d, s, from, to)
  PROVE  Right(o, d, s, from, later)
  BY DEF Right
-----------------------------------------------------------------------------
LEMMA Gives ==
  ASSUME TypeOK, NEW e \in Ids, NEW s \in EventStatus \union {"unknown", "none stored"},
         NEW by \in {"post", "patch", "run"}, NEW from \in Times, NEW to \in Times,
         Give(e, s, by, from, to)
  PROVE  /\ status' \in [Ids -> EventStatus \union {"unknown", "none stored"}]
         /\ giver' \in [Ids -> [by : {"post", "patch", "run"}, from : Times, to : Times]]
         /\ status'[e] = s
         /\ giver'[e].by = by /\ giver'[e].from = from /\ giver'[e].to = to
         /\ \A d \in Ids \ {e} : status'[d] = status[d] /\ giver'[d] = giver[d]
  BY DEF Give, TypeOK

\* Who is at an event, and since when, is not touched by these steps.
ClientStep ==
  /\ UNCHANGED <<now, old, run>>
  /\ \E e \in Ids :
       /\ \A d \in Ids \ {e} : status'[d] = status[d] /\ giver'[d] = giver[d]
       /\ \/ status'[e] = "none stored"
          \/ giver'[e].by \in {"post", "patch"} /\ (status'[e] = "unknown" => giver'[e].by = "patch")

LEMMA ClientsTakeSuchSteps ==
  ASSUME TypeOK,
         \/ \E e \in New, s \in Bodies : PostEvent(e, s)
         \/ \E e \in Ids : DeleteEvent(e) \/ \E s \in Bodies : PatchEvent(e, s)
  PROVE  TypeOK' /\ ClientStep
<1>1. ASSUME NEW e \in New, NEW s \in Bodies, PostEvent(e, s)
      PROVE  TypeOK' /\ ClientStep
  <2>1. /\ (IF s = "absent" THEN "Requested" ELSE s) \in EventStatus
        /\ e \in Ids /\ 0 \in Times
    BY <1>1, BodiesAssumption, BoundAssumption DEF PostEvent, EventStatus, Ids, Times
  <2>2. ClientStep
    BY <1>1, <2>1, Gives DEF PostEvent, ClientStep, EventStatus
  <2>3. TypeOK'
    BY <1>1, <2>1, Gives DEF PostEvent, TypeOK, run
  <2> QED
    BY <2>2, <2>3
<1>2. ASSUME NEW e \in Ids, DeleteEvent(e)
      PROVE  TypeOK' /\ ClientStep
  BY <1>2 DEF DeleteEvent, TypeOK, ClientStep, run
<1>3. ASSUME NEW e \in Ids, NEW s \in Bodies, PatchEvent(e, s)
      PROVE  TypeOK' /\ ClientStep
  <2>1. s \in EventStatus \union {"unknown"} /\ 0 \in Times
    BY <1>3, BodiesAssumption, BoundAssumption DEF PatchEvent, Times
  <2>2. ClientStep
    BY <1>3, <2>1, Gives DEF PatchEvent, ClientStep
  <2>3. TypeOK'
    BY <1>3, <2>1, Gives DEF PatchEvent, TypeOK, run
  <2> QED
    BY <2>2, <2>3
<1> QED
  BY <1>1, <1>2, <1>3

LEMMA ClientStepKeeps ==
  ASSUME Inv, TypeOK', ClientStep
  PROVE  Inv'
<1>1. PICK e \in Ids :
        /\ \A d \in Ids \ {e} : status'[d] = status[d] /\ giver'[d] = giver[d]
        /\ \/ status'[e] = "none stored"
           \/ giver'[e].by \in {"post", "patch"} /\ (status'[e] = "unknown" => giver'[e].by = "patch")
  BY DEF ClientStep
<1>2. UnknownByPatchOnly'
  BY <1>1 DEF Inv, UnknownByPatchOnly
<1>3. GivenWasRight'
  <2> SUFFICES ASSUME NEW d \in Old, status'[d] # "none stored", giver'[d].by = "run"
               PROVE  /\ giver'[d].to <= now
                      /\ Right(old, d, status'[d], giver'[d].from, giver'[d].to)
    BY DEF GivenWasRight, Stored, ClientStep
  <2>1. d \in Ids \ {e}
    BY <1>1 DEF Ids
  <2>2. /\ giver[d].to <= now
        /\ Right(old, d, status[d], giver[d].from, giver[d].to)
    BY <1>1, <2>1 DEF Inv, GivenWasRight, Stored
  <2> QED
    BY <1>1, <2>1, <2>2 DEF ClientStep
<1>4. ComesAfter'
  <2> SUFFICES ASSUME NEW w \in Runs, pc[w] \in Active, ~overlap[w],
                      status'[doc[w]] # "none stored", giver'[doc[w]].by = "run"
               PROVE  giver'[doc[w]].to <= began[w]
    BY DEF ComesAfter, ClientStep, run, Stored
  <2>1. doc[w] \in Ids
    BY DEF Inv, TypeOK, Ids
  <2>2. doc[w] # e
    BY <1>1
  <2> QED
    BY <1>1, <2>1, <2>2 DEF Inv, ComesAfter, Stored
<1>5. BeganBefore' /\ ResultWasRight' /\ OverlapSeen'
  BY DEF Inv, BeganBefore, ResultWasRight, OverlapSeen, ClientStep, run
<1> QED
  BY <1>2, <1>3, <1>4, <1>5 DEF Inv

LEMMA TickKeeps ==
  ASSUME Inv, Tick
  PROVE  Inv'
<1>1. now \in Nat /\ now' = now + 1 /\ now' \in Nat
  BY TimesAreNumbers DEF Inv, Tick
<1>2. UnknownByPatchOnly' /\ OverlapSeen' /\ ComesAfter'
  BY DEF Inv, Tick, run, UnknownByPatchOnly, OverlapSeen, ComesAfter, Stored
<1>7. now' \in Times
  BY <1>1, BoundAssumption DEF Tick, Times
<1>8. TypeOK'
  BY <1>7 DEF Inv, TypeOK, Tick, run
<1>3. BeganBefore'
  BY <1>1, TimesAreNumbers DEF Inv, BeganBefore, Tick, run
<1>4. GivenWasRight'
  <2>1. ASSUME NEW d \in Old, giver[d].to <= now
        PROVE  giver[d].to <= now'
    BY <1>1, <2>1, TimesAreNumbers DEF Inv, Ids
  <2> QED
    BY <2>1 DEF Inv, GivenWasRight, Tick, Stored
<1>5. ASSUME NEW w \in Runs, pc[w] \in Writing
      PROVE  Right(old, doc[w], result[w], began[w], now + 1)
  BY <1>1, <1>5, RightForLonger, TimesAreNumbers DEF Inv, ResultWasRight
<1>6. ResultWasRight'
  BY <1>1, <1>5 DEF ResultWasRight, Tick, run
<1> QED
  BY <1>2, <1>3, <1>4, <1>6, <1>8 DEF Inv

LEMMA BeginKeeps ==
  ASSUME Inv, NEW w \in Runs, Begin(w)
  PROVE  Inv'
<1>1. TypeOK'
  BY DEF Inv, TypeOK, Begin, Goto, At, Points
<1>2. UnknownByPatchOnly' /\ GivenWasRight'
  BY DEF Inv, UnknownByPatchOnly, GivenWasRight, Begin, Stored
<1>3. /\ pc[w] = "off" /\ pc' = [pc EXCEPT ![w] = "people"] /\ pc \in [Runs -> Points]
      /\ began' = [began EXCEPT ![w] = now] /\ began \in [Runs -> Times]
      /\ UNCHANGED <<now, old, status, doc, result, giver>>
  BY DEF Inv, TypeOK, Begin, Goto
<1>4. BeganBefore'
  BY <1>3, TimesAreNumbers DEF Inv, BeganBefore
<1>5. ResultWasRight'
  BY <1>3 DEF Inv, ResultWasRight, Writing
<1>6. /\ \A v \in Runs : overlap[v] => overlap'[v]
      /\ \A v \in Runs \ {w} : (pc[v] \in Active /\ doc[v] = doc[w]) =>
           overlap'[v] /\ overlap'[w]
  BY DEF Begin, At, Active
<1>7. OverlapSeen'
  BY <1>3, <1>6 DEF Inv, OverlapSeen, Active
<1>8. ComesAfter'
  BY <1>3, <1>6 DEF Inv, ComesAfter, Active, Stored, GivenWasRight, TypeOK
<1> QED
  BY <1>1, <1>2, <1>4, <1>5, <1>7, <1>8 DEF Inv

LEMMA GetStatusKeeps ==
  ASSUME Inv, NEW w \in Runs, GetStatus(w)
  PROVE  Inv'
<1>1. TypeOK'
  BY StatusIsKnown DEF Inv, TypeOK, GetStatus, Goto, Points
<1>2. /\ pc[w] = "people" /\ pc' = [pc EXCEPT ![w] = "find"] /\ pc \in [Runs -> Points]
      /\ result' = [result EXCEPT ![w] = Of(old, doc[w], now)]
      /\ result \in [Runs -> EventStatus]
      /\ UNCHANGED <<now, old, status, doc, began, overlap, giver>>
  BY StatusIsKnown DEF Inv, TypeOK, GetStatus, Goto
<1>3. Right(old, doc[w], Of(old, doc[w], now), began[w], now)
  BY TimesAreNumbers DEF Inv, Right, BeganBefore
<1>4. ResultWasRight'
  BY <1>2, <1>3 DEF Inv, ResultWasRight, Writing
<1>5. /\ UnknownByPatchOnly' /\ GivenWasRight' /\ BeganBefore'
  BY <1>2 DEF Inv, UnknownByPatchOnly, GivenWasRight, BeganBefore, Stored
<1>6. OverlapSeen' /\ ComesAfter'
  BY <1>2 DEF Inv, OverlapSeen, ComesAfter, Active, Stored
<1> QED
  BY <1>1, <1>4, <1>5, <1>6 DEF Inv

(* A run that does not write: it looks, fails, or finds it has lost.       *)
LEMMA QuietKeeps ==
  ASSUME Inv, NEW w \in Runs, pc[w] \in Active, NEW point \in {"update", "create", "done"},
         pc' = [pc EXCEPT ![w] = point], point # "done" => pc[w] = "find",
         UNCHANGED <<now, old, status, doc, result, began, overlap, giver, deleted>>
  PROVE  Inv'
<1>1. TypeOK'
  BY DEF Inv, TypeOK, Points
<1>2. ResultWasRight'
  BY DEF Inv, TypeOK, ResultWasRight, Writing
<1>3. UnknownByPatchOnly' /\ GivenWasRight' /\ BeganBefore'
  BY DEF Inv, UnknownByPatchOnly, GivenWasRight, BeganBefore, Stored
<1>4. OverlapSeen' /\ ComesAfter'
  BY DEF Inv, TypeOK, OverlapSeen, ComesAfter, Active, Stored
<1> QED
  BY <1>1, <1>2, <1>3, <1>4 DEF Inv

LEMMA WriteKeeps ==
  ASSUME Inv, NEW w \in Runs, pc[w] \in {"update", "create"},
         pc' = [pc EXCEPT ![w] = "done"],
         Give(doc[w], result[w], "run", began[w], now),
         UNCHANGED <<now, old, doc, result, began, overlap, deleted>>
  PROVE  Inv'
<1>1. /\ doc[w] \in Old /\ doc[w] \in Ids /\ result[w] \in EventStatus
      /\ now \in Times /\ began[w] \in Times
  BY DEF Inv, TypeOK, Ids
<1>2. /\ status' = [status EXCEPT ![doc[w]] = result[w]]
      /\ giver' = [giver EXCEPT ![doc[w]] = [by |-> "run", from |-> began[w], to |-> now]]
      /\ DOMAIN status = Ids /\ DOMAIN giver = Ids /\ DOMAIN pc = Runs
  BY DEF Give, Inv, TypeOK
<1>3. TypeOK'
  BY <1>1, <1>2 DEF Inv, TypeOK, Points
<1>4. UnknownByPatchOnly'
  BY <1>1, <1>2 DEF Inv, UnknownByPatchOnly, EventStatus
<1>5. BeganBefore' /\ ResultWasRight'
  BY <1>2 DEF Inv, BeganBefore, ResultWasRight, Writing
<1>6. Right(old, doc[w], result[w], began[w], now)
  BY DEF Inv, ResultWasRight, Writing
<1>7. GivenWasRight'
  <2>1. now <= now
    BY TimesAreNumbers DEF Inv
  <2> QED
    BY <1>1, <1>2, <1>6, <2>1 DEF Inv, GivenWasRight, Stored, Ids
<1>8. OverlapSeen'
  BY <1>2 DEF Inv, OverlapSeen, Active
<1>9. ComesAfter'
  <2> SUFFICES ASSUME NEW v \in Runs, pc'[v] \in Active, ~overlap[v],
                      status'[doc[v]] # "none stored", giver'[doc[v]].by = "run"
               PROVE  giver'[doc[v]].to <= began[v]
    BY DEF ComesAfter, Stored
  <2>1. v # w /\ pc[v] \in Active
    BY <1>2 DEF Active
  <2>2. doc[v] # doc[w]
    BY <2>1 DEF Inv, OverlapSeen, Active
  <2>3. doc[v] \in Ids
    BY DEF Inv, TypeOK, Ids
  <2> QED
    BY <1>2, <2>1, <2>2, <2>3 DEF Inv, ComesAfter, Stored
<1> QED
  BY <1>3, <1>4, <1>5, <1>7, <1>8, <1>9 DEF Inv
-----------------------------------------------------------------------------
RunStep(w) ==
  Begin(w) \/ GetStatus(w) \/ FindEvent(w) \/ UpdateEvent(w) \/ CreateEvent(w) \/ Fail(w)

LEMMA RunStepKeeps ==
  ASSUME Inv, NEW w \in Runs, RunStep(w)
  PROVE  Inv'
<1>1. CASE FindEvent(w)
  BY <1>1, QuietKeeps DEF FindEvent, Goto, Active
<1>2. CASE UpdateEvent(w)
  BY <1>2, QuietKeeps, WriteKeeps DEF UpdateEvent, Goto, Active
<1>3. CASE CreateEvent(w)
  BY <1>3, QuietKeeps, WriteKeeps DEF CreateEvent, Goto, Active
<1>4. CASE Fail(w)
  BY <1>4, QuietKeeps DEF Fail, Goto, Active
<1> QED
  BY <1>1, <1>2, <1>3, <1>4, BeginKeeps, GetStatusKeeps DEF RunStep

THEOREM Invariance == Spec => []Inv
<1>1. ASSUME Init
      PROVE  Inv
  <2>1. now = 0 /\ \A w \in Runs : began[w] = 0
    BY <1>1 DEF Init
  <2>2. TypeOK
    BY <1>1, ZeroIsATime DEF Init, TypeOK, Points, EventStatus
  <2>3. BeganBefore
    BY <2>1 DEF BeganBefore
  <2>4. UnknownByPatchOnly /\ GivenWasRight /\ ComesAfter
    BY <1>1 DEF Init, UnknownByPatchOnly, GivenWasRight, ComesAfter, Stored, Ids, TypeOK, Active
  <2>5. ResultWasRight /\ OverlapSeen
    BY <1>1 DEF Init, ResultWasRight, OverlapSeen, Active, Writing
  <2> QED
    BY <2>2, <2>3, <2>4, <2>5 DEF Inv
<1>2. ASSUME Inv, [Next]_vars
      PROVE  Inv'
  <2>1. CASE \/ \E e \in New, s \in Bodies : PostEvent(e, s)
             \/ \E e \in Ids : DeleteEvent(e) \/ \E s \in Bodies : PatchEvent(e, s)
    BY <1>2, <2>1, ClientsTakeSuchSteps, ClientStepKeeps DEF Inv
  <2>2. CASE \E w \in Runs : RunStep(w)
    BY <1>2, <2>2, RunStepKeeps
  <2>3. CASE Tick
    BY <1>2, <2>3, TickKeeps
  <2>4. CASE UNCHANGED vars
    BY <1>2, <2>4
       DEF vars, Inv, TypeOK, UnknownByPatchOnly, BeganBefore, ResultWasRight, GivenWasRight,
           OverlapSeen, ComesAfter, Stored
  <2> QED
    BY <1>2, <2>1, <2>2, <2>3, <2>4 DEF Next, RunStep
<1> QED
  BY <1>1, <1>2, PTL DEF Spec

(* The variables keep their types.                                         *)
THEOREM TypeCorrect == Spec => []TypeOK
  BY Invariance, PTL DEF Inv

(* A status given by a run was right while the run was at the event,       *)
(* whatever clients and other runs did to it meanwhile, and only a patch   *)
(* stores one that the schema does not list.                               *)
THEOREM StatusIsAccountedFor == Spec => []StatusAccountedFor
<1>1. ASSUME Inv, NEW d \in Old, Stored(d), giver[d].by = "run"
      PROVE  \E t \in giver[d].from .. giver[d].to :
               CASE status[d] \in {"Requested", "Announced"} -> t < StartDate[d]
                 [] status[d] = "Ongoing" -> StartDate[d] < t /\ t < EndDate[d]
                 [] status[d] \in {"Completed", "Rejected"} ->
                      \/ t >= EndDate[d]
                      \/ t = StartDate[d]
                      \/ t > StartDate[d] /\ old[d].interested # "many"
                 [] OTHER -> FALSE
  <2>1. PICK t \in giver[d].from .. giver[d].to : status[d] = Of(old, d, t)
    BY <1>1 DEF Inv, GivenWasRight, Right
  <2>2. giver[d].from \in Nat /\ giver[d].to \in Nat /\ t \in Nat
    BY <1>1, TimesAreNumbers DEF Inv, Ids
  <2>3. /\ StartDate[d] \in Nat /\ EndDate[d] \in Nat /\ StartDate[d] < EndDate[d]
        /\ old[d].interested \in {"none", "few", "many"}
    BY <1>1, DatesAssumption DEF Inv, TypeOK
  <2> WITNESS t \in giver[d].from .. giver[d].to
  <2> QED
    BY <2>1, <2>2, <2>3 DEF Of, getEventStatus
<1>2. Inv => StatusWasRight
  BY <1>1 DEF StatusWasRight
<1>3. Inv => StatusAccountedFor
  BY <1>2 DEF StatusAccountedFor, Inv
<1> QED
  BY Invariance, <1>3, PTL

(* A later run moves the status of an event on, unless another overlaps it *)
(* or the one before hit the instant of the start.                         *)
THEOREM StatusMovesOn == Spec => GoesOnUnlessOverlapped
<1>1. ASSUME Inv, [Next]_vars, NEW d \in Old,
             giver[d].by = "run", Stored(d), giver'[d].by = "run",
             status'[d] # "none stored", Rank(status'[d]) < Rank(status[d])
      PROVE  \/ \E w \in Runs : pc[w] = "update" /\ doc[w] = d /\ overlap[w]
             \/ status[d] = "Completed" /\ StartDate[d] \in giver[d].from .. giver[d].to
  <2>1. d \in Ids /\ d \notin New /\ status[d] # "none stored"
    BY <1>1, IdsAssumption DEF Ids, Stored
  <2>2. status'[d] # status[d]
    <3>1. Rank(status[d]) \in Nat
      BY DEF Rank
    <3>2. Rank(status[d]) < Rank(status[d]) => FALSE
      BY <3>1
    <3>3. status'[d] = status[d] => Rank(status'[d]) = Rank(status[d])
      OBVIOUS
    <3> QED
      BY <1>1, <3>2, <3>3
  <2>3. PICK w \in Runs : /\ pc[w] = "update" /\ doc[w] = d
                          /\ Give(doc[w], result[w], "run", began[w], now)
    <3>1. giver' # giver \/ status' # status
      BY <2>2
    <3>2. ASSUME NEW e \in Ids, NEW s \in EventStatus \union {"unknown", "none stored"},
                 NEW by \in {"post", "patch"}, Give(e, s, by, 0, 0)
          PROVE  FALSE
      <4>1. /\ status'[e] = s /\ giver'[e].by = by
            /\ \A c \in Ids \ {e} : status'[c] = status[c]
        <5>1. DOMAIN status = Ids /\ DOMAIN giver = Ids
          BY <1>1 DEF Inv, TypeOK
        <5> QED
          BY <3>2, <5>1 DEF Give
      <4>2. d = e
        BY <2>1, <2>2, <4>1
      <4> QED
        BY <1>1, <4>1, <4>2
    <3>3. ASSUME NEW e \in New, NEW s \in Bodies, PostEvent(e, s)
          PROVE  FALSE
      <4>1. (IF s = "absent" THEN "Requested" ELSE s) \in EventStatus /\ e \in Ids
        BY <3>3, BodiesAssumption DEF PostEvent, EventStatus, Ids
      <4> QED
        BY <3>2, <3>3, <4>1 DEF PostEvent
    <3>4. ASSUME NEW e \in Ids, NEW s \in Bodies, PatchEvent(e, s)
          PROVE  FALSE
      BY <3>2, <3>4, BodiesAssumption DEF PatchEvent
    <3>5. ASSUME NEW e \in Ids, DeleteEvent(e)
          PROVE  FALSE
      BY <1>1, <2>1, <2>2, <3>5 DEF DeleteEvent, Inv, TypeOK
    <3>6. PICK w \in Runs : RunStep(w)
      BY <1>1, <3>1, <3>3, <3>4, <3>5 DEF Next, RunStep, Tick, vars
    <3>7. Stored(doc[w]) => pc[w] # "create"
      BY <1>1, <2>1, <2>2, <3>6
         DEF RunStep, Begin, GetStatus, FindEvent, UpdateEvent, CreateEvent, Fail
    <3>8. ~Stored(doc[w]) => doc[w] # d
      BY <1>1
    <3>9. Give(doc[w], result[w], "run", began[w], now) => doc[w] = d
      <4>1. status \in [Ids -> EventStatus \union {"unknown", "none stored"}]
        BY <1>1 DEF Inv, TypeOK
      <4> QED
        BY <2>1, <2>2, <4>1 DEF Give
    <3> QED
      BY <3>1, <3>6, <3>7, <3>8, <3>9
         DEF RunStep, Begin, GetStatus, FindEvent, UpdateEvent, CreateEvent, Fail, Goto
  <2>4. CASE ~overlap[w]
    <3>1. giver[d].to <= began[w]
      BY <1>1, <2>3, <2>4 DEF Inv, ComesAfter, Active
    <3>2. PICK t \in giver[d].from .. giver[d].to : status[d] = Of(old, d, t)
      BY <1>1 DEF Inv, GivenWasRight, Right
    <3>3. PICK u \in began[w] .. now : result[w] = Of(old, d, u)
      BY <1>1, <2>3 DEF Inv, ResultWasRight, Right, Writing
    <3>4. /\ giver[d].from \in Nat /\ giver[d].to \in Nat /\ began[w] \in Nat /\ now \in Nat
      BY <1>1, <2>1, TimesAreNumbers DEF Inv
    <3>5. t \in Nat /\ u \in Nat /\ t <= u
      BY <3>1, <3>4
    <3>6. status'[d] = result[w]
      BY <1>1, <2>1, <2>3 DEF Give, Inv, TypeOK
    <3> QED
      BY <1>1, <3>2, <3>3, <3>5, <3>6, StatusGoesOn DEF Inv
  <2> QED
    BY <2>3, <2>4
<1>2. Inv /\ [Next]_vars =>
        [ \A d \in Old :
            (/\ giver[d].by = "run" /\ Stored(d)
             /\ giver'[d].by = "run" /\ status'[d] # "none stored"
             /\ Rank(status'[d]) < Rank(status[d])) =>
              \/ \E w \in Runs : pc[w] = "update" /\ doc[w] = d /\ overlap[w]
              \/ status[d] = "Completed" /\ StartDate[d] \in giver[d].from .. giver[d].to ]_vars
  BY <1>1
<1> QED
  BY Invariance, <1>2, PTL DEF Spec, GoesOnUnlessOverlapped

(* No patch, and no run that had found it, brings a deleted event back.    *)
THEOREM DeletionsLast == Spec => DeletedComesBackByCreateOnly
<1>1. ASSUME Inv, [Next]_vars, NEW e \in deleted, ~Stored(e), status'[e] # "none stored"
      PROVE  \E w \in Runs : pc[w] = "create" /\ doc[w] = e /\ pc'[w] = "done"
  <2>1. e \in Ids /\ status' # status
    BY <1>1 DEF Inv, TypeOK, Stored
  <2>2. ASSUME NEW f \in Ids, NEW s, NEW by, NEW from, NEW to,
               Give(f, s, by, from, to)
        PROVE  e = f
    BY <1>1, <2>1, <2>2 DEF Give, Inv, TypeOK, Stored
  <2>3. CASE \E f \in New, s \in Bodies : PostEvent(f, s)
    BY <1>1, <2>2, <2>3 DEF PostEvent, Ids
  <2>4. CASE \E f \in Ids : DeleteEvent(f) \/ \E s \in Bodies : PatchEvent(f, s)
    BY <1>1, <2>1, <2>2, <2>4 DEF PatchEvent, DeleteEvent, Inv, TypeOK, Stored
  <2>5. ASSUME NEW w \in Runs, RunStep(w)
        PROVE  \E v \in Runs : pc[v] = "create" /\ doc[v] = e /\ pc'[v] = "done"
    <3>1. doc[w] \in Ids /\ pc \in [Runs -> Points]
      BY <1>1 DEF Inv, TypeOK, Ids
    <3>2. CASE UpdateEvent(w)
      BY <1>1, <2>1, <2>2, <3>1, <3>2 DEF UpdateEvent
    <3>3. CASE CreateEvent(w)
      BY <1>1, <2>1, <2>2, <3>1, <3>3 DEF CreateEvent, Goto
    <3> QED
      BY <2>1, <2>5, <3>2, <3>3 DEF RunStep, Begin, GetStatus, FindEvent, Fail
  <2> QED
    BY <1>1, <2>1, <2>3, <2>4, <2>5 DEF Next, RunStep, Tick, vars
<1>2. Inv /\ [Next]_vars =>
        [ \A e \in deleted :
            (~Stored(e) /\ status'[e] # "none stored") =>
              \E w \in Runs : pc[w] = "create" /\ doc[w] = e /\ pc'[w] = "done" ]_vars
  BY <1>1
<1> QED
  BY Invariance, <1>2, PTL DEF Spec, DeletedComesBackByCreateOnly
=============================================================================
