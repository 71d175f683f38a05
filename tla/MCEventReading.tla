--------------------------- MODULE MCEventReading ---------------------------
(* The two sides of GET api/v2/events for TLC in one run: what a request is  *)
(* turned into (EventSearch) and what becomes of the pages of several        *)
(* (EventPaging).  They share no state, so a behaviour is about the one or   *)
(* the other, and the other is at its end.                                   *)
EXTENDS MCEventSearch, EventPaging

\* A request that failed at once, over an empty collection.
SearchIsOver ==
  /\ collection = <<>> /\ titled = {}
  /\ request \in Asking("rest", {<<>>}, {<<>>}, {0}, {Absent})
  /\ pc = "done" /\ hits = {} /\ answer = "badRequest" /\ found = {} /\ populated = {}
  /\ changes = 0

\* A client that has read all there was, which was nothing.
ReadingIsOver ==
  /\ store = <<>> /\ ask = [sortBy |-> "none", size |-> 2, stop |-> "short"]
  /\ page = 1 /\ pending = {} /\ items = <<>> /\ total = 0 /\ seen = <<>> /\ done = TRUE
  /\ added = {} /\ removed = {} /\ writes = 0

\* What a search would find matters to requests with one.
Searching == SearchInit /\ (titled # {} => "bookSearchQuery" \in DOMAIN request.filter)

ReadingInit == (Init /\ SearchIsOver) \/ (Searching /\ ReadingIsOver)
ReadingNext == (Next /\ UNCHANGED searchVars) \/ (SearchNext /\ UNCHANGED vars)
ReadingSpec == ReadingInit /\ [][ReadingNext]_<<vars, searchVars>>
=============================================================================
