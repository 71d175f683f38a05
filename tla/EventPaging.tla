----------------------------- MODULE EventPaging -----------------------------
(***************************************************************************)
(* GET api/v2/events: a client reads the events that match a filter page   *)
(* by page while other clients create, patch and delete events.            *)
(*                                                                         *)
(* EventRepository.findPaginated answers one page with two queries that    *)
(* run side by side and are not a snapshot: the page's items (sort, skip   *)
(* and limit) and the count of all matching events.  A query is one step   *)
(* of the database.  The order of the items is the sort's, and for events  *)
(* the sort does not tell apart it is the database's choice, query by      *)
(* query.                                                                  *)
(***************************************************************************)
EXTENDS Integers, Sequences, FiniteSets

CONSTANTS
  Ids,         \* the events' _ids, ordered as their numbers are
  Days,        \* the days events start and end on
  SortKeys,    \* the values of sortBy clients use
  PageSizes,   \* the values of pageSize clients use
  MaxWrites    \* bound: how many writes happen while the client reads

AllSortKeys == {"none", "startDateAsc", "startDateDesc", "endDateAsc", "endDateDesc"}

ASSUME IdAssumption == Ids \subseteq Int /\ IsFiniteSet(Ids) /\ Days \subseteq Int
ASSUME SortAssumption == SortKeys \subseteq AllSortKeys
ASSUME PageAssumption == PageSizes \subseteq Nat \ {0}
ASSUME WriteAssumption == MaxWrites \in Nat

VARIABLES
  store,     \* the events collection: _id to [start, end, match]
  ask,       \* [sortBy, size, stop]: what the client asks for, and whether it
             \* stops at a short page or when it has read total events
  page,      \* the page it is at
  pending,   \* the queries for this page not yet answered
  items,     \* the items of this page
  total,     \* the count that comes with them
  seen,      \* the items of the pages before
  done,      \* the client has all pages
  added,     \* history: the events that entered the filter's result meanwhile
  removed,   \* history: the events that left it, or moved in it
  writes

vars == <<store, ask, page, pending, items, total, seen, done, added, removed, writes>>

\* match: the event satisfies the filter of the client's request.
Events == [start : Days, end : Days, match : BOOLEAN]
Stores == UNION {[S -> Events] : S \in SUBSET Ids}
Asks == [sortBy : SortKeys, size : PageSizes, stop : {"short", "total"}]

TypeOK ==
  /\ DOMAIN store \subseteq Ids /\ \A i \in DOMAIN store : store[i] \in Events
  /\ ask \in Asks
  /\ page \in Nat \ {0}
  /\ pending \subseteq {"items", "total"}
  /\ items \in Seq(Ids) /\ seen \in Seq(Ids)
  /\ total \in 0 .. Cardinality(Ids)
  /\ done \in BOOLEAN
  /\ added \subseteq Ids /\ removed \subseteq Ids
  /\ writes \in 0 .. MaxWrites

Init ==
  /\ store \in Stores
  /\ ask \in Asks
  /\ page = 1 /\ pending = {"items", "total"}
  /\ items = <<>> /\ total = 0 /\ seen = <<>> /\ done = FALSE
  /\ added = {} /\ removed = {} /\ writes = 0

-----------------------------------------------------------------------------
\* Mutant: the sort specs without their _id tiebreaker.
WithoutTiebreaker(sortBy) ==
  CASE sortBy = "startDateAsc" -> <<<<"start", 1>>, <<"end", 1>>>>
    [] sortBy = "startDateDesc" -> <<<<"start", -1>>, <<"end", -1>>>>
    [] sortBy = "endDateAsc" -> <<<<"end", 1>>, <<"start", 1>>>>
    [] sortBy = "endDateDesc" -> <<<<"end", -1>>, <<"start", -1>>>>
    [] OTHER -> <<<<"start", -1>>, <<"end", -1>>>>

\* The fields a sort key orders by, the first that differs deciding, each
\* ascending (1) or descending (-1).
resolveSortSpec(sortBy) ==
  CASE sortBy = "startDateAsc" -> <<<<"start", 1>>, <<"end", 1>>, <<"id", 1>>>>
    [] sortBy = "startDateDesc" -> <<<<"start", -1>>, <<"end", -1>>, <<"id", -1>>>>
    [] sortBy = "endDateAsc" -> <<<<"end", 1>>, <<"start", 1>>, <<"id", 1>>>>
    [] sortBy = "endDateDesc" -> <<<<"end", -1>>, <<"start", -1>>, <<"id", -1>>>>
    [] OTHER -> <<<<"start", -1>>, <<"end", -1>>, <<"id", -1>>>>

FieldOf(i, field) == IF field = "id" THEN i ELSE store[i][field]

Before(spec, i, j) ==
  \E k \in DOMAIN spec :
    /\ \A l \in 1 .. k - 1 : FieldOf(i, spec[l][1]) = FieldOf(j, spec[l][1])
    /\ spec[k][2] * FieldOf(i, spec[k][1]) < spec[k][2] * FieldOf(j, spec[k][1])

Matching == {i \in DOMAIN store : store[i].match}

\* The orders in which the database may return the matching events.
Orders(spec) ==
  LET n == Cardinality(Matching) IN
  {s \in [1..n -> Matching] :
     \A k, l \in 1..n : k < l => s[k] # s[l] /\ ~Before(spec, s[l], s[k])}

\* Mutant: the page number is taken to count from zero.
SkipsFirst(s, p, size) ==
  SubSeq(s, p * size + 1, IF (p + 1) * size < Len(s) THEN (p + 1) * size ELSE Len(s))

\* Mutant: the limit is one too high.
TakesOneMore(s, p, size) ==
  SubSeq(s, (p - 1) * size + 1,
         IF p * size + 1 < Len(s) THEN p * size + 1 ELSE Len(s))

\* skip((page - 1) * pageSize).limit(pageSize)
Slice(s, p, size) ==
  SubSeq(s, (p - 1) * size + 1,
         IF p * size < Len(s) THEN p * size ELSE Len(s))

-----------------------------------------------------------------------------
QueryItems ==
  /\ "items" \in pending
  /\ \E s \in Orders(resolveSortSpec(ask.sortBy)) :
       items' = Slice(s, page, ask.size)
  /\ pending' = pending \ {"items"}
  /\ UNCHANGED <<store, ask, page, total, seen, done, added, removed, writes>>

QueryTotal ==
  /\ "total" \in pending
  /\ total' = Cardinality(Matching)
  /\ pending' = pending \ {"total"}
  /\ UNCHANGED <<store, ask, page, items, seen, done, added, removed, writes>>

\* Mutant: the pages are asked for backwards.
TakePageBack ==
  /\ pending = {} /\ ~done
  /\ seen' = seen \o items
  /\ IF page * ask.size >= total
     THEN done' = TRUE /\ UNCHANGED <<page, pending>>
     ELSE page' = page - 1 /\ pending' = {"items", "total"} /\ UNCHANGED done
  /\ UNCHANGED <<store, ask, items, total, added, removed, writes>>

\* The client takes the page and asks for the next one, or has read enough.
TakePage ==
  /\ pending = {} /\ ~done
  /\ seen' = seen \o items
  /\ IF \/ ask.stop = "short" /\ Len(items) < ask.size
        \/ ask.stop = "total" /\ page * ask.size >= total
     THEN done' = TRUE /\ UNCHANGED <<page, pending>>
     ELSE page' = page + 1 /\ pending' = {"items", "total"} /\ UNCHANGED done
  /\ UNCHANGED <<store, ask, items, total, added, removed, writes>>

-----------------------------------------------------------------------------
Writes ==
  /\ ~done /\ writes < MaxWrites
  /\ writes' = writes + 1
  /\ UNCHANGED <<ask, page, pending, items, total, seen, done>>

With(i, e) == [j \in DOMAIN store \union {i} |-> IF j = i THEN e ELSE store[j]]
Without(i) == [j \in DOMAIN store \ {i} |-> store[j]]

\* POST api/events.  An _id is never used again.
CreateEvent ==
  /\ Writes
  /\ \E i \in Ids \ (DOMAIN store \union removed), e \in Events :
       /\ store' = With(i, e)
       /\ added' = IF e.match THEN added \union {i} ELSE added
  /\ UNCHANGED removed

\* PATCH api/events/:id, with any of the fields the order and the filter
\* depend on, or with others only.
UpdateEvent ==
  /\ Writes
  /\ \E i \in DOMAIN store, e \in Events :
       LET moved == e.start # store[i].start \/ e.end # store[i].end IN
       /\ store' = With(i, e)
       /\ added' = IF e.match /\ (moved \/ ~store[i].match)
                   THEN added \union {i} ELSE added
       /\ removed' = IF store[i].match /\ (moved \/ ~e.match)
                     THEN removed \union {i} ELSE removed

\* DELETE api/events/:id
DeleteEvent ==
  /\ Writes
  /\ \E i \in DOMAIN store :
       /\ store' = Without(i)
       /\ removed' = removed \union {i}
  /\ UNCHANGED added

Next ==
  \/ QueryItems \/ QueryTotal \/ TakePage
  \/ CreateEvent \/ UpdateEvent \/ DeleteEvent

Spec == Init /\ [][Next]_vars

-----------------------------------------------------------------------------
Untouched == {i \in Matching : i \notin added \union removed}
Repeated(s) == \E k, l \in DOMAIN s : k # l /\ s[k] = s[l]
SeenIds == {seen[k] : k \in DOMAIN seen}

\* While nothing enters, leaves or moves in the result, the pages put
\* together are the matching events, each once, in the order asked for: also
\* when events share their dates, and for either way to stop.
PagesAreComplete ==
  done /\ added = {} /\ removed = {} =>
    seen \in Orders(resolveSortSpec(ask.sortBy))

\* New events cannot make a client miss an old one, as long as it reads on
\* until a page comes back short: they only push events to later pages.
AdditionsHideNothing ==
  done /\ ask.stop = "short" /\ removed = {} => Untouched \subseteq SeenIds

\* Events that leave cannot make a client read another one twice.
RemovalsRepeatNothing == added = {} => ~Repeated(seen)
=============================================================================
