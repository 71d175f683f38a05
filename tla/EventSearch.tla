----------------------------- MODULE EventSearch -----------------------------
(***************************************************************************)
(* What a request for events asks of the database, and what it gets:       *)
(* GET api/v2/events and the MCP tool events_search.                       *)
(*                                                                         *)
(* The request is parsed (fields, page and pageSize), the books of a       *)
(* bookSearchQuery are looked up, the filter is turned into a query of the *)
(* events collection, and the query is run with the references the client  *)
(* wants populated.  Books may change between the two queries.  Sorting    *)
(* and what happens to the pages when events change is in EventPaging.     *)
(*                                                                         *)
(* The schema of an event gives its dates no type, so that each is stored  *)
(* as it comes: as the text a client of the API sent, or as a Date of the  *)
(* database from the migration.  The filter compares with the text of      *)
(* toISOString, which MongoDB only does with other texts, by their letters.*)
(***************************************************************************)
EXTENDS Integers, Sequences, FiniteSets

CONSTANTS
  Books,       \* book ids
  Collections, \* what the events collection may hold: _id to event
  Requests,    \* the requests clients make: [entry, filter, fields, page, pageSize]
  Absent,      \* a parameter that is not given
  BadDate,     \* a date that does not parse
  MaxChanges   \* bound: how often the books change while the request runs

Roles == {"requestedBy", "interested", "readers", "leaders"}

\* Event.  A role is the set of its users, also the one of requestedBy.
EventFields ==
  {"name", "book", "threads", "status", "type", "dates", "description"} \union Roles

\* EVENT_PROJECTION_ALLOWLIST, and the top-level field of each path.
EVENT_PROJECTION_ALLOWLIST == EventFields \union {"dates.startDate", "dates.endDate"}
TopLevel(path) == IF path \in EventFields THEN path ELSE "dates"

MAX_PAGE_SIZE == 100

\* The date parameters, the path each restricts and in which direction.
DateParameters ==
  { <<"startDateBefore", "dates.startDate", "lte">>,
    <<"startDateAfter", "dates.startDate", "gte">>,
    <<"endDateBefore", "dates.endDate", "lte">>,
    <<"endDateAfter", "dates.endDate", "gte">> }

DateNames == {d[1] : d \in DateParameters}

\* A date as it is stored: a text, a Date of the database, or neither; the
\* instant it stands for; and for a text its place in the order of texts, that
\* of toISOString of instant v being at 2 * v (in the years of four digits) and
\* the other ways to write a date before, between and after these.
StoredDates == [form : {"text", "date", "none"}, instant : Int, place : Int]
ISO(v) == [form |-> "text", instant |-> v, place |-> 2 * v]

\* EventFilterV2Dto.  The other parameters take a value or a set of values.
Parameters ==
  {"bookSearchQuery", "bookIds", "name", "threads", "status", "type", "participantIds",
   "requestedByIds", "interestedIds", "readerIds", "leaderIds"}
  \union DateNames

ASSUME AbsentAssumption == Absent \notin Int \union {BadDate}
ASSUME ChangesAssumption == MaxChanges \in Nat
ASSUME RequestAssumption ==
  \A r \in Requests :
    /\ DOMAIN r.filter \subseteq Parameters
    /\ \A d \in DateParameters :
         d[1] \in DOMAIN r.filter => r.filter[d[1]] \in Int \union {BadDate}
ASSUME CollectionAssumption ==
  \A c \in Collections : \A i \in DOMAIN c :
    c[i].start \in StoredDates /\ c[i].end \in StoredDates

VARIABLES
  collection,  \* the events collection
  titled,      \* the books the text search of bookSearchQuery finds
  request,     \* the request
  pc,          \* the await its handler is suspended at
  hits,        \* the books findBooks returned
  answer,      \* "none", "badRequest", "error" or "page"
  found,       \* the ids of the events on it
  populated,   \* the references that are populated in them
  changes

searchVars == <<collection, titled, request, pc, hits, answer, found, populated, changes>>

SearchTypeOK ==
  /\ collection \in Collections
  /\ titled \subseteq Books /\ hits \subseteq Books
  /\ request \in Requests
  /\ pc \in {"idle", "books", "events", "done"}
  /\ answer \in {"none", "badRequest", "error", "page"}
  /\ found \subseteq DOMAIN collection
  /\ answer # "page" => found = {} /\ populated = {}
  /\ populated \subseteq Roles \union {"book"}
  /\ changes \in 0 .. MaxChanges

SearchInit ==
  /\ collection \in Collections
  /\ titled \in SUBSET Books
  /\ request \in Requests
  /\ pc = "idle" /\ hits = {} /\ answer = "none" /\ found = {} /\ populated = {}
  /\ changes = 0

-----------------------------------------------------------------------------
(* The parameters that are parsed before the handler waits for anything.   *)

\* parsePositiveInt, with a fallback for a parameter that is not given.
PositiveInt(input) == input \in Int /\ input >= 1
Parsed(input, fallback) == IF input = Absent THEN fallback ELSE input

PageIsValid ==
  /\ PositiveInt(Parsed(request.page, 1))
  /\ PositiveInt(Parsed(request.pageSize, 20))
  /\ Parsed(request.pageSize, 20) <= MAX_PAGE_SIZE

\* parseEventProjection.  fields is a sequence of entries [neg, path]: neg is
\* TRUE for one that starts with "-".
Entries == {request.fields[k] : k \in DOMAIN request.fields}
Mode ==
  IF Entries = {} THEN "none"
  ELSE IF \E e \in Entries : e.neg THEN "exclude" ELSE "include"

ProjectionIsValid ==
  /\ \A e, f \in Entries : e.neg = f.neg
  /\ \A e \in Entries : e.path \in EVENT_PROJECTION_ALLOWLIST

topLevelFields == {TopLevel(e.path) : e \in Entries}

\* Mutant: exclusion is not told from inclusion.
PopulatesListed ==
  CASE Mode = "none" -> Roles \union {"book"}
    [] OTHER -> (Roles \union {"book"}) \intersect topLevelFields

\* Mutant: the fields asked for are populated, references or not.
PopulatesFields == IF Mode = "none" THEN Roles \union {"book"} ELSE topLevelFields

planEventPopulates ==
  CASE Mode = "none" -> Roles \union {"book"}
    [] Mode = "include" -> (Roles \union {"book"}) \intersect topLevelFields
    [] Mode = "exclude" -> (Roles \union {"book"}) \ topLevelFields

Given(p) == p \in DOMAIN request.filter
BadDates == \E d \in DateParameters : Given(d[1]) /\ request.filter[d[1]] = BadDate

\* The input schema of the MCP tool, which GET api/v2/events does not have.
SchemaRefuses == request.entry = "mcp" /\ BadDates

-----------------------------------------------------------------------------
(* getFilterQuery: a conjunction of conditions.  A condition holds of an   *)
(* event when one of its paths has a value that passes the test.           *)

Condition(paths, op, value) == [paths |-> paths, op |-> op, value |-> value]

\* The conditions of a parameter that is compared with one path.
Compares(p, path, op) ==
  IF Given(p) THEN {Condition({path}, op, request.filter[p])} ELSE {}

\* Those of one that is compared with a date.
ComparesDate(p, path, op) ==
  IF Given(p) THEN {Condition({path}, op, ISO(request.filter[p]))} ELSE {}

\* Mutant: the books that were found replace those asked for by id.
FoundBooksOnly ==
  IF hits # {} THEN {Condition({"book"}, "in", hits)}
  ELSE IF Given("bookIds") THEN {Condition({"book"}, "in", request.filter.bookIds.ids)}
  ELSE {}

\* The books that were found join those asked for by id.  When none was found
\* the search adds no condition.
BookCondition ==
  LET ids == IF Given("bookIds") THEN request.filter.bookIds.ids ELSE {} IN
  IF hits # {} \/ Given("bookIds")
  THEN {Condition({"book"}, "in", ids \union hits)} ELSE {}

\* Mutant: the second date of a range replaces the first.
FilterLastDate ==
  BookCondition
  \union Compares("name", "name", "eq")
  \union Compares("threads", "threads", "in")
  \union Compares("status", "status", "eq")
  \union Compares("type", "type", "eq")
  \union (IF Given("startDateAfter")
          THEN ComparesDate("startDateAfter", "dates.startDate", "gte")
          ELSE ComparesDate("startDateBefore", "dates.startDate", "lte"))
  \union (IF Given("endDateAfter")
          THEN ComparesDate("endDateAfter", "dates.endDate", "gte")
          ELSE ComparesDate("endDateBefore", "dates.endDate", "lte"))
  \union (IF Given("participantIds")
          THEN {Condition(Roles, "in", request.filter.participantIds)} ELSE {})
  \union Compares("requestedByIds", "requestedBy", "in")
  \union Compares("interestedIds", "interested", "in")
  \union Compares("readerIds", "readers", "in")
  \union Compares("leaderIds", "leaders", "in")

getFilterQuery ==
  BookCondition
  \union Compares("name", "name", "eq")
  \union Compares("threads", "threads", "in")
  \union Compares("status", "status", "eq")
  \union Compares("type", "type", "eq")
  \union (UNION {ComparesDate(d[1], d[2], d[3]) : d \in DateParameters})
  \union (IF Given("participantIds")
          THEN {Condition(Roles, "in", request.filter.participantIds)} ELSE {})
  \union Compares("requestedByIds", "requestedBy", "in")
  \union Compares("interestedIds", "interested", "in")
  \union Compares("readerIds", "readers", "in")
  \union Compares("leaderIds", "leaders", "in")

\* MongoDB: the values an event has at a path, and whether a condition holds.
\* Only values of one type are told smaller from greater, texts by their place.
DateAt(e, path) == IF path = "dates.startDate" THEN e.start ELSE e.end

ValuesAt(e, path) ==
  CASE path \in {"dates.startDate", "dates.endDate"} -> {DateAt(e, path)}
    [] path \in Roles \union {"threads"} -> e[path]
    [] OTHER -> {e[path]}

Holds(e, c) ==
  \E path \in c.paths : \E v \in ValuesAt(e, path) :
    \/ c.op = "eq" /\ v = c.value
    \/ c.op = "in" /\ v \in c.value
    \/ c.op = "lte" /\ v.form = c.value.form /\ v.place <= c.value.place
    \/ c.op = "gte" /\ v.form = c.value.form /\ v.place >= c.value.place

-----------------------------------------------------------------------------
Refuse(what) ==
  /\ pc' = "done" /\ answer' = what
  /\ UNCHANGED <<hits, found, populated>>

\* One bookIds in the query string arrives as a string, which books cannot be
\* added to.
CanAdd(books) == books = {} \/ ~Given("bookIds") \/ ~request.filter.bookIds.single

Receive ==
  /\ pc = "idle"
  /\ IF SchemaRefuses \/ ~ProjectionIsValid \/ ~PageIsValid
     THEN Refuse("badRequest")
     ELSE IF ~Given("bookSearchQuery") /\ BadDates
     THEN Refuse("error")
     ELSE /\ pc' = IF Given("bookSearchQuery") THEN "books" ELSE "events"
          /\ UNCHANGED <<hits, answer, found, populated>>
  /\ UNCHANGED <<collection, titled, request, changes>>

\* findBooks answers, and the rest of getFilterQuery runs.
FindBooks ==
  /\ pc = "books"
  /\ hits' = titled
  /\ IF CanAdd(titled) /\ ~BadDates
     THEN pc' = "events" /\ UNCHANGED answer
     ELSE pc' = "done" /\ answer' = "error"
  /\ UNCHANGED <<collection, titled, request, found, populated, changes>>

\* The events the query matches.  (EventPaging cuts them into pages.)
FindEvents ==
  /\ pc = "events"
  /\ pc' = "done" /\ answer' = "page"
  /\ found' = {i \in DOMAIN collection : \A c \in getFilterQuery : Holds(collection[i], c)}
  /\ populated' = planEventPopulates
  /\ UNCHANGED <<collection, titled, request, hits, changes>>

\* A query fails; the text search also when its index is not there yet.
DbFails ==
  /\ pc \in {"books", "events"}
  /\ Refuse("error")
  /\ UNCHANGED <<collection, titled, request, changes>>

\* A book is added, or the migrations write one again with another title.
ChangeBook ==
  /\ pc \in {"books", "events"} /\ changes < MaxChanges
  /\ changes' = changes + 1
  /\ \E b \in Books :
       titled' = IF b \in titled THEN titled \ {b} ELSE titled \union {b}
  /\ UNCHANGED <<collection, request, pc, hits, answer, found, populated>>

SearchNext == Receive \/ FindBooks \/ FindEvents \/ DbFails \/ ChangeBook

SearchSpec == SearchInit /\ [][SearchNext]_searchVars

-----------------------------------------------------------------------------
(* What a client means by its filter, parameter by parameter.              *)

Overlaps(S, T) == S \intersect T # {}

Dated(v) == v.form # "none"

AsksFor(e, p) ==
  LET v == request.filter[p] IN
  CASE p \in {"name", "status", "type"} -> e[p] = v
    [] p = "bookIds" -> e.book \in v.ids
    [] p = "threads" -> Overlaps(e.threads, v)
    [] p = "startDateBefore" -> Dated(e.start) /\ e.start.instant <= v
    [] p = "startDateAfter" -> Dated(e.start) /\ v <= e.start.instant
    [] p = "endDateBefore" -> Dated(e.end) /\ e.end.instant <= v
    [] p = "endDateAfter" -> Dated(e.end) /\ v <= e.end.instant
    [] p = "participantIds" -> \E role \in Roles : Overlaps(e[role], v)
    [] p = "requestedByIds" -> Overlaps(e.requestedBy, v)
    [] p = "interestedIds" -> Overlaps(e.interested, v)
    [] p = "readerIds" -> Overlaps(e.readers, v)
    [] p = "leaderIds" -> Overlaps(e.leaders, v)

Asked == DOMAIN request.filter \ {"bookSearchQuery"}
IsISO(v) == v = ISO(v.instant)

\* Without a search the parameters combine as a conjunction, a range of dates
\* keeps both ends, and a participant counts in any role.  What the dates add
\* depends on how they are stored: of the events whose dates are asked about
\* and are texts as toISOString writes them, the page holds those that every
\* parameter asks for and no others; and whatever it holds has texts for these
\* dates, and all that the other parameters ask for.
FilterIsConjunction ==
  answer = "page" /\ ~Given("bookSearchQuery") =>
    \A i \in DOMAIN collection :
      LET e == collection[i] IN
      /\ i \in found =>
           /\ \A p \in Asked \ DateNames : AsksFor(e, p)
           /\ \A d \in DateParameters : Given(d[1]) => DateAt(e, d[2]).form = "text"
      /\ (\A d \in DateParameters : Given(d[1]) => IsISO(DateAt(e, d[2]))) =>
           (i \in found <=> \A p \in Asked : AsksFor(e, p))

\* EventFilterV2Dto: an event that began before the date given, and is all else
\* that is asked for, is found.  It is not when the migration stored it.
FilterFindsAll ==
  answer = "page" /\ ~Given("bookSearchQuery") =>
    \A i \in DOMAIN collection :
      (\A p \in Asked : AsksFor(collection[i], p)) => i \in found

\* A search that finds books restricts the page to them and to the books
\* asked for by id, as they were when the search was made, whatever became of
\* the books since.
SearchWidensIds ==
  answer = "page" /\ hits # {} =>
    LET ids == IF Given("bookIds") THEN request.filter.bookIds.ids ELSE {} IN
    \A i \in DOMAIN collection :
      /\ i \in found => collection[i].book \in ids \union hits
      /\ DOMAIN request.filter \subseteq {"bookSearchQuery", "bookIds"}
           /\ collection[i].book \in ids \union hits => i \in found

\* MongoDB's select: the top-level fields of an event that are returned.
Returned ==
  CASE Mode = "none" -> EventFields
    [] Mode = "include" -> topLevelFields
    [] Mode = "exclude" -> EventFields \ {e.path : e \in Entries}

\* Every reference a client gets is populated, and no query is made for one
\* that it does not get.
PopulatesWhatIsReturned ==
  answer = "page" => populated = Returned \intersect (Roles \union {"book"})
=============================================================================
