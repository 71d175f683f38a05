---------------------------- MODULE MCEventSearch ----------------------------
(* An instance of EventSearch for TLC.                                     *)
EXTENDS EventSearch, TLC

CONSTANTS b1, b2, u1, u2

\* An event for every combination of two values for each thing a filter can be
\* about (dates: before, over and after a day).  Its _id is the event.
DatedEvents ==
  { [name |-> n, status |-> s, type |-> "BuddyRead", book |-> b, threads |-> t,
     start |-> ISO(d[1]), end |-> ISO(d[2]), requestedBy |-> {u}, interested |-> i,
     readers |-> r, leaders |-> l] :
      n \in {"n1", "n2"}, s \in {"Approved", "Completed"}, b \in {b1, b2},
      t \in {{}, {"t1"}}, d \in {<<1, 1>>, <<1, 3>>, <<3, 3>>}, u \in {u1, u2},
      i \in {{}, {u1}}, r \in {{}, {u2}}, l \in {{}, {u1, u2}} }

\* A Date of the database, a text with a time zone that is sorted after the day
\* although it begins before it, and no date.
BSON(v) == [form |-> "date", instant |-> v, place |-> 0]
Zoned == [form |-> "text", instant |-> 1, place |-> 5]
NoDate == [form |-> "none", instant |-> 0, place |-> 0]

Event(status, readers, start, end) ==
  [name |-> "n1", status |-> status, type |-> "BuddyRead", book |-> b1, threads |-> {},
   start |-> start, end |-> end, requestedBy |-> {u1}, interested |-> {},
   readers |-> readers, leaders |-> {}]

OddlyDatedEvents ==
  { Event(s, r, d[1], d[2]) :
      s \in {"Approved", "Completed"}, r \in {{}, {u2}},
      d \in {<<BSON(1), BSON(3)>>, <<Zoned, ISO(3)>>, <<NoDate, NoDate>>} }

OneStore == [e \in DatedEvents \union OddlyDatedEvents |-> e]
OneStoreOrNone == {OneStore, <<>>}

\* Events of one day and of the day after, created through the API or migrated.
MigratedStore ==
  {[e \in {Event("Approved", {}, d, d) : d \in {ISO(1), ISO(3), BSON(1), BSON(3)}} |-> e]}

\* Each parameter of the filter with the values it is given.
Values ==
  [ name |-> {"n1"}, status |-> {"Completed"}, type |-> {"BuddyRead", "Other"},
    bookSearchQuery |-> {"query"},
    bookIds |-> {[ids |-> {b1}, single |-> TRUE], [ids |-> {b2}, single |-> FALSE]},
    threads |-> {{"t1", "t2"}}, startDateBefore |-> {2}, startDateAfter |-> {2, BadDate},
    endDateBefore |-> {2, BadDate}, endDateAfter |-> {2},
    participantIds |-> {{u2}}, requestedByIds |-> {{u1}},
    interestedIds |-> {{u1}}, readerIds |-> {{}, {u2}}, leaderIds |-> {{u1}} ]

Filters ==
  {<<>>}
  \union UNION {{p :> v : v \in Values[p]} : p \in DOMAIN Values}
  \union UNION {{p :> v @@ q :> w : v \in Values[p], w \in Values[q]} :
                  p \in DOMAIN Values, q \in DOMAIN Values}

\* The MCP tool turns what its schema lets through into lists; it differs from
\* the route in what it makes of dates.
ToolFilters ==
  {f \in Filters : /\ "bookIds" \in DOMAIN f => ~f.bookIds.single
                   /\ DOMAIN f \intersect DateNames # {}}

\* One date, or both ends of a range.
DateFilters == {f \in Filters : DOMAIN f \subseteq DateNames}

Projections ==
  UNION {[1..n -> [neg : BOOLEAN, path : {"", "name", "book", "leaders",
                                          "dates.startDate", "unknown"}]] : n \in 0..2}

Asking(entry, filters, fields, pages, sizes) ==
  [entry : {entry}, filter : filters, fields : fields, page : pages, pageSize : sizes]

DateAsks == Asking("rest", DateFilters, {<<>>}, {Absent}, {Absent})

AllAsks ==
  Asking("rest", Filters, {<<>>}, {Absent}, {Absent})
  \union Asking("mcp", ToolFilters, {<<>>}, {Absent}, {100})
  \union Asking("rest", {<<>>}, Projections, {Absent}, {Absent})
  \union Asking("rest", {<<>>}, {<<>>}, {Absent, 0, 1, -1}, {Absent, 0, 1, 100, 101})
=============================================================================
