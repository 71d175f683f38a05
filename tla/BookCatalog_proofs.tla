------------------------- MODULE BookCatalog_proofs -------------------------
(***************************************************************************)
(* Proofs about BookCatalog, for every set of requests and pages: the type *)
(* invariant, the safety invariants the runs check, and that createBook    *)
(* with an index in place implements the atomic create of KeyedCollection. *)
(***************************************************************************)
EXTENDS BookCatalog, TLAPS

\* What the safety invariants need to be inductive: a book carries the
\* normalised url of the request that inserted it, that request is past its
\* insert, and the book a handler goes on with is stored under the page the
\* handler was asked for.
BookOfItsRequest ==
  \A b \in books : /\ b.url = Normalise(req[b.id].url)
                   /\ pc[b.id] \in {"link", "done"}

FoundIsStored ==
  \A r \in Requests :
    /\ found[r] # NoBook =>
         \E b \in books : b.id = found[r] /\ b.url.page = Page(r)
    /\ pc[r] = "link" => found[r] # NoBook

EventPoints ==
  \A r \in Requests : pc[r] \in {"lookup", "link"} => req[r].kind = "eventUrl"

PendingIsUnanswered ==
  \A r \in Requests : pc[r] # "done" => outcome[r] = "none"

IndexUnique ==
  index = "built" => \A b, c \in books : b.url = c.url => b = c

IInv ==
  /\ TypeOK
  /\ BookOfItsRequest
  /\ FoundIsStored
  /\ EventPoints
  /\ PendingIsUnanswered
  /\ IndexUnique
  /\ EventHasItsBook
  /\ RefusalJustified
  /\ CreatedIsStored

-----------------------------------------------------------------------------
\* The books a filter on r's url finds are the books of r's page.
LEMMA MatchesPage ==
  ASSUME IInv, NEW r \in Requests
  PROVE  Matches(req[r].url) = {b \in books : b.url.page = Page(r)}
<1>1. req[r].url \in Urls
  BY DEF IInv, TypeOK
<1>2. ASSUME NEW b \in books
      PROVE  b.url = [page |-> b.url.page, query |-> FALSE]
  <2>1. b.id \in Requests /\ req[b.id].url \in Urls
    BY DEF IInv, TypeOK
  <2>2. b.url = Normalise(req[b.id].url)
    BY DEF IInv, BookOfItsRequest
  <2> QED
    BY <2>1, <2>2 DEF Normalise
<1>3. Normalise(req[r].url) = [page |-> Page(r), query |-> FALSE]
  BY <1>1 DEF Page, Normalise
<1>4. \A b \in books : b.url = Normalise(req[r].url) <=> b.url.page = Page(r)
  BY <1>2, <1>3
<1> QED
  BY <1>4 DEF Matches

\* With the index built, a page has one book: books carry normalised urls.
LEMMA OneBook == IInv => OneBookPerPage
<1> SUFFICES ASSUME IInv, index = "built",
                    NEW b \in books, NEW c \in books, b.url.page = c.url.page
             PROVE  b = c
  BY DEF OneBookPerPage
<1>1. b.id \in Requests /\ Page(b.id) = b.url.page
  <2>1. b.id \in Requests /\ req[b.id].url \in Urls
    BY DEF IInv, TypeOK
  <2>2. b.url = Normalise(req[b.id].url)
    BY DEF IInv, BookOfItsRequest
  <2> QED
    BY <2>1, <2>2 DEF Page, Normalise
<1>2. {b, c} \subseteq Matches(req[b.id].url)
  BY <1>1, MatchesPage
<1>3. b.url = c.url
  BY <1>2 DEF Matches
<1> QED
  BY <1>3 DEF IInv, IndexUnique

-----------------------------------------------------------------------------
\* A step of one request that stores nothing and does not go on to link.
LEMMA QuietStep ==
  ASSUME IInv, NEW r \in Requests,
         UNCHANGED <<books, events, index, req, found, restarts>>,
         NEW point \in Points \ {"link"}, NEW what \in Outcomes,
         pc' = [pc EXCEPT ![r] = point],
         outcome' = [outcome EXCEPT ![r] = what],
         pc[r] \in {"link", "done"} => point = "done",
         point = "lookup" => req[r].kind = "eventUrl",
         point # "done" => what = "none",
         what \in {"created", "exists", "duplicateKey", "multiple"} =>
           \/ what = outcome[r]
           \/ /\ what \in {"exists", "duplicateKey"}
              /\ Matches(req[r].url) # {}
           \/ /\ what = "multiple"
              /\ \E b, c \in Matches(req[r].url) : b # c
  PROVE  IInv'
<1>1. TypeOK'
  BY DEF IInv, TypeOK
<1>2. BookOfItsRequest'
  BY DEF IInv, TypeOK, BookOfItsRequest, Normalise
<1>3. FoundIsStored'
  BY DEF IInv, TypeOK, FoundIsStored, Page
<1>8. EventPoints' /\ PendingIsUnanswered'
  BY DEF IInv, TypeOK, EventPoints, PendingIsUnanswered
<1>4. IndexUnique'
  BY DEF IInv, IndexUnique
<1>5. EventHasItsBook'
  BY DEF IInv, EventHasItsBook, Page
<1>6. RefusalJustified'
  <2> SUFFICES ASSUME NEW q \in Requests
               PROVE  LET stored == {b \in books : b.url.page = Page(q)} IN
                      /\ outcome'[q] \in {"exists", "duplicateKey"} =>
                           stored # {}
                      /\ outcome'[q] = "multiple" =>
                           \E b, c \in stored : b # c
    BY DEF RefusalJustified, Page
  <2>1. CASE outcome'[q] = outcome[q]
    BY <2>1 DEF IInv, RefusalJustified
  <2>2. CASE q = r /\ outcome'[q] # outcome[q]
    <3>1. outcome'[q] = what
      BY <2>2 DEF IInv, TypeOK
    <3>2. Matches(req[r].url) = {b \in books : b.url.page = Page(r)}
      BY MatchesPage
    <3> QED
      BY <2>2, <3>1, <3>2
  <2> QED
    BY <2>1, <2>2 DEF IInv, TypeOK
<1>7. CreatedIsStored'
  BY DEF IInv, TypeOK, CreatedIsStored
<1> QED
  BY <1>1, <1>2, <1>3, <1>4, <1>5, <1>6, <1>7, <1>8 DEF IInv

LEMMA RouteStep ==
  ASSUME IInv, NEW r \in Requests, pc[r] \notin {"link", "done"}, RouteByUrl(r),
         UNCHANGED <<books, events, index, req, found, restarts>>
  PROVE  IInv'
<1>1. pc[r] # "done" => /\ outcome[r] = "none"
                         /\ outcome = [outcome EXCEPT ![r] = "none"]
  BY DEF IInv, TypeOK, PendingIsUnanswered
<1>2. CASE Answer(r, "badRequest")
  BY <1>2, QuietStep DEF Answer, Points, Outcomes, Refusals
<1>3. CASE Goto(r, "fetch")
  BY <1>1, <1>3, QuietStep DEF Goto, Points, Outcomes
<1> QED
  BY <1>2, <1>3 DEF RouteByUrl

\* The steps that look a book up or refuse.
LEMMA LookupBookStep ==
  ASSUME IInv, NEW r \in Requests, LookupBook(r) PROVE IInv'
<1>1. CASE Matches(req[r].url) = {} /\ RouteByUrl(r) /\ UNCHANGED found
  BY <1>1, RouteStep DEF LookupBook
<1>2. CASE /\ \E b, c \in Matches(req[r].url) : b # c
           /\ Answer(r, "multiple") /\ UNCHANGED found
  BY <1>2, QuietStep DEF LookupBook, Answer, Points, Outcomes, Refusals
<1>3. ASSUME NEW b \in Matches(req[r].url),
             found' = [found EXCEPT ![r] = b.id], Goto(r, "link")
      PROVE  IInv'
  <2> USE <1>3 DEF LookupBook, Goto
  <2>1. b \in books /\ b.id \in Requests /\ b.url.page = Page(r)
    BY MatchesPage DEF IInv, TypeOK
  <2>2. TypeOK'
    BY <2>1 DEF IInv, TypeOK, Points
  <2>3. BookOfItsRequest'
    BY DEF IInv, TypeOK, BookOfItsRequest, Normalise
  <2>4. FoundIsStored' /\ EventPoints' /\ PendingIsUnanswered'
    BY <2>1, NoBookAssumption
       DEF IInv, TypeOK, FoundIsStored, EventPoints, PendingIsUnanswered, Page
  <2>5. IndexUnique' /\ EventHasItsBook' /\ RefusalJustified' /\ CreatedIsStored'
    BY DEF IInv, IndexUnique, EventHasItsBook, RefusalJustified,
           CreatedIsStored, Page
  <2> QED
    BY <2>2, <2>3, <2>4, <2>5 DEF IInv
<1> QED
  BY <1>1, <1>2, <1>3 DEF LookupBook

LEMMA CheckBookStep ==
  ASSUME IInv, NEW r \in Requests, CheckBook(r) PROVE IInv'
<1> USE DEF CheckBook
<1>1. pc[r] # "done" => /\ outcome[r] = "none"
                         /\ outcome = [outcome EXCEPT ![r] = "none"]
  BY DEF IInv, TypeOK, PendingIsUnanswered
<1>2. CASE Goto(r, "insert")
  BY <1>1, <1>2, QuietStep DEF Goto, Points, Outcomes
<1>3. CASE /\ \E b \in Matches(req[r].url) : Matches(req[r].url) = {b}
           /\ Answer(r, "exists")
  BY <1>3, QuietStep DEF Answer, Points, Outcomes, Refusals
<1>4. CASE /\ \E b, c \in Matches(req[r].url) : b # c
           /\ Answer(r, "multiple")
  BY <1>4, QuietStep DEF Answer, Points, Outcomes, Refusals
<1> QED
  BY <1>2, <1>3, <1>4

LEMMA InsertRefusedStep ==
  ASSUME IInv, NEW r \in Requests, InsertRefused(r) PROVE IInv'
BY QuietStep
   DEF InsertRefused, IndexAdmits, Answer, Points, Outcomes, Refusals

\* The only step that stores a book.
LEMMA InsertBookStep ==
  ASSUME IInv, NEW r \in Requests, InsertBook(r) PROVE IInv'
<1> USE DEF InsertBook, Answer, Goto
<1> DEFINE new == [id |-> r, url |-> Normalise(req[r].url)]
<1>1. /\ pc[r] = "insert" /\ books' = books \union {new}
      /\ pc' \in {[pc EXCEPT ![r] = "link"], [pc EXCEPT ![r] = "done"]}
      /\ UNCHANGED <<events, index, req, restarts>>
  OBVIOUS
<1>2. new \in [id : Requests, url : Urls] /\ new.url.page = Page(r)
  BY DEF IInv, TypeOK, Normalise, Urls, Page
<1>3. TypeOK'
  BY <1>1, <1>2 DEF IInv, TypeOK, Points, Outcomes, Failures
<1>4. BookOfItsRequest'
  BY <1>1 DEF IInv, TypeOK, BookOfItsRequest
<1>5. FoundIsStored'
  <2> SUFFICES ASSUME NEW q \in Requests
               PROVE  /\ found'[q] # NoBook =>
                           \E b \in books' : b.id = found'[q]
                                             /\ b.url.page = Page(q)
                      /\ pc'[q] = "link" => found'[q] # NoBook
    BY <1>1 DEF FoundIsStored, Page
  <2>1. CASE q # r
    BY <1>1, <2>1 DEF IInv, TypeOK, FoundIsStored
  <2>2. CASE q = r /\ Answer(r, "dbError") /\ found' = found
    <3>1. pc'[q] = "done"
      BY <2>2 DEF IInv, TypeOK
    <3> QED
      BY <1>1, <2>2, <3>1 DEF IInv, FoundIsStored
  <2>3. CASE q = r /\ found' = [found EXCEPT ![r] = r]
    BY <1>1, <1>2, <2>3, NoBookAssumption DEF IInv, TypeOK
  <2> QED
    BY <2>1, <2>2, <2>3
<1>6. EventPoints' /\ PendingIsUnanswered'
  BY <1>1 DEF IInv, TypeOK, EventPoints, PendingIsUnanswered
<1>7. IndexUnique'
  BY <1>1 DEF IInv, IndexUnique, IndexAdmits, Matches
<1>8. EventHasItsBook'
  BY <1>1 DEF IInv, EventHasItsBook, Page
<1>9. RefusalJustified'
  <2> SUFFICES ASSUME NEW q \in Requests
               PROVE  LET stored == {b \in books' : b.url.page = Page(q)} IN
                      /\ outcome'[q] \in {"exists", "duplicateKey"} =>
                           stored # {}
                      /\ outcome'[q] = "multiple" =>
                           \E b, c \in stored : b # c
    BY <1>1 DEF RefusalJustified, Page
  <2>1. \/ outcome'[q] = outcome[q]
        \/ outcome'[q] \in {"created", "dbError"}
    BY DEF IInv, TypeOK
  <2> QED
    BY <1>1, <2>1 DEF IInv, RefusalJustified
<1>10. CreatedIsStored'
  <2> SUFFICES ASSUME NEW q \in Requests, outcome'[q] = "created"
               PROVE  IF req[q].kind = "eventUrl"
                      THEN \E e \in events : e.id = q
                      ELSE \E b \in books' : b.id = q
    BY <1>1 DEF CreatedIsStored
  <2>1. CASE outcome'[q] = outcome[q]
    BY <1>1, <2>1 DEF IInv, CreatedIsStored
  <2>2. CASE outcome'[q] # outcome[q]
    <3>1. q = r /\ req[q].kind # "eventUrl"
      BY <2>2 DEF IInv, TypeOK
    <3>2. new \in books' /\ new.id = r
      BY <1>1
    <3> QED
      BY <3>1, <3>2
  <2> QED
    BY <2>1, <2>2
<1> QED
  BY <1>3, <1>4, <1>5, <1>6, <1>7, <1>8, <1>9, <1>10 DEF IInv

\* The only step that stores an event.
LEMMA LinkEventStep ==
  ASSUME IInv, NEW r \in Requests, LinkEvent(r) PROVE IInv'
<1> USE DEF LinkEvent, Answer
<1> DEFINE new == [id |-> r, book |-> found[r]]
<1>1. CASE Answer(r, "invalid") /\ UNCHANGED events
  BY <1>1, QuietStep DEF Points, Outcomes, Failures
<1>2. ASSUME NEW what \in {"created", "dbError"}, Answer(r, what),
             events' = events \union {new}
      PROVE  IInv'
  <2>1. \E b \in books : b.id = found[r] /\ b.url.page = Page(r)
    BY DEF IInv, FoundIsStored
  <2>2. new \in [id : Requests, book : Requests]
    BY <2>1 DEF IInv, TypeOK
  <2>3. /\ pc[r] = "link" /\ pc' = [pc EXCEPT ![r] = "done"]
        /\ outcome' = [outcome EXCEPT ![r] = what]
        /\ UNCHANGED <<books, index, req, found, restarts>>
    BY <1>2
  <2>4. TypeOK'
    BY <1>2, <2>2, <2>3 DEF IInv, TypeOK, Points, Outcomes, Failures
  <2>5. /\ BookOfItsRequest' /\ FoundIsStored' /\ EventPoints' /\ IndexUnique'
        /\ PendingIsUnanswered'
    BY <2>3 DEF IInv, TypeOK, BookOfItsRequest, FoundIsStored, EventPoints,
                PendingIsUnanswered, IndexUnique, Page, Normalise
  <2>6. RefusalJustified'
    <3>1. \A q \in Requests : \/ outcome'[q] = outcome[q]
                              \/ outcome'[q] \in {"created", "dbError"}
      BY <2>3 DEF IInv, TypeOK
    <3> QED
      BY <2>3, <3>1 DEF IInv, RefusalJustified, Page
  <2>7. EventHasItsBook'
    BY <1>2, <2>1, <2>3 DEF IInv, EventHasItsBook, Page
  <2>8. CreatedIsStored'
    <3>1. \A q \in Requests : q = r \/ outcome'[q] = outcome[q]
      BY <2>3 DEF IInv, TypeOK
    <3>2. req[r].kind = "eventUrl"
      BY <2>3 DEF IInv, EventPoints
    <3>3. new \in events' /\ new.id = r
      BY <1>2
    <3> QED
      BY <1>2, <2>3, <3>1, <3>2, <3>3 DEF IInv, CreatedIsStored
  <2> QED
    BY <2>4, <2>5, <2>6, <2>7, <2>8 DEF IInv
<1> QED
  BY <1>1, <1>2

LEMMA BuildIndexStep == IInv /\ BuildIndex => IInv'
BY DEF BuildIndex, IInv, TypeOK, BookOfItsRequest, FoundIsStored, EventPoints,
       PendingIsUnanswered, IndexUnique, EventHasItsBook, RefusalJustified, CreatedIsStored, Page,
       Normalise

LEMMA RestartStep == IInv /\ Restart => IInv'
<1> SUFFICES ASSUME IInv, Restart PROVE IInv'
  OBVIOUS
<1> USE DEF Restart
<1>1. \A r \in Requests :
        /\ pc'[r] \in {"idle", "done"} /\ (pc[r] = "done" => pc'[r] = "done")
        /\ pc[r] = "link" => pc'[r] = "done"
        /\ outcome'[r] \in {outcome[r], "lost"}
  BY DEF IInv, TypeOK
<1>2. TypeOK'
  BY RestartAssumption DEF IInv, TypeOK, Points, Outcomes, Failures
<1>3. BookOfItsRequest'
  BY <1>1 DEF IInv, TypeOK, BookOfItsRequest, Normalise
<1>4. FoundIsStored' /\ EventPoints' /\ PendingIsUnanswered'
  BY <1>1 DEF IInv, TypeOK, FoundIsStored, EventPoints, PendingIsUnanswered, Page
<1>5. IndexUnique' /\ EventHasItsBook'
  BY DEF IInv, IndexUnique, EventHasItsBook, Page
<1>6. RefusalJustified'
  BY <1>1 DEF IInv, RefusalJustified, Page
<1>7. CreatedIsStored'
  BY <1>1 DEF IInv, CreatedIsStored
<1> QED
  BY <1>2, <1>3, <1>4, <1>5, <1>6, <1>7 DEF IInv

LEMMA QuietSteps ==
  ASSUME IInv, NEW r \in Requests,
         \/ PostBook(r) \/ PostBookUrl(r) \/ PostEventUrl(r)
         \/ FetchAnswers(r) \/ FetchFails(r) \/ DbFails(r)
  PROVE  IInv'
<1>1. pc[r] # "done" => /\ outcome[r] = "none"
                         /\ outcome = [outcome EXCEPT ![r] = "none"]
  BY DEF IInv, TypeOK, PendingIsUnanswered
<1> USE DEF Points, Outcomes, Refusals, Failures
<1>2. CASE PostBook(r)
  BY <1>1, <1>2, QuietStep DEF PostBook, Goto
<1>3. CASE PostBookUrl(r)
  BY <1>3, RouteStep DEF PostBookUrl
<1>4. CASE PostEventUrl(r)
  BY <1>1, <1>4, QuietStep DEF PostEventUrl, Goto
<1>5. CASE FetchAnswers(r)
  BY <1>1, <1>5, QuietStep DEF FetchAnswers, Goto
<1>6. CASE FetchFails(r)
  BY <1>6, QuietStep DEF FetchFails, Answer
<1>7. CASE DbFails(r)
  BY <1>7, QuietStep DEF DbFails, Answer
<1> QED
  BY <1>2, <1>3, <1>4, <1>5, <1>6, <1>7

-----------------------------------------------------------------------------
LEMMA Inductive == Spec => []IInv
<1>1. Init => IInv
  BY NoBookAssumption, BootAssumption, RestartAssumption
     DEF Init, IInv, TypeOK, BookOfItsRequest, FoundIsStored, EventPoints,
         PendingIsUnanswered, IndexUnique, EventHasItsBook, RefusalJustified, CreatedIsStored,
         Points, Outcomes, Refusals, Failures
<1>2. IInv /\ [Next]_vars => IInv'
  <2> SUFFICES ASSUME IInv, [Next]_vars PROVE IInv'
    OBVIOUS
  <2>1. ASSUME NEW r \in Requests,
               \/ PostBook(r) \/ PostBookUrl(r) \/ PostEventUrl(r)
               \/ FetchAnswers(r) \/ FetchFails(r) \/ DbFails(r)
        PROVE  IInv'
    BY <2>1, QuietSteps
  <2>2. ASSUME NEW r \in Requests, LookupBook(r) PROVE IInv'
    BY <2>2, LookupBookStep
  <2>3. ASSUME NEW r \in Requests, CheckBook(r) PROVE IInv'
    BY <2>3, CheckBookStep
  <2>4. ASSUME NEW r \in Requests, InsertBook(r) PROVE IInv'
    BY <2>4, InsertBookStep
  <2>5. ASSUME NEW r \in Requests, InsertRefused(r) PROVE IInv'
    BY <2>5, InsertRefusedStep
  <2>6. ASSUME NEW r \in Requests, LinkEvent(r) PROVE IInv'
    BY <2>6, LinkEventStep
  <2>7. CASE BuildIndex
    BY <2>7, BuildIndexStep
  <2>8. CASE Restart
    BY <2>8, RestartStep
  <2>9. CASE UNCHANGED vars
    BY <2>9 DEF vars, IInv, TypeOK, BookOfItsRequest, FoundIsStored,
       EventPoints, PendingIsUnanswered, IndexUnique, EventHasItsBook,
       RefusalJustified, CreatedIsStored, Page, Normalise
  <2> QED
    BY <2>1, <2>2, <2>3, <2>4, <2>5, <2>6, <2>7, <2>8, <2>9 DEF Next
<1> QED
  BY <1>1, <1>2, PTL DEF Spec

\* Every step keeps every variable in its range; in particular an event is
\* never stored without a book.
THEOREM TypeCorrect == Spec => []TypeOK
<1>1. IInv => TypeOK
  BY DEF IInv
<1> QED
  BY <1>1, Inductive, PTL

\* However many requests create books at the same time, and whatever the
\* restarts, a page has one book once the index on Book.url exists.
THEOREM CatalogUnique == Spec => []OneBookPerPage
BY Inductive, OneBook, PTL

\* An event refers to a stored book, the one of the page its request named.
THEOREM EventsKeepTheirBook == Spec => []EventHasItsBook
<1>1. IInv => EventHasItsBook
  BY DEF IInv
<1> QED
  BY <1>1, Inductive, PTL

\* A client is told that a book exists, or that several do, or that its
\* document was created, only when that is so.
THEOREM AnswersAreTrue == Spec => []AnswersAreBacked
<1>1. IInv => AnswersAreBacked
  BY DEF IInv, AnswersAreBacked
<1> QED
  BY <1>1, Inductive, PTL

-----------------------------------------------------------------------------
(***************************************************************************)
(* The refinement of KeyedCollection.                                      *)
(***************************************************************************)
\* The mapping's value for one request, now and after a step.
LEMMA ToldOf ==
  ASSUME NEW r \in Requests
  PROVE  /\ Told[r] = IF \E b \in books : b.id = r THEN "created"
                      ELSE IF pc[r] # "done" THEN "pending"
                      ELSE IF outcome[r] \in {"exists", "duplicateKey"}
                           THEN "taken" ELSE "withdrawn"
         /\ Told'[r] = IF \E b \in books' : b.id = r THEN "created"
                       ELSE IF pc'[r] # "done" THEN "pending"
                       ELSE IF outcome'[r] \in {"exists", "duplicateKey"}
                            THEN "taken" ELSE "withdrawn"
BY DEF Told

LEMMA ToldChanges ==
  ASSUME NEW r \in Requests, \A q \in Requests : q # r => Told'[q] = Told[q],
         NEW what, Told'[r] = what
  PROVE  /\ Told' = [Told EXCEPT ![r] = what]
         /\ Told' = [q \in Requests |-> IF q \in {r} THEN what ELSE Told[q]]
         /\ Told[r] = what => Told' = Told
<1>1. Told = [q \in Requests |-> Told[q]] /\ Told' = [q \in Requests |-> Told'[q]]
  BY DEF Told
<1>2. \A q \in Requests : Told'[q] = IF q = r THEN what ELSE Told[q]
  OBVIOUS
<1>3. Told' = [Told EXCEPT ![r] = what]
  BY <1>1, <1>2
<1>4. Told' = [q \in Requests |-> IF q \in {r} THEN what ELSE Told[q]]
  BY <1>1, <1>2
<1>5. ASSUME Told[r] = what PROVE Told' = Told
  BY <1>1, <1>2, <1>5
<1> QED
  BY <1>3, <1>4, <1>5

\* No step changes what a request wants, and only an insert changes the docs.
LEMMA SameWanted == UNCHANGED req => UNCHANGED Wanted
BY DEF Wanted, Page

LEMMA SameDocs == UNCHANGED books => UNCHANGED Docs
BY DEF Docs

LEMMA HoldersOf ==
  ASSUME IInv, NEW r \in Requests
  PROVE  Abstract!Holders(Wanted[r]) = {} <=> Matches(req[r].url) = {}
<1>1. Wanted[r] = Page(r)
  BY DEF Wanted
<1>2. Matches(req[r].url) = {b \in books : b.url.page = Page(r)}
  BY MatchesPage
<1>3. Abstract!Holders(Page(r)) =
        {[id |-> b.id, key |-> b.url.page] : b \in Matches(req[r].url)}
  BY <1>2 DEF Abstract!Holders, Docs
<1> QED
  BY <1>1, <1>3

\* A step that stores no book and changes how one request stands is a
\* stutter, a refusal or a withdrawal of that request.
LEMMA AbstractAnswer ==
  ASSUME IInv, NEW r \in Requests, UNCHANGED <<books, req>>,
         NEW point \in Points, NEW what \in Outcomes,
         pc' = [pc EXCEPT ![r] = point],
         outcome' = [outcome EXCEPT ![r] = what],
         pc[r] # "done",
         what \in {"exists", "duplicateKey"} => Matches(req[r].url) # {}
  PROVE  [Abstract!Next]_(Abstract!vars)
<1>1. UNCHANGED <<Wanted, Docs>>
  BY SameWanted, SameDocs
<1>2. \A q \in Requests : q # r => Told'[q] = Told[q]
  BY ToldOf DEF IInv, TypeOK
<1>3. pc'[r] = point /\ outcome'[r] = what
  BY DEF IInv, TypeOK
<1>4. CASE Told'[r] = Told[r]
  BY <1>1, <1>2, <1>4, ToldChanges DEF Abstract!vars
<1>5. CASE Told[r] = "pending" /\ Told'[r] = "taken"
  <2>1. Matches(req[r].url) # {}
    BY <1>3, <1>5, ToldOf
  <2>2. Told' = [Told EXCEPT ![r] = "taken"]
    BY <1>2, <1>5, ToldChanges
  <2>3. Abstract!Refuse(r)
    BY <1>1, <1>5, <2>1, <2>2, HoldersOf DEF Abstract!Refuse
  <2> QED
    BY <2>3 DEF Abstract!Next
<1>6. CASE Told[r] = "pending" /\ Told'[r] = "withdrawn"
  <2>1. Told' = [q \in Requests |-> IF q \in {r} THEN "withdrawn" ELSE Told[q]]
    BY <1>2, <1>6, ToldChanges
  <2>2. Abstract!Withdraw({r})
    BY <1>1, <1>6, <2>1 DEF Abstract!Withdraw
  <2> QED
    BY <2>2 DEF Abstract!Next
<1> QED
  BY <1>3, <1>4, <1>5, <1>6, ToldOf

\* The insert is the abstract create: the index admits it only when no book
\* of the page is stored.
LEMMA AbstractCreate ==
  ASSUME IInv, index = "built", NEW r \in Requests, InsertBook(r)
  PROVE  Abstract!Create(r)
<1> DEFINE new == [id |-> r, url |-> Normalise(req[r].url)]
<1>1. /\ pc[r] = "insert" /\ Matches(req[r].url) = {} /\ UNCHANGED req
      /\ books' = books \union {new}
  BY DEF InsertBook, IndexAdmits
<1>2. new.id = r /\ new.url.page = Page(r) /\ Wanted[r] = Page(r)
  BY DEF Normalise, Page, Wanted
<1>3. Docs' = Docs \union {[id |-> r, key |-> Wanted[r]]}
  BY <1>1, <1>2 DEF Docs
<1>4. ~\E b \in books : b.id = r
  BY <1>1 DEF IInv, BookOfItsRequest
<1>5. Told[r] = "pending" /\ Told'[r] = "created"
  BY <1>1, <1>2, <1>4, ToldOf
<1>6. \A q \in Requests : q # r => Told'[q] = Told[q]
  <2>1. \A q \in Requests : q # r => pc'[q] = pc[q] /\ outcome'[q] = outcome[q]
    BY DEF IInv, TypeOK, InsertBook, Goto, Answer
  <2> QED
    BY <1>1, <1>2, <2>1, ToldOf
<1>7. Told' = [Told EXCEPT ![r] = "created"]
  BY <1>5, <1>6, ToldChanges
<1> QED
  BY <1>1, <1>3, <1>5, <1>7, SameWanted, HoldersOf
     DEF Abstract!Create, Abstract!Store

\* A restart withdraws every request it cuts off before its insert.
LEMMA AbstractRestart ==
  ASSUME IInv, Restart PROVE [Abstract!Next]_(Abstract!vars)
<1> DEFINE cut == {r \in Requests : /\ pc[r] \notin {"idle", "done"}
                                    /\ ~\E b \in books : b.id = r}
<1>1. UNCHANGED <<Wanted, Docs>> /\ UNCHANGED books
  BY SameWanted, SameDocs DEF Restart
<1>2. \A r \in cut : Told[r] = "pending" /\ Told'[r] = "withdrawn"
  BY <1>1, ToldOf DEF Restart
<1>3. \A r \in Requests \ cut : Told'[r] = Told[r]
  BY <1>1, ToldOf DEF Restart
<1>4. Told' = [r \in Requests |-> IF r \in cut THEN "withdrawn" ELSE Told[r]]
  <2>1. Told' = [r \in Requests |-> Told'[r]]
    BY DEF Told
  <2> QED
    BY <1>2, <1>3, <2>1
<1>5. Abstract!Withdraw(cut)
  BY <1>1, <1>2, <1>4 DEF Abstract!Withdraw
<1> QED
  BY <1>5 DEF Abstract!Next

LEMMA IndexStaysBuilt ==
  ASSUME FirstBoot = FALSE PROVE Spec => [](index = "built")
<1>1. Init => index = "built"
  BY DEF Init
<1>2. index = "built" /\ [Next]_vars => (index = "built")'
  BY DEF Next, vars, PostBook, PostBookUrl, PostEventUrl, LookupBook,
         FetchAnswers, FetchFails, CheckBook, InsertBook, InsertRefused,
         LinkEvent, DbFails, BuildIndex, Restart
<1> QED
  BY <1>1, <1>2, PTL DEF Spec

LEMMA AbstractStep ==
  ASSUME IInv, index = "built", [Next]_vars
  PROVE  [Abstract!Next]_(Abstract!vars)
<1> USE DEF Points, Outcomes, Refusals, Failures
<1>1. ASSUME NEW r \in Requests, NEW point \in Points, Goto(r, point),
             pc[r] # "done", UNCHANGED <<books, req>>
      PROVE  [Abstract!Next]_(Abstract!vars)
  <2>1. outcome' = [outcome EXCEPT ![r] = "none"]
    BY <1>1 DEF IInv, TypeOK, PendingIsUnanswered, Goto
  <2> QED
    BY <1>1, <2>1, AbstractAnswer DEF Goto
<1>2. ASSUME NEW r \in Requests, NEW what \in Outcomes, Answer(r, what),
             pc[r] # "done", UNCHANGED <<books, req>>,
             what \in {"exists", "duplicateKey"} => Matches(req[r].url) # {}
      PROVE  [Abstract!Next]_(Abstract!vars)
  BY <1>2, AbstractAnswer DEF Answer
<1>3. ASSUME NEW r \in Requests,
             \/ PostBook(r) \/ PostBookUrl(r) \/ PostEventUrl(r)
             \/ FetchAnswers(r) \/ FetchFails(r) \/ DbFails(r)
      PROVE  [Abstract!Next]_(Abstract!vars)
  BY <1>1, <1>2, <1>3 DEF PostBook, PostBookUrl, PostEventUrl, FetchAnswers,
     FetchFails, DbFails, RouteByUrl
<1>4. ASSUME NEW r \in Requests, LookupBook(r)
      PROVE  [Abstract!Next]_(Abstract!vars)
  BY <1>1, <1>2, <1>4 DEF LookupBook, RouteByUrl
<1>5. ASSUME NEW r \in Requests, CheckBook(r)
      PROVE  [Abstract!Next]_(Abstract!vars)
  BY <1>1, <1>2, <1>5 DEF CheckBook
<1>6. ASSUME NEW r \in Requests, InsertBook(r)
      PROVE  [Abstract!Next]_(Abstract!vars)
  BY <1>6, AbstractCreate DEF Abstract!Next
<1>7. ASSUME NEW r \in Requests, InsertRefused(r)
      PROVE  [Abstract!Next]_(Abstract!vars)
  BY <1>2, <1>7 DEF InsertRefused, IndexAdmits
<1>8. ASSUME NEW r \in Requests, LinkEvent(r)
      PROVE  [Abstract!Next]_(Abstract!vars)
  BY <1>2, <1>8 DEF LinkEvent
<1>9. ~BuildIndex
  BY DEF BuildIndex
<1>10. CASE Restart
  BY <1>10, AbstractRestart
<1>11. CASE UNCHANGED vars
  <2>1. UNCHANGED <<Wanted, Docs>>
    BY <1>11, SameWanted, SameDocs DEF vars
  <2>2. UNCHANGED Told
    BY <1>11 DEF vars, Told
  <2> QED
    BY <2>1, <2>2 DEF Abstract!vars
<1> QED
  BY <1>3, <1>4, <1>5, <1>6, <1>7, <1>8, <1>9, <1>10, <1>11 DEF Next

\* With the index in place from the start, the find-then-create of
\* createBook implements the atomic create of KeyedCollection: each request
\* either holds its page alone or is told truly that the page is taken.
THEOREM CreateIsAtomic ==
  ASSUME FirstBoot = FALSE PROVE Spec => Collection
<1>1. Init => Abstract!Init
  <2> SUFFICES ASSUME Init PROVE Abstract!Init
    OBVIOUS
  <2>1. Wanted \in [Requests -> Pages]
    BY DEF Init, Wanted, Page, Urls
  <2>2. Docs = {}
    BY DEF Init, Docs
  <2>3. Told = [r \in Requests |-> "pending"]
    BY DEF Init, Told
  <2> QED
    BY <2>1, <2>2, <2>3 DEF Abstract!Init
<1>2. IInv /\ index = "built" /\ [Next]_vars => [Abstract!Next]_(Abstract!vars)
  BY AbstractStep
<1> QED
  BY <1>1, <1>2, Inductive, IndexStaysBuilt, PTL
     DEF Spec, Collection, Abstract!Spec
=============================================================================
