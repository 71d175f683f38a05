----------------------------- MODULE BookCatalog -----------------------------
(***************************************************************************)
(* The catalogue of books and the events created on top of it, as the      *)
(* server's concurrent requests drive it:                                  *)
(*                                                                         *)
(*   POST api/books                  BooksService.createBook               *)
(*   POST api/books/createFromUrl    BooksService.createBookFromUrl        *)
(*   POST api/events/createFromUrl   EventsService.createFromUrl           *)
(*                                                                         *)
(* Every await of those handlers (a query, an insert, a fetch of the book's *)
(* page from another site) is a point where other requests run, so a       *)
(* handler is one action per await: the action is what the database or the *)
(* site does plus the synchronous code up to the next await.  The database *)
(* keeps a unique index on a book's url, which Mongoose builds in the      *)
(* background when the process starts and the requests do not wait for.    *)
(***************************************************************************)
EXTENDS Naturals, FiniteSets

CONSTANTS
  Requests,     \* the requests made to the server; a document's identity is
                \* the request that inserted it
  Pages,        \* the book pages the requests are about
  Site,         \* Site[p]: where page p lives, as the service can tell from
                \* its url
  NoBook,       \* stands for null
  FirstBoot,    \* TRUE: the collection does not have its unique index yet
  MaxRestarts   \* bound: how often the process may restart

Sites == {"goodreads", "storygraph", "openlibrary", "unsupported"}

ASSUME SiteAssumption == Site \in [Pages -> Sites]
ASSUME NoBookAssumption == NoBook \notin Requests
ASSUME BootAssumption == FirstBoot \in BOOLEAN
ASSUME RestartAssumption == MaxRestarts \in Nat

VARIABLES
  books,     \* the books collection
  events,    \* the events collection
  index,     \* the unique index on a book's url
  req,       \* req[r]: what request r asks for (never changes)
  pc,        \* pc[r]: the await request r is suspended at
  found,     \* found[r]: the book the handler of r goes on with
  outcome,   \* outcome[r]: what the client of r is told
  restarts

vars == <<books, events, index, req, pc, found, outcome, restarts>>

\* A client writes the url of a page with or without a query string.
Urls == [page : Pages, query : BOOLEAN]

\* Mutant: no setter on Book.url.
KeepsQuery(url) == url

\* The setter of Book.url.  Mongoose runs it when it casts a document and
\* when it casts the url of a filter.
Normalise(url) == [page |-> url.page, query |-> FALSE]

Kinds == {"bookDto", "bookUrl", "eventUrl"}
Points == {"idle", "lookup", "fetch", "check", "insert", "link", "done"}
Refusals == {"badRequest", "unavailable", "exists", "duplicateKey", "multiple"}
Failures == {"invalid", "dbError", "lost"}
Outcomes == {"none", "created"} \union Refusals \union Failures

TypeOK ==
  /\ books \subseteq [id : Requests, url : Urls]
  /\ events \subseteq [id : Requests, book : Requests]
  /\ index \in {"building", "built", "failed"}
  /\ req \in [Requests -> [kind : Kinds, url : Urls]]
  /\ pc \in [Requests -> Points]
  /\ found \in [Requests -> Requests \union {NoBook}]
  /\ outcome \in [Requests -> Outcomes]
  /\ restarts \in 0..MaxRestarts

Init ==
  /\ books = {}
  /\ events = {}
  /\ index = IF FirstBoot THEN "building" ELSE "built"
  /\ req \in [Requests -> [kind : Kinds, url : Urls]]
  /\ pc = [r \in Requests |-> "idle"]
  /\ found = [r \in Requests |-> NoBook]
  /\ outcome = [r \in Requests |-> "none"]
  /\ restarts = 0

-----------------------------------------------------------------------------
Page(r) == req[r].url.page
SiteOf(r) == Site[Page(r)]

\* BookRepository.find({ url })
Matches(url) == {b \in books : b.url = Normalise(url)}

Goto(r, point) ==
  /\ pc' = [pc EXCEPT ![r] = point]
  /\ UNCHANGED outcome

Answer(r, what) ==
  /\ pc' = [pc EXCEPT ![r] = "done"]
  /\ outcome' = [outcome EXCEPT ![r] = what]

\* The dispatch on the url's prefix in createBookFromUrl.  "unsupported"
\* also stands for a path the site's service refuses before it fetches.
RouteByUrl(r) ==
  \/ SiteOf(r) = "unsupported" /\ Answer(r, "badRequest")
  \/ SiteOf(r) # "unsupported" /\ Goto(r, "fetch")

-----------------------------------------------------------------------------
PostBook(r) ==
  /\ pc[r] = "idle" /\ req[r].kind = "bookDto"
  /\ Goto(r, "check")
  /\ UNCHANGED <<books, events, index, req, found, restarts>>

PostBookUrl(r) ==
  /\ pc[r] = "idle" /\ req[r].kind = "bookUrl"
  /\ RouteByUrl(r)
  /\ UNCHANGED <<books, events, index, req, found, restarts>>

PostEventUrl(r) ==
  /\ pc[r] = "idle" /\ req[r].kind = "eventUrl"
  /\ Goto(r, "lookup")
  /\ UNCHANGED <<books, events, index, req, found, restarts>>

\* Mutant: the filter on the url is missing.
LookupAny(r) ==
  /\ pc[r] = "lookup"
  /\ \/ books = {} /\ RouteByUrl(r) /\ UNCHANGED found
     \/ \E b \in books : found' = [found EXCEPT ![r] = b.id] /\ Goto(r, "link")
  /\ UNCHANGED <<books, events, index, req, restarts>>

\* Mutant: the book is created without looking it up.
LookupSkipped(r) ==
  /\ pc[r] = "lookup"
  /\ RouteByUrl(r)
  /\ UNCHANGED <<books, events, index, req, found, restarts>>

\* EventsService.createFromUrl looks the book up before it fetches the page.
LookupBook(r) ==
  /\ pc[r] = "lookup"
  /\ \/ /\ Matches(req[r].url) = {}
        /\ RouteByUrl(r)
        /\ UNCHANGED found
     \/ \E b \in Matches(req[r].url) :
          /\ Matches(req[r].url) = {b}
          /\ found' = [found EXCEPT ![r] = b.id]
          /\ Goto(r, "link")
     \/ /\ \E b, c \in Matches(req[r].url) : b # c
        /\ Answer(r, "multiple")
        /\ UNCHANGED found
  /\ UNCHANGED <<books, events, index, req, restarts>>

\* The page arrived and was parsed; the book's url is the one asked for.
FetchAnswers(r) ==
  /\ pc[r] = "fetch"
  /\ Goto(r, "check")
  /\ UNCHANGED <<books, events, index, req, found, restarts>>

\* The site answered with an error, or with a page that has no book on it.
FetchFails(r) ==
  /\ pc[r] = "fetch"
  /\ Answer(r, "unavailable")
  /\ UNCHANGED <<books, events, index, req, found, restarts>>

\* createBook: the find of its find-then-create.
CheckBook(r) ==
  /\ pc[r] = "check"
  /\ \/ Matches(req[r].url) = {} /\ Goto(r, "insert")
     \/ /\ \E b \in Matches(req[r].url) : Matches(req[r].url) = {b}
        /\ Answer(r, "exists")
     \/ /\ \E b, c \in Matches(req[r].url) : b # c
        /\ Answer(r, "multiple")
  /\ UNCHANGED <<books, events, index, req, found, restarts>>

\* Mutant: the index is not unique.
AdmitsAll(url) == TRUE

\* The unique index admits a book under this url.
IndexAdmits(url) == index = "built" => Matches(url) = {}

\* createBook: the create of its find-then-create.  The database may store
\* the document and its reply still get lost, which the client sees as an
\* error.
InsertBook(r) ==
  /\ pc[r] = "insert"
  /\ IndexAdmits(req[r].url)
  /\ books' = books \union {[id |-> r, url |-> Normalise(req[r].url)]}
  /\ \/ Answer(r, "dbError") /\ UNCHANGED found
     \/ /\ found' = [found EXCEPT ![r] = r]
        /\ IF req[r].kind = "eventUrl" THEN Goto(r, "link")
                                       ELSE Answer(r, "created")
  /\ UNCHANGED <<events, index, req, restarts>>

\* Mutant: the duplicate key error is swallowed.
RefusalSwallowed(r) ==
  /\ pc[r] = "insert"
  /\ ~IndexAdmits(req[r].url)
  /\ Answer(r, "created")
  /\ UNCHANGED <<books, events, index, req, found, restarts>>

InsertRefused(r) ==
  /\ pc[r] = "insert"
  /\ ~IndexAdmits(req[r].url)
  /\ Answer(r, "duplicateKey")
  /\ UNCHANGED <<books, events, index, req, found, restarts>>

\* The event is created with the book's id in it; a body that misses a
\* required field fails Mongoose's validation.
LinkEvent(r) ==
  /\ pc[r] = "link"
  /\ \/ Answer(r, "invalid") /\ UNCHANGED events
     \/ /\ events' = events \union {[id |-> r, book |-> found[r]]}
        /\ \/ Answer(r, "created")
           \/ Answer(r, "dbError")
  /\ UNCHANGED <<books, index, req, found, restarts>>

\* A query or an insert fails before it has any effect.
DbFails(r) ==
  /\ pc[r] \in {"lookup", "check", "insert", "link"}
  /\ Answer(r, "dbError")
  /\ UNCHANGED <<books, events, index, req, found, restarts>>

\* The database ends its background build of the index.
BuildIndex ==
  /\ index = "building"
  /\ index' = IF \E b, c \in books : b # c /\ b.url = c.url
              THEN "failed" ELSE "built"
  /\ UNCHANGED <<books, events, req, pc, found, outcome, restarts>>

\* The process stops and starts again.  Requests in flight are cut off;
\* Mongoose asks again for an index that is not there.
Restart ==
  /\ restarts < MaxRestarts
  /\ restarts' = restarts + 1
  /\ pc' = [r \in Requests |-> IF pc[r] = "idle" THEN "idle" ELSE "done"]
  /\ outcome' = [r \in Requests |->
                   IF pc[r] \in {"idle", "done"} THEN outcome[r] ELSE "lost"]
  /\ index' = IF index = "failed" THEN "building" ELSE index
  /\ UNCHANGED <<books, events, req, found>>

Handle(r) ==
  \/ LookupBook(r) \/ CheckBook(r) \/ InsertBook(r) \/ InsertRefused(r)
  \/ LinkEvent(r) \/ DbFails(r)

Fetch(r) == FetchAnswers(r) \/ FetchFails(r)

Next ==
  \/ \E r \in Requests :
       \/ PostBook(r) \/ PostBookUrl(r) \/ PostEventUrl(r)
       \/ LookupBook(r) \/ FetchAnswers(r) \/ FetchFails(r)
       \/ CheckBook(r) \/ InsertBook(r) \/ InsertRefused(r) \/ LinkEvent(r)
       \/ DbFails(r)
  \/ BuildIndex
  \/ Restart

Spec == Init /\ [][Next]_vars

\* The event loop resumes every handler whose await has ended, and the
\* database always answers or fails.  A site is only known to answer when the
\* request to it carries a timeout, which those to Open Library alone do.
Fairness ==
  /\ \A r \in Requests : WF_vars(Handle(r))
  /\ \A r \in Requests : SiteOf(r) = "openlibrary" => WF_vars(Fetch(r))

FairSpec == Spec /\ Fairness

-----------------------------------------------------------------------------
\* Once the index exists there is one book per page, however the page's url
\* was written and however the requests that found no book interleave.
OneBookPerPage ==
  index = "built" =>
    \A b, c \in books : b.url.page = c.url.page => b = c

\* An event is about a book that is stored, and it is the book of the page
\* its request named: neither a restart nor another request's insert comes
\* between finding or creating the book and linking it.
EventHasItsBook ==
  \A e \in events :
    \E b \in books : b.id = e.book /\ b.url.page = Page(e.id)

\* A client that is told the book exists (by the check, or by the index) can
\* rely on it, and a client told of several books is not told so by mistake.
RefusalJustified ==
  \A r \in Requests :
    LET stored == {b \in books : b.url.page = Page(r)} IN
    /\ outcome[r] \in {"exists", "duplicateKey"} => stored # {}
    /\ outcome[r] = "multiple" => \E b, c \in stored : b # c

\* A request is never told that it created something it did not.
CreatedIsStored ==
  \A r \in Requests : outcome[r] = "created" =>
    IF req[r].kind = "eventUrl" THEN \E e \in events : e.id = r
                                ELSE \E b \in books : b.id = r

\* What clients are told is backed by what is stored.
AnswersAreBacked == RefusalJustified /\ CreatedIsStored

\* An event request whose book is in the catalogue before its lookup is not
\* refused on account of the book, and settles even if the book's site never
\* answers: EventsService.createFromUrl does not go to the site for it.
BookKnown(r) ==
  /\ pc[r] = "lookup"
  /\ \E b \in books : b.url.page = Page(r)
KnownBookSettles ==
  \A r \in Requests :
    BookKnown(r) /\ index = "built"
      ~> pc[r] = "done" /\ outcome[r] \notin Refusals

\* Whoever does not depend on a site without a timeout gets an answer.
SettlesWithoutScraping ==
  \A r \in Requests :
    /\ pc[r] # "idle"
    /\ req[r].kind = "bookDto" \/ SiteOf(r) \in {"openlibrary", "unsupported"}
    ~> pc[r] = "done"

\* What can be done without a site that may never answer does not wait for it.
AnswersWithoutScraping == KnownBookSettles /\ SettlesWithoutScraping

-----------------------------------------------------------------------------
\* The find-then-create of createBook, backed by the index, is the atomic
\* create of KeyedCollection.
Wanted == [r \in Requests |-> Page(r)]
Docs == {[id |-> b.id, key |-> b.url.page] : b \in books}
Told ==
  [r \in Requests |->
     IF \E b \in books : b.id = r THEN "created"
     ELSE IF pc[r] # "done" THEN "pending"
     ELSE IF outcome[r] \in {"exists", "duplicateKey"} THEN "taken"
     ELSE "withdrawn"]

Abstract == INSTANCE KeyedCollection WITH
  Keys <- Pages, wanted <- Wanted, docs <- Docs, answer <- Told

Collection == Abstract!Spec

-----------------------------------------------------------------------------
\* What the source says and the program does not keep.

\* EventsService.createFromUrl "creates an event from the book URL": a client
\* does not expect to be told that the book already exists.
EventNotRefusedForItsBook ==
  \A r \in Requests :
    req[r].kind = "eventUrl" => outcome[r] \notin {"exists", "duplicateKey"}
=============================================================================
