# OWS: specifications of the Organized Web Server

OWS is the server behind the events of a Discord book club.  It is a NestJS
application: REST routes (and an MCP endpoint for the reading ones) over three
MongoDB collections, `books`, `events` and `users`, which fills in what it knows
about a book from Goodreads, Storygraph and Open Library, and which can migrate
the events of an older database.

The TLA+ modules here say what its components do under concurrency, failure and
restarts, TLC checks them on small instances, and TLAPS proves for every instance
all that is claimed of their safety: every invariant and every action property of the
passing runs, and two refinements.

## The system

One Node process serves all requests.  A handler runs without interruption up to
its next `await`; between two awaits of one handler any number of steps of
others may happen.  There are no transactions and no locks: what holds across an
`await` holds because of a unique index of the database, or not at all.

| Component (source under `src/`) | State | Operations | Talks to |
| --- | --- | --- | --- |
| books (`books/`, `repositories/book.repository.ts`) | `books` collection, unique index on `url`, text index | create from a document, create from a url, look up by url, text search, update | sites' clients |
| events (`events/`, `repositories/event.repository.ts`) | `events` collection | create, create from a url, get, patch, delete, paginated list | books (look-up, create, search) |
| users (`users/`, `repositories/user.repository.ts`) | `users` collection, unique index on `userId` | create, list, get by userId, patch, delete | |
| migrations (`migrations/`) | the old database (read only) | migrate all events, migrate one, update books | books, users, events |
| site clients and page parsers (`book-info/`) | none | get a book, search, quotes | the three sites over HTTP |
| auth (`auth/`) | catalogue of clients and pair of keys, both loaded at the start | issue a token, guard every other route | |
| MCP (`mcp/`) | none: a server and a transport for each request | tools that read events, users and the sites | events, users, sites' clients |
| pipes, logger, health, bootstrap | none that matters here | | |

What is hard in it:

* **Find, then create.**  Books and users are created by a find followed by an
  insert with an `await` between them.  Only the unique indexes keep two requests
  from storing the same thing, and Mongoose builds those in the background while
  the first requests are already served.  The handler that loses the race ends
  with an error, and so does whatever it was doing the creation for.
* **Long handlers made of short ones.**  Creating an event from a url, and
  migrating one, chain look-ups, fetches from other sites and inserts; each step
  may fail, be cut off by a restart, or act on what has changed meanwhile.
* **Reads that are not snapshots.**  A page of events and the total that comes
  with it are two queries; the pages a client puts together are many.
* **Other sites.**  Only the calls to Open Library have a time-out and are
  retried; those to Goodreads and Storygraph may never be answered.
* **Pages of others.**  What the two scraped sites send is any HTML: rows without
  links, numbers with commas or none, two lists that should match and do not.
* **Time.**  The status a migrated event gets depends on when the clock is read,
  which is some awaits before the event is written.
* **What a deploy changes.**  Catalogue and keys are read at the start, tokens
  are not stored: what was issued before a deploy outlives it.

The complete list of hazards, each at its line and with the properties that look
after it, is in `PROJECT.json`.

## The modules

### KeyedCollection: what creating a book promises

The abstract specification: documents under keys, and requests that each try to
add a document.  `Create` and `Refuse` are atomic, and a request may `Withdraw`
(it failed, was cut off, or needed nothing).  A key is never held twice.

### BookCatalog: books, and events created on top of them

The three creating routes (`POST api/books`, `POST api/books/createFromUrl`,
`POST api/events/createFromUrl`) for any number of concurrent requests.  One
action is one step between two awaits:

| Action | Code |
| --- | --- |
| `PostBook`, `PostBookUrl`, `PostEventUrl` | the handlers up to their first await |
| `LookupBook` | `EventsService.createFromUrl`: `findBookByUrl`, then either link or route by url |
| `FetchAnswers`, `FetchFails` | the `getBook` of the site the url belongs to |
| `CheckBook` | `BooksService.createBook`: the find |
| `InsertBook`, `InsertRefused` | its insert, admitted or refused by the unique index; the reply may be lost after the insert happened |
| `LinkEvent` | `EventRepository.create` with the book's id |
| `DbFails` | any query or insert fails without an effect |
| `BuildIndex` | the background build ends: in an index, or in failure when two books already share a url |
| `Restart` | the process stops; handlers in flight are lost, the collections stay |

`books` and `events` are the collections (a document's `_id` is the request that
inserted it), `index` the state of the unique index, and `pc`, `found` and
`outcome` are what each handler is suspended at, holds, and has answered.  A url
is a page with or without a query string, and `Normalise` is the setter of
`Book.url`, which Mongoose applies to documents and to filters alike.

Properties: `OneBookPerPage`, `EventHasItsBook`, `AnswersAreBacked` (a refusal is
justified, `RefusalJustified`, and what is reported as created is stored,
`CreatedIsStored`); `Collection` (the module implements KeyedCollection);
`AnswersWithoutScraping` (liveness: `KnownBookSettles` and
`SettlesWithoutScraping`).

### UserDirectory: users by their userId

`POST`, `GET`, `PATCH` and `DELETE` on `api/users`, with the index on `userId`
and restarts as above.  A patch may rename a user into a userId that a create
has just checked to be free.  Properties: `OneUserPerUserId`,
`DeletedStaysDeleted`, and `AnswersWereTrue`: an answer about a userId was true
at some moment while its request was under way (`held` and `free` record, for
each request, which of the two its userId has been meanwhile).

### BookRefresh: the numbers of pages, updated

`GET api/migrations/updateBooks`, several runs at a time.  `ReadAll` is
`getAllBooks`, `NextBook` and `NextIsOther` the branches on the site of a book
(for one of Open Library no branch fetches anything and the access to `numPages`
throws), `FetchAnswers`, `FetchAnswersNaN` and `FetchFails` the `getBook` of the
site, `Save` and `SaveFails` the write of the whole document, and every failure
goes through the `catch` to the next book.  The number a page shows is modelled
as its version: `SiteEdits` makes it newer, and a number stored is compared with
what the page showed when the run began.  A page without a number leaves the
document as it was read, because Mongoose refuses to cast `NaN`.  Properties:
`RunsRefresh` (a run alone refreshes what it can, `LoneRunRefreshes`, and any run
comes to every book, `EveryBookIsTried`), `OnlyOverlapsLoseUpdates` (whole documents
read before the fetch are written after it, so overlapping runs can set a book
back, and nothing else can), `RunEndsOrWaits`.

### Migration: the old events, run by run

`GET api/migrations/all` (which changes things) and `POST api/migrations`,
several runs at a time, over a database that other requests write too.  `NextDoc` is
the cursor of `migrateAllEvents`; `FindBook` to `WriteAnswered` are the steps of
`migrateEvent`; `Drop` is its `catch`, which logs and goes on.  The write of the
event (`UpdateEvent`, `CreateEvent`) and the answer to it (`WriteAnswered`) are two
steps: between them the process may stop, or the answer be lost (`DbFails` at
`reply`), and then the event is stored and logged as failed.  The inserts of a book
and of a user may lose their answers as well.  The calls into
BooksService and UsersService are the find-then-create steps again, here with
their index in place.  `ApiCreatesUser`, `ApiCreatesBook`, `ApiDeletesEvent` and
`ApiDeletesUser` are the other requests served meanwhile (what patches do is in
UserDirectory and EventStore); `troubled` records which runs any of this came in
the way of, and `gone` the users deleted, which an event may still be stored
with when its run had found them before.  Properties: `EventsComplete`,
`NoCopies`, `MigratesWhatItCan` (`CleanRunMigratesAll` and `NoneSkipped`),
`Transfer` (the module implements EventTransfer) and `RunEnds`.

### EventTransfer: what migrating an event promises

The abstract specification of Migration.  `Write` copies one old event into the new
database, whole; `Report` reports it as migrated, which only the run that has copied
it does; `GiveUp` reports it as failed, and stores nothing itself: the event is as the
run found it, or was copied by this run, which never heard of it; `Stop` ends the
process, and copies stay that nobody reports; `Delete` is a client that deletes a copy.
Migration maps `stored` to its events as the old database would write them (`CopyOf`:
the page of the book and the userIds of the people) and `written` to the events of the
runs that are at `reply`; books and users have no counterpart, so the steps
before the write of the event are stutters.

### EventStore: the status of an event, by clients and by the clock

`POST`, `PATCH` and `DELETE` on `api/events`, and `migrateEvent` from the side of
the event it writes.  `GetStatus` reads the clock (`getEventStatus`), `FindEvent`,
`UpdateEvent` and `CreateEvent` are the find and the write after it, `Fail` is any
error or the end of the process, and `Tick` lets time pass between any two of
them.  `PostEvent` refuses a status that the schema does not list; `PatchEvent`
stores it, since updates are not validated; neither it nor `UpdateEvent` inserts.
`interested` has the three cases that `getEventStatus` tells apart (none, one to
ten, more).  `giver` records who gave each event its status, and for a run from
when to when it was at the event.  Properties: `StatusAccountedFor` (`UnknownByPatchOnly`
and `StatusWasRight`), `GoesOnUnlessOverlapped`, `DeletedComesBackByCreateOnly`.

### EventPaging: reading page by page

One client reads `GET api/v2/events` page by page while others create, patch and
delete.  `QueryItems` and `QueryTotal` are the two queries of
`EventRepository.findPaginated`, in either order with writes between them.  Where a sort
specification does not order two events, a query may return them in any order.  The days
of an event stand for the places of its dates in the database's order, which ranks dates
of any form, if not by time.  Properties: `PagesAreComplete`, `AdditionsHideNothing`,
`RemovalsRepeatNothing`.

### EventSearch: from the parameters to the query

One request for events, over REST or MCP: the parsers of
`events.v2.utils.ts`, the text search for books, `getFilterQuery` as a set of
conditions, and `planEventPopulates`.  A date is kept in the form it is stored in
(`StoredDates`): the schema gives dates no type, so a client's text stays a text and
the migration's Date a date of the database.  `ISO` is the conversion of
`getFilterQuery`, to the text of `toISOString`, and `Holds` compares like MongoDB: only
values of one type, and texts by their letters (their `place`).  `AsksFor` says,
independently, what each parameter means, dates by the instants they stand for;
`FilterIsConjunction` compares the two as far as the dates asked about are texts as
`toISOString` writes them, and says of other events only what they must be like to
be found.  That a filter finds all it asks for, however dates are stored
(`FilterFindsAll`), is false: see the findings.  `SearchWidensIds` and
`PopulatesWhatIsReturned` are the others.  Its definitions have names of their own
(`SearchInit`, `SearchNext`, ...) so that one module can extend it together with
EventPaging.

### Parser, GoodreadsParser, StorygraphParser: out of the pages

The extraction of each field as an operator on what cheerio finds in a page: a
link is its text and its `href` (cut at the `?`, and possibly missing), a list is a
sequence, and a number is what its text reads as up to each comma, since all that a
parser does with it is to remove a comma and to stop at the next.  Whether a parser
throws is a predicate beside it (`SearchPageParses`, `BookPageParses`).  An answer on
Storygraph is found by counting: the i-th that is shown is that of the question up to
which i questions have one.

### BookInfo: requests answered out of those pages

One request over either door: the REST controllers of the two sites, or MCP with
its schema, its server and its transport.  `Handle` is the handler up to its first
await, `SearchAnswers`, `BookAnswers` and `QuotesAnswers` what it does with a page
(any of `SearchPages`, `BookPages`, `QuotesPages`), `SiteFails` a call that ends in an
error, `HangUp` and `ResponseEnds` the two ways to the `close` event, on which the
listener of `McpController.handle` closes server and transport.  The properties
compare the answer with the pages the site sent: `SearchIsPrefix`,
`PageOfFirstMatch`, `BookAsShown`; and `ServersClose`.  `BookAsShown` speaks of numbers
up to the size a parser reads whole (of what it makes of larger ones, see below), and
of pages on which the questions with an answer come first: whether Storygraph sends
others nothing here can tell.  As in EventSearch the names
(`InfoInit`, `InfoNext`, ...) leave room for another module beside it.

### OpenLibrary: calls side by side, with time-outs and retries

One request served out of openlibrary.org, with a clock.  `Fail` is the `catch`
of `fetchJson` (retry after a pause, or give up and let `Rejects` decide what
that means for the request), `PartEnds` the `Promise.all`, `HydrateAuthors` the
sequential loop.  Properties: `BestEffort`, `AnswersInTime`, `BookIsWhole`,
`Settles`.  The result justifies what BookCatalog assumes of this site: a fetch
from it always ends.

### Access: clients, keys and tokens across deploys

`Boot` loads the catalogue (all of it or none) and the keys, `AskToken` and
`Verified` are the two halves of `POST auth/token` around argon2, `Call` is a
call through JwtAuthGuard and ScopesGuard, `Deploy` a restart with another
configuration.  Properties: `RevokedInTime`, `TokensSurviveDeploys`,
`WholeCatalogue`.

### MC modules

`MCBookCatalog`, `MCUserDirectory`, `MCMigration`, `MCEventSearch`, `MCAccess`,
`MCBookInfo`, `MCBookRefresh` and `MCEventStore` hold the values of constants that a
configuration cannot write down, and symmetry sets.  `MCEventReading` checks EventPaging
and EventSearch in one run: they share no state, so a behaviour of `ReadingSpec` is one
of either, with the other at its end.  Requests are symmetric in BookCatalog and
UserDirectory because `Init` lets each of them ask for anything; the liveness run does
without symmetry.  Operators marked "Mutant" are variants of the definition after them
with a plausible bug; no specification uses them, and each property is violated when its
mutant replaces the original.

## The runs

| Run | Bounds | Shows |
| --- | --- | --- |
| `catalog_race` | 3 requests, 2 pages (one on a site, one refused), first boot, 1 restart | the safety properties of the catalogue while the index is built |
| `catalog_live` | 2 requests, 2 pages (one with a time-out, one without), 1 restart, index in place | the refinement, and who is certain to be answered |
| `catalog_event_refused` | 2 requests, 2 pages | **finding**: an event refused because its book exists |
| `users_race` | 3 requests, 2 userIds, first boot, 1 restart | the properties of the directory |
| `migration` | 2 runs, 2 events (a broken one before a sound one that lists a user twice), other requests, lost answers, 1 deletion of an event or a user, 1 restart | what overlapping and interrupted runs leave behind is right, a run comes to every event and ends, an undisturbed one migrates everything sound, and an event is copied in one step and reported only by a run that copied it (the refinement) |
| `event_reading` | pages: 3 events, 2 days, 5 orders, page size 2, 2 writes; requests: every filter of at most 2 parameters, every projection of at most 2 entries, pages at their limits, over 780 events, among them some with a migrated date, one that names a time zone, or none | the pages of a client, with and without writers; the query built is the one meant, as far as dates are the texts it compares with |
| `search_migrated` | one date or two, 4 events: before or after it, created through the API or migrated | **finding**: a filter by date finds no migrated event |
| `openlibrary` | time-out 3, pause 1, 3 attempts, 2 authors | an answer in time, and only for want of the work without the book |
| `access` | 2 clients, 2 keys, 6 catalogues (2 of them bad), token lifetime 2 of 4 units, 2 deploys | who is served, across deploys |
| `book_info` | every request of both doors with `k` absent, 0, 1, 2 or 21; search pages of 0 to 3 rows that differ in their links, and of 6; book pages with each field missing or odd, numbers up to two commas, three questions | the answer is what the pages show; the server is closed |
| `book_refresh` | 2 runs, a book of each site, 1 edit of each page, 1 restart | every book is tried, and only overlapping runs set one back |
| `event_store` | 2 runs over one old event from 1 to 3, one created event, clock from 0 to 4, known, unknown and absent statuses | what can become of a status, and of a deleted event |

The types of BookCatalog, UserDirectory, BookRefresh, EventStore, Migration and
Access are proved as theorems and not checked again by their runs; those of the other
modules are proved and checked, because a plausible bug breaks them.

Why these bounds are enough to be interesting: three requests are the smallest
number in which one wins a race, one loses it and a third sees the result; two
pages tell a request's own book from another's; one restart cuts off every
handler at every point.  A restart on a first boot leaves the index unbuilt, and
its build may fail, so all three states of the index are reached.  Three events
and two days have ties in every sort key, and page size 2 a full and a short
page.  A time-out of three ticks and pauses of one and two let every call end
before, with or after every other.  Deadlock is not checked: requests come to an
end, and so does the system when all have.

Two runs over an event are enough for one to write what the other has made stale; the
broken event comes before the sound one, so that a run must get past a failure to come
to it, and more sound events would only add more of the same steps to a run (the safety
properties are proved for any number).  A clock from 0 to 4 with dates 1 and 3 passes
before, at, between and after them.  Three rows are the first, the last asked for and one
beyond; three questions are enough for an answer to be missing before, between and after
others.

### Fairness

* BookCatalog: `WF(Handle(r))` for each request.  The event loop resumes every
  handler whose promise has settled, and the database driver settles each of its
  promises, with an answer or with an error.  `WF(Fetch(r))` only for pages on
  Open Library, whose client sets a time-out (`open-library.service.ts:318`);
  nothing bounds the wait for the two other sites.
* Migration: the same, for the steps of a run and for fetches with a time-out.
* BookRefresh: the same, but for no fetch at all: `RunEndsOrWaits` names the wait.
* BookInfo: `WF(Handle)` and `WF(ResponseEnds)`: a handler that is let through runs, and
  a response that is written ends.  No site need answer and no client hang up.
* OpenLibrary: `WF(Next)`.  Time passes, and it cannot pass a timer that has run
  out, so the timers fire.

## Findings

**An event refused for its own book** (`catalog_event_refused`).
`EventsService.createFromUrl` creates the book it did not find, and is told
"Book already exists!" when another request was faster.

**Migrated events are found by no date** (`search_migrated`).  `getFilterQuery` compares
dates with texts, the migration stores Dates, and a schema that gives `dates` no type
(`event.schema.ts:65`) casts neither: MongoDB never finds a date smaller or greater
than a text.  A text in another form than that of `toISOString` is compared, but by its
letters (an example is among the events of `event_reading`).

Seen while modelling, and not given a run of their own: overlapping migrations can both
drop one event, each because the other had just created the user or the book it needed
(`migrations.service.ts:145` catches the refusal; `migrations.service.ts:74` says that
all events are migrated), and a further, undisturbed run repairs it
(`CleanRunMigratesAll`); a search by title that finds no book returns the events of
every book, since `events.service.ts:143` adds a condition only when some were found; a
patch stores a status, or a type, that `EventStatus` does not list (`UnknownByPatchOnly`
says that only a patch does); an event with one to ten interested counts as completed
while it is under way (the exception in `StatusWasRight`); a Goodreads book whose number
of pages were written 1,024 would be read as one of 1 page, and one with 1,234,567
ratings is given 1,234 (`goodreads-parser.ts:216` removes the first comma only, and
`ReadAs` in `BookAsShown` is only claimed up to the size that is read whole); a
Goodreads search over REST without `k` is answered with "not found", whatever the site
lists; `DELETE` of users and events answers `true` whether or not there was anything to
delete (`users.controller.ts:110` documents "Boolean indicating if doc is deleted");
`GET api/migrations/updateBooks` never updates a book of Open Library
(`migrations.service.ts:59-65`); the README of the repository lists two scopes for `POST
/mcp` where `mcp.controller.ts:53` requires three; the comment in
`events.tools.ts:18-22` calls `events_search` a strict superset of the REST endpoint,
which accepts dates without a time that the tool's schema refuses.

## The proofs

`BookCatalog_proofs` proves, for every value of the constants that satisfies the
assumptions in BookCatalog:

| Theorem | States |
| --- | --- |
| `TypeCorrect` | `Spec => []TypeOK` |
| `CatalogUnique` | `Spec => []OneBookPerPage` |
| `EventsKeepTheirBook` | `Spec => []EventHasItsBook` |
| `AnswersAreTrue` | `Spec => []AnswersAreBacked` |
| `CreateIsAtomic` | `FirstBoot = FALSE` implies `Spec => Collection` |

None of the properties is inductive alone.  The invariant `IInv` adds to them: a book is
normalised and is the one its inserter asked for (`BookOfItsRequest`); the book a
handler goes on with is stored and of its page (`FoundIsStored`); only a request for an
event looks a book up or links one (`EventPoints`); a request that is not done has been
told nothing (`PendingIsUnanswered`); while the index is built urls are unique
(`IndexUnique`).  With that, every action is shown to preserve each part, most of them
by lemmas for the actions that store nothing (`QuietStep`, `RouteStep`).
`OneBookPerPage` follows because normalised urls of one page are equal.

The refinement maps a request to `created` once its book is stored, and to
`taken` or `withdrawn` when it has ended without.  Each step is then a `Create`, a
`Refuse`, a `Withdraw` (of one request, or of all a restart cuts off), or a
stutter.  It needs the index from the start, hence the assumption: before it is
built two books of one page can be stored, and no atomic create would do that.

`UserDirectory_proofs` does the same for UserDirectory:

| Theorem | States |
| --- | --- |
| `TypeCorrect` | `Spec => []TypeOK` |
| `DirectoryUnique` | `Spec => []OneUserPerUserId` |
| `DeletionIsFinal` | `Spec => []DeletedStaysDeleted` |
| `AnswersAreLinearizable` | `Spec => []AnswersWereTrue` |

Its `IInv` adds: whoever created a user that is stored or was deleted is done, so
no request inserts twice (`CreatorsAreDone`; without it a deleted `_id` could come
back); a request that is about to insert has seen its userId free
(`InsertSawFree`, which is what makes a stale check harmless: its answer
`created` is backed by the check, its refusal by the index);
`PendingIsUnanswered`; and only a patch is suspended at the rename
(`RenamesAreRenames`).  `WatchRecords` says what the history variables gain in a
step, `MoveStep` what the move of one request preserves whatever happens to the
collection; the three actions that write the collection then only have to account
for the documents.

`BookSites_proofs`, for any catalogue, order of it, set of runs and bounds of
BookRefresh:

| Theorem | States |
| --- | --- |
| `TypeCorrect` | `Spec => []TypeOK` |
| `RunsAreComplete` | `Spec => []RunsRefresh` |
| `UpdatesAreKept` | `Spec => OnlyOverlapsLoseUpdates` |

Its `IInv` says of a run where it is in the order (what it has not tried is what it
still has to do), what it knows of the pages (a document fetched is between what
the page showed at the start of the run and what it shows now), and, while it is
alone, that the catalogue is no newer than what it read, which is why its writes
set nothing back.

and for any pages that Goodreads and Storygraph may send to BookInfo, any `k` and any
paths that count as books:

| Theorem | States |
| --- | --- |
| `InfoTypeCorrect` | `InfoSpec => []InfoTypeOK` |
| `SearchesAnswerPrefixes` | `InfoSpec => []SearchIsPrefix` |
| `FirstMatchIsRead` | `InfoSpec => []PageOfFirstMatch` |
| `BooksAreAsShown` | `InfoSpec => []BookAsShown` |

The assumption `PagesAssumption` only gives pages their shape (`GR!Rows`, `GR!Pages`,
`SG!Rows`, `SG!Pages`): sequences of links and texts with anything missing.  What a
parser makes of a page is settled by lemmas about the page alone: a list holds the
first `k` rows (`SearchPageRead`) and is not there exactly if one of them has no link
(`SearchPageFails`); a number is whole while its commas are removed (`NumberRead`);
the percentage at an even place belongs to the mood before it (`MoodsRead`); when the
questions with an answer come first, there are `i` of them up to the `i`-th, so each
gets its own (`AnswersRead`).  The invariant `InfoIInv` then says which pages are there
at each await.  What it adds to the properties is `Found`: a handler that waits for the
page of a book still has the search page, with a first row, whose link it follows.

`EventStore_proofs`, for any events, dates, runs and bodies:

| Theorem | States |
| --- | --- |
| `TypeCorrect` | `Spec => []TypeOK` |
| `StatusIsAccountedFor` | `Spec => []StatusAccountedFor` |
| `StatusMovesOn` | `Spec => GoesOnUnlessOverlapped` |
| `DeletionsLast` | `Spec => DeletedComesBackByCreateOnly` |

The invariant carries the moment a status was right from `GetStatus` to the write,
through whatever time passes; for a run that none has overlapped it adds that
whatever a run gave the event before lies in the past of the run, so a status that
was right then cannot lie ahead of one that is right now.

`Migration_proofs`, for any old events, order of the cursor, runs and bounds:

| Theorem | States |
| --- | --- |
| `TypeCorrect` | `Spec => []TypeOK` |
| `EventsAreWhole` | `Spec => []EventsComplete` |
| `NothingTwice` | `Spec => []NoCopies` |
| `RunsMigrateWhatTheyCan` | `Spec => []MigratesWhatItCan` |
| `MigrationIsAtomic` | `Spec => Transfer` |

Its `IInv` says what a run holds of the event it is at: a stored book of its page, and,
in the order listed, the users looked up so far, each still stored or deleted since
(`RunOK`); that the events a run has passed are those it migrated or gave up
(`Accounted`); that what was migrated, or is written and about to be reported, is there
unless something was deleted (`MovedAreStored`); and that what an undisturbed run was
told by its last query still holds (`Calm`), for nobody else has acted since.  The last
is what `CleanRunMigratesAll` rests on: the second look of `createBook` and of
`UsersService.create`, the index and the primary key then have nothing to refuse. For
the refinement, `EventsComplete` makes every copy of an old event the same one
(`CopyIsWhole`), so an update writes what is there already, and `KindsOfSteps` sorts the
steps into those that leave events and reports alone (`Quiet`), the `catch` (`GivesUp`,
also of an event just written), the two writes (`Copies`), the answer to one
(`Reports`), a restart (`Stops`) and a deletion (`Deletes`).

`EventReading_proofs`, for any events, days, page sizes and number of writes of
EventPaging:

| Theorem | States |
| --- | --- |
| `TypeCorrect` | `Spec => []TypeOK` |
| `PagesAreWhole` | `Spec => []PagesAreComplete` |
| `NothingIsHidden` | `Spec => []AdditionsHideNothing` |
| `NothingIsRepeated` | `Spec => []RemovalsRepeatNothing` |

Every sort ends with `_id`, so it is a strict total order of the matching events
(`StrictTotalOrder`) and each of them has a rank: whatever the database does about
ties, the item at a place of a query is the event of that rank (`OrderIsByRank`,
`PageIsByRank`).  A write that adds nothing can only lower the rank of an event that
stays where it was, and one that removes nothing can only raise it
(`WriteMovesRanks`).  The invariant says where the events read so far, and those
still to be read, lie relative to the next page: in the first case (`Shrinking`) what
was read cannot come to a later page, in the second (`Growing`) what is to be read
cannot go to an earlier one, and without writes (`Undisturbed`) what was read is
exactly what ranks below the page.

and for any events, books, filters, lists of fields and changes of the books in
EventSearch:

| Theorem | States |
| --- | --- |
| `SearchTypeCorrect` | `SearchSpec => []SearchTypeOK` |
| `FiltersAreConjunctions` | `SearchSpec => []FilterIsConjunction` |
| `SearchesWiden` | `SearchSpec => []SearchWidensIds` |
| `ReferencesFollow` | `SearchSpec => []PopulatesWhatIsReturned` |

Parameter by parameter, the conditions that are added to the query hold of an event
exactly if it has what the parameter asks for (`EqMeans`, `InMeans`,
`ParticipantsMean`, `BooksMean`).  A condition on a date holds only of a text
(`DateComparesText`), and of one as `toISOString` writes it exactly if it stands for an
instant on the right side (`DateMeans`); `QueryMeans` puts the query together.
`DateMeans` needs a date asked for that is an instant: the
invariant `SearchIInv` says that a request with a date that does not parse never gets
as far as the events, through whichever door it comes.  `SearchIInv` also keeps what
was found equal to what the query selects, which holds after the books change because
the query is made of the books found and not of those there are.  `PlanIsReturned`
compares the plan of references with the fields returned, where a date inside an event
(`dates.startDate`) names a field that is no reference.

`Access_proofs`, for any clients, catalogues, keys, routes and bounds:

| Theorem | States |
| --- | --- |
| `TypeCorrect` | `Spec => []TypeOK` |
| `RevocationIsTimely` | `Spec => []RevokedInTime` |
| `DeploysKeepTokens` | `Spec => []TokensSurviveDeploys` |
| `CatalogueIsWhole` | `Spec => []WholeCatalogue` |

Its invariant dates what a token grants: it was allowed to its client no earlier
than the token was issued (`Backed`), which needs that a secret under verification
was looked up in the catalogue still loaded (`Pending`: a deploy ends it) and that
what a running server's catalogue grants is allowed now (`AllowedNow`).  A call is
tied to the token it was made with (`CallOfToken`), so the life of a token bounds
how long a scope outlives its removal.

`OpenLibrary_proofs`, for any time-out, pause, number of attempts and of authors:

| Theorem | States |
| --- | --- |
| `TypeCorrect` | `Spec => []TypeOK` |
| `FailsOnlyForWant` | `Spec => []BestEffort` |
| `BooksAreWhole` | `Spec => []BookIsWhole` |
| `NobodyWaitsLonger` | `Spec => []AnswersInTime` |

`Shape` says which calls can be under way at each await (the parts only before the
authors, or after the request has failed); `OnTime` bounds the time since the
request by what the call under way has spent on its attempts and pauses, after
what the search before it may have taken, and the lemmas `Budgets`,
`BudgetsGrow` and `SpentFits` do the arithmetic: `n` attempts take at most `n`
time-outs and pauses of one, two, ... up to `n - 1` times the first.

Only model-checked: the liveness properties, since they rest on fairness and
`ENABLED`, which are out of the prover's reach.  They are `AnswersWithoutScraping`,
`RunEnds`, `RunEndsOrWaits`, `Settles` and `ServersClose`.

## Not modelled

* Which elements of a page the selectors of the parsers find: the markup belongs to
  the two sites.  The modules start from the texts and links that were found.
  Fields copied as they stand (cover, description, rating, warnings) are left out.
* The tools `events_get_by_id` and `users_get_by_discord_id`, and the list of users:
  each reads once and changes nothing.
* Logger, health, the wiring of the application, the pipe that checks ids:
  nothing in them has state.
* A page number beyond what the database takes for `skip`: it passes the parser
  (`events.v2.utils.ts:68` sets no upper bound) and fails as an error of the server.
* MongoDB beyond what the code relies on: single-document operations are atomic,
  a find is one read, a unique index admits one document for each key.

## Plan

Done, in this order: KeyedCollection, BookCatalog, UserDirectory, the proofs of
both, Migration, EventPaging, OpenLibrary, Access, EventSearch, the parsers and
BookInfo, BookRefresh and EventStore with their proofs, the proofs of Access,
Migration, OpenLibrary and EventPaging, EventTransfer with the refinement, and the
proofs of EventSearch and BookInfo, with which every safety property is proved.

What would come next are compositions: OpenLibrary as an implementation of the
fetch step that BookCatalog and Migration assume (the present link is that `Settles`
and `BestEffort` are what they assume of it), and Migration over UserDirectory and
BookCatalog instead of over its own copies of their creates.
