------------------------------ MODULE Migration ------------------------------
(***************************************************************************)
(* MigrationsService: the endpoints that copy the events of the old        *)
(* database into the new one, creating the books and users they mention.   *)
(*                                                                         *)
(*   GET  api/migrations/all   migrateAllEvents, a cursor over all events  *)
(*   POST api/migrations       migrateEvent, one event from the body       *)
(*                                                                         *)
(* A run of either is a sequence of awaits over several collections and no *)
(* transaction; an error in one event is caught and logged, and the run    *)
(* goes on with the next.  Nothing stops a client from starting a second   *)
(* run, or the service from creating users and books meanwhile.  The       *)
(* unique indexes are taken to be built (BookCatalog and UserDirectory     *)
(* model how they come to be).                                             *)
(***************************************************************************)
EXTENDS Naturals, Sequences, FiniteSets

CONSTANTS
  Runs,         \* the runs clients may start
  Docs,         \* the events of the old database
  Cursor,       \* the order in which its cursor yields them
  Broken,       \* those that lack a book
  Pages,        \* the books' pages
  UserIds,      \* the users' ids in the chat the events took place in
  Page,         \* Page[d]: the book of event d
  People,       \* People[d]: its readers, leaders and interested, as listed
  Timed,        \* the pages on the site whose requests carry a timeout
  Api,          \* stands for the other requests the service handles
  NoBook,       \* stands for null
  MaxDeletes,   \* bound: how many events and users are deleted through the API
  MaxRestarts   \* bound: how often the process may restart

ASSUME CursorAssumption ==
  /\ Cursor \in Seq(Docs) /\ Broken \subseteq Docs
  /\ \A d \in Docs : \E i \in DOMAIN Cursor : Cursor[i] = d
ASSUME PageAssumption == Page \in [Docs -> Pages] /\ Timed \subseteq Pages
ASSUME PeopleAssumption ==
  DOMAIN People = Docs /\ \A d \in Docs : People[d] \in Seq(UserIds)
ASSUME ApiAssumption == Api \notin Runs
ASSUME BoundAssumption == MaxDeletes \in Nat /\ MaxRestarts \in Nat

VARIABLES
  books,     \* the books collection, as [by, page]
  users,     \* the users collection, as [by, userId]
  events,    \* the events collection, as [id, book, people]
  pc,        \* pc[w]: the await run w is suspended at
  list,      \* list[w]: the events run w was started for
  at,        \* at[w]: the place in list[w] of the event it migrates
  book,      \* book[w]: the book found or created for the current event
  people,    \* people[w]: the users found or created for it so far
  moved,     \* history: moved[w], the events run w has migrated
  dropped,   \* history: dropped[w], the events run w has given up on
  troubled,  \* history: troubled[w], something came in the way of run w
  gone,      \* history: the users deleted through the API
  deletes,
  restarts

bounds == <<gone, deletes, restarts>>
vars == <<books, users, events, pc, list, at, book, people, moved, dropped,
          troubled, gone, deletes, restarts>>

Makers == Runs \union {Api}
Books == [by : Makers, page : Pages]
Users == [by : Makers, userId : UserIds]
Points == {"off", "next", "book", "fetch", "checkBook", "insertBook", "person",
           "checkPerson", "insertPerson", "find", "update", "create", "reply",
           "done"}

TypeOK ==
  /\ books \subseteq Books
  /\ users \subseteq Users
  /\ \A e \in events : e.id \in Docs /\ e.book \in Books /\ e.people \in Seq(Users)
  /\ pc \in [Runs -> Points]
  /\ list \in [Runs -> Seq(Docs)]
  /\ at \in [Runs -> Nat \ {0}]
  /\ book \in [Runs -> Books \union {NoBook}]
  /\ people \in [Runs -> Seq(Users)]
  /\ moved \in [Runs -> SUBSET Docs]
  /\ dropped \in [Runs -> SUBSET Docs]
  /\ troubled \in [Runs -> BOOLEAN]
  /\ gone \subseteq Users
  /\ deletes \in 0..MaxDeletes
  /\ restarts \in 0..MaxRestarts

Init ==
  /\ books = {} /\ users = {} /\ events = {}
  /\ pc = [w \in Runs |-> "off"]
  /\ list = [w \in Runs |-> <<>>]
  /\ at = [w \in Runs |-> 1]
  /\ book = [w \in Runs |-> NoBook]
  /\ people = [w \in Runs |-> <<>>]
  /\ moved = [w \in Runs |-> {}]
  /\ dropped = [w \in Runs |-> {}]
  /\ troubled = [w \in Runs |-> FALSE]
  /\ gone = {} /\ deletes = 0 /\ restarts = 0

-----------------------------------------------------------------------------
Doc(w) == list[w][at[w]]
BooksOf(p) == {b \in books : b.page = p}
UsersOf(k) == {u \in users : u.userId = k}
Active == {w \in Runs : pc[w] \notin {"off", "done"}}

\* The user getParticipants asks for next, in a list it has not finished.
Person(w) == People[Doc(w)][Len(people[w]) + 1]

Goto(w, point) == pc' = [pc EXCEPT ![w] = point]
Disturb(S) == troubled' = [w \in Runs |-> troubled[w] \/ w \in S]

\* Mutant: the last participant is left out.
NextButLast(w, sofar) ==
  IF Len(sofar) + 1 >= Len(People[Doc(w)]) THEN Goto(w, "find") ELSE Goto(w, "person")

\* After the book come the participants, one by one, and then the event.
NextPerson(w, sofar) ==
  IF Len(sofar) = Len(People[Doc(w)]) THEN Goto(w, "find") ELSE Goto(w, "person")

\* migrateEvent returns: the event is in the new database, or its error was
\* caught and logged.
Leave(w) ==
  /\ at' = [at EXCEPT ![w] = at[w] + 1]
  /\ book' = [book EXCEPT ![w] = NoBook]
  /\ people' = [people EXCEPT ![w] = <<>>]
  /\ Goto(w, "next")
  /\ UNCHANGED list

Migrated(w) ==
  /\ Leave(w)
  /\ moved' = [moved EXCEPT ![w] = moved[w] \union {Doc(w)}]
  /\ UNCHANGED dropped

\* Mutant: an event that failed is tried again at once.
DropRetries(w) ==
  /\ book' = [book EXCEPT ![w] = NoBook]
  /\ people' = [people EXCEPT ![w] = <<>>]
  /\ Goto(w, "next")
  /\ UNCHANGED <<list, at, moved, dropped>>

Drop(w) ==
  /\ Leave(w)
  /\ dropped' = [dropped EXCEPT ![w] = dropped[w] \union {Doc(w)}]
  /\ UNCHANGED moved

GoesOn == UNCHANGED <<list, at, moved, dropped, troubled>>
NothingStored == UNCHANGED <<books, users, events, bounds>>

-----------------------------------------------------------------------------
\* A client asks for all events, or posts one.  Runs under way at the same
\* time disturb each other.
Start(w) ==
  /\ pc[w] = "off"
  /\ \E docs \in {Cursor} \union {<<d>> : d \in Docs} :
       list' = [list EXCEPT ![w] = docs]
  /\ Goto(w, "next")
  /\ Disturb(IF Active = {} THEN {} ELSE Active \union {w})
  /\ UNCHANGED <<at, book, people, moved, dropped>> /\ NothingStored

NextDoc(w) ==
  /\ pc[w] = "next"
  /\ \/ at[w] > Len(list[w]) /\ Goto(w, "done")
     \/ at[w] <= Len(list[w]) /\ Goto(w, "book")
  /\ UNCHANGED <<book, people>> /\ GoesOn /\ NothingStored

\* The old database fails while the cursor is read: that is outside the
\* try block of migrateEvent and ends the whole run.
CursorFails(w) ==
  /\ pc[w] = "next"
  /\ Goto(w, "done")
  /\ Disturb({w})
  /\ UNCHANGED <<list, at, book, people, moved, dropped>> /\ NothingStored

\* getBookDoc: find the book, or else fetch its page.
FindBook(w) ==
  /\ pc[w] = "book"
  /\ \/ /\ Doc(w) \in Broken
        /\ Drop(w) /\ UNCHANGED troubled
     \/ /\ Doc(w) \notin Broken
        /\ BooksOf(Page[Doc(w)]) = {}
        /\ Goto(w, "fetch")
        /\ UNCHANGED <<book, people>> /\ GoesOn
     \/ /\ Doc(w) \notin Broken
        /\ \E b \in BooksOf(Page[Doc(w)]) : book' = [book EXCEPT ![w] = b]
        /\ NextPerson(w, <<>>)
        /\ UNCHANGED people /\ GoesOn
  /\ NothingStored

FetchAnswers(w) ==
  /\ pc[w] = "fetch"
  /\ Goto(w, "checkBook")
  /\ UNCHANGED <<book, people>> /\ GoesOn /\ NothingStored

FetchFails(w) ==
  /\ pc[w] = "fetch"
  /\ Drop(w) /\ Disturb({w})
  /\ NothingStored

\* createBook looks the book up again, and throws if it is there by now.
CheckBook(w) ==
  /\ pc[w] = "checkBook"
  /\ \/ /\ BooksOf(Page[Doc(w)]) = {}
        /\ Goto(w, "insertBook")
        /\ UNCHANGED <<book, people>> /\ GoesOn
     \/ /\ BooksOf(Page[Doc(w)]) # {}
        /\ Drop(w) /\ UNCHANGED troubled
  /\ NothingStored

\* The index refuses a page it has; the answer to an insert may be lost.
InsertBook(w) ==
  LET new == [by |-> w, page |-> Page[Doc(w)]] IN
  /\ pc[w] = "insertBook"
  /\ \/ /\ BooksOf(Page[Doc(w)]) = {}
        /\ books' = books \union {new}
        /\ book' = [book EXCEPT ![w] = new]
        /\ NextPerson(w, <<>>)
        /\ UNCHANGED people /\ GoesOn
     \/ /\ BooksOf(Page[Doc(w)]) = {}
        /\ books' = books \union {new}
        /\ Drop(w) /\ Disturb({w})
     \/ /\ BooksOf(Page[Doc(w)]) # {}
        /\ Drop(w) /\ UNCHANGED <<books, troubled>>
  /\ UNCHANGED <<users, events, bounds>>

\* getUserDoc: find the user, or else create it.
FindPerson(w) ==
  /\ pc[w] = "person"
  /\ \/ /\ UsersOf(Person(w)) = {}
        /\ Goto(w, "checkPerson")
        /\ UNCHANGED people
     \/ \E u \in UsersOf(Person(w)) :
          /\ people' = [people EXCEPT ![w] = Append(people[w], u)]
          /\ NextPerson(w, people'[w])
  /\ UNCHANGED book /\ GoesOn /\ NothingStored

\* UsersService.create looks the user up again, and throws if it is there.
CheckPerson(w) ==
  /\ pc[w] = "checkPerson"
  /\ \/ /\ UsersOf(Person(w)) = {}
        /\ Goto(w, "insertPerson")
        /\ UNCHANGED <<book, people>> /\ GoesOn
     \/ /\ UsersOf(Person(w)) # {}
        /\ Drop(w) /\ UNCHANGED troubled
  /\ NothingStored

\* Mutant: the index on userId is not unique.
InsertAnyway(w) ==
  LET new == [by |-> w, userId |-> Person(w)] IN
  /\ pc[w] = "insertPerson"
  /\ users' = users \union {new}
  /\ people' = [people EXCEPT ![w] = Append(people[w], new)]
  /\ NextPerson(w, people'[w])
  /\ UNCHANGED <<book, books, events, bounds>> /\ GoesOn

InsertPerson(w) ==
  LET new == [by |-> w, userId |-> Person(w)] IN
  /\ pc[w] = "insertPerson"
  /\ \/ /\ UsersOf(Person(w)) = {}
        /\ users' = users \union {new}
        /\ people' = [people EXCEPT ![w] = Append(people[w], new)]
        /\ NextPerson(w, people'[w])
        /\ UNCHANGED book /\ GoesOn
     \/ /\ UsersOf(Person(w)) = {}
        /\ users' = users \union {new}
        /\ Drop(w) /\ Disturb({w})
     \/ /\ UsersOf(Person(w)) # {}
        /\ Drop(w) /\ UNCHANGED <<users, troubled>>
  /\ UNCHANGED <<books, events, bounds>>

\* The event has the _id of the old one: migrating it again updates it.
EventOf(w) == [id |-> Doc(w), book |-> book[w], people |-> people[w]]
Migrating(w) == {e \in events : e.id = Doc(w)}

\* Mutant: the event is always created, never updated.
NeverFinds(w) ==
  /\ pc[w] = "find"
  /\ Goto(w, "create")
  /\ UNCHANGED <<book, people>> /\ GoesOn /\ NothingStored

FindEvent(w) ==
  /\ pc[w] = "find"
  /\ IF Migrating(w) = {} THEN Goto(w, "create") ELSE Goto(w, "update")
  /\ UNCHANGED <<book, people>> /\ GoesOn /\ NothingStored

\* The event is written; the process has yet to hear of it.
AwaitReply(w) ==
  /\ Goto(w, "reply")
  /\ UNCHANGED <<book, people>> /\ GoesOn

\* Mutant: that no event was updated goes unnoticed.
UpdateUnnoticed(w) ==
  /\ pc[w] = "update"
  /\ \/ Migrating(w) # {} /\ events' = (events \ Migrating(w)) \union {EventOf(w)}
     \/ Migrating(w) = {} /\ UNCHANGED events
  /\ AwaitReply(w)
  /\ UNCHANGED <<books, users, bounds>>

\* findByIdAndUpdate gives null for an event deleted since it was found, and
\* reading the _id of null throws.
UpdateEvent(w) ==
  /\ pc[w] = "update"
  /\ \/ /\ Migrating(w) # {}
        /\ events' = (events \ Migrating(w)) \union {EventOf(w)}
        /\ AwaitReply(w)
     \/ /\ Migrating(w) = {}
        /\ Drop(w) /\ UNCHANGED <<events, troubled>>
  /\ UNCHANGED <<books, users, bounds>>

\* The primary key refuses an event inserted since it was not found.
CreateEvent(w) ==
  /\ pc[w] = "create"
  /\ \/ /\ Migrating(w) = {}
        /\ events' = events \union {EventOf(w)}
        /\ AwaitReply(w)
     \/ /\ Migrating(w) # {}
        /\ Drop(w) /\ UNCHANGED <<events, troubled>>
  /\ UNCHANGED <<books, users, bounds>>

WriteAnswered(w) ==
  /\ pc[w] = "reply"
  /\ Migrated(w)
  /\ UNCHANGED troubled /\ NothingStored

\* A query or a write of migrateEvent fails before it has any effect, or the
\* answer to the write of the event is lost: the catch logs the event as failed
\* although it is stored.  (InsertBook and InsertPerson lose theirs themselves.)
DbFails(w) ==
  /\ pc[w] \in Points \ {"off", "next", "fetch", "done"}
  /\ Drop(w) /\ Disturb({w})
  /\ NothingStored

-----------------------------------------------------------------------------
\* The rest of the service meanwhile.
ApiCreatesUser ==
  /\ \E k \in UserIds :
       UsersOf(k) = {} /\ users' = users \union {[by |-> Api, userId |-> k]}
  /\ Disturb(Active)
  /\ UNCHANGED <<books, events, pc, list, at, book, people, moved, dropped, bounds>>

ApiCreatesBook ==
  /\ \E p \in Pages :
       BooksOf(p) = {} /\ books' = books \union {[by |-> Api, page |-> p]}
  /\ Disturb(Active)
  /\ UNCHANGED <<users, events, pc, list, at, book, people, moved, dropped, bounds>>

ApiDeletesEvent ==
  /\ deletes < MaxDeletes
  /\ deletes' = deletes + 1
  /\ \E e \in events : events' = events \ {e}
  /\ Disturb(Active)
  /\ UNCHANGED <<books, users, pc, list, at, book, people, moved, dropped, gone, restarts>>

ApiDeletesUser ==
  /\ deletes < MaxDeletes
  /\ deletes' = deletes + 1
  /\ \E u \in users : users' = users \ {u} /\ gone' = gone \union {u}
  /\ Disturb(Active)
  /\ UNCHANGED <<books, events, pc, list, at, book, people, moved, dropped, restarts>>

\* The process stops and starts again; nothing resumes a run.
Restart ==
  /\ restarts < MaxRestarts
  /\ restarts' = restarts + 1
  /\ pc' = [w \in Runs |-> IF w \in Active THEN "done" ELSE pc[w]]
  /\ Disturb(Active)
  /\ UNCHANGED <<books, users, events, list, at, book, people, moved, dropped, gone, deletes>>

Migrate(w) ==
  \/ NextDoc(w) \/ FindBook(w) \/ CheckBook(w) \/ InsertBook(w)
  \/ FindPerson(w) \/ CheckPerson(w) \/ InsertPerson(w)
  \/ FindEvent(w) \/ UpdateEvent(w) \/ CreateEvent(w) \/ WriteAnswered(w)

Next ==
  \/ \E w \in Runs :
       \/ Start(w) \/ NextDoc(w) \/ CursorFails(w)
       \/ FindBook(w) \/ FetchAnswers(w) \/ FetchFails(w) \/ CheckBook(w)
       \/ InsertBook(w) \/ FindPerson(w) \/ CheckPerson(w) \/ InsertPerson(w)
       \/ FindEvent(w) \/ UpdateEvent(w) \/ CreateEvent(w) \/ WriteAnswered(w)
       \/ DbFails(w)
  \/ ApiCreatesUser \/ ApiCreatesBook \/ ApiDeletesEvent \/ ApiDeletesUser
  \/ Restart

Spec == Init /\ [][Next]_vars

\* The event loop resumes a run whose await has ended and the databases
\* answer or fail.  A site is only known to answer when the request to it
\* carries a timeout.
Fairness ==
  \A w \in Runs :
    /\ WF_vars(Migrate(w) \/ DbFails(w))
    /\ WF_vars(pc[w] = "fetch" /\ Page[Doc(w)] \in Timed
               /\ (FetchAnswers(w) \/ FetchFails(w)))

FairSpec == Spec /\ Fairness

-----------------------------------------------------------------------------
\* However runs overlap, what they store is complete and right: an event has
\* the book of its old document, and its participants in the order listed.
\* Each is stored, or was until a client deleted that user: nothing keeps a
\* run from storing one it had found just before.
EventsComplete ==
  \A e \in events :
    /\ e.id \notin Broken
    /\ e.book \in books /\ e.book.page = Page[e.id]
    /\ Len(e.people) = Len(People[e.id])
    /\ \A i \in DOMAIN e.people :
         e.people[i] \in users \union gone /\ e.people[i].userId = People[e.id][i]

\* Migrating twice, even at once, makes no second copy of anything.
NoCopies ==
  /\ \A b, c \in books : b.page = c.page => b = c
  /\ \A u, v \in users : u.userId = v.userId => u = v
  /\ \A d, e \in events : d.id = e.id => d = e

\* A run that nothing came in the way of migrates every sound event it was
\* started for, whatever earlier runs, failures and restarts left behind: to
\* recover from those, it is enough to run the migration again.
CleanRunMigratesAll ==
  \A w \in Runs : ~troubled[w] =>
    /\ dropped[w] \subseteq Broken
    /\ pc[w] = "done" =>
         \A i \in DOMAIN list[w] : list[w][i] \in moved[w] \union Broken

\* One event that fails does not take others with it: when a run ends by
\* itself, it has migrated or given up each event, and what any run migrated
\* is in the new database as long as nobody deletes it.
NoneSkipped ==
  \A w \in Runs :
    /\ pc[w] = "next" =>
         {list[w][i] : i \in {j \in DOMAIN list[w] : j < at[w]}}
           = moved[w] \union dropped[w]
    /\ deletes = 0 => \A d \in moved[w] : \E e \in events : e.id = d

\* What a run leaves undone it leaves undone for a reason.
MigratesWhatItCan == CleanRunMigratesAll /\ NoneSkipped

\* The chain of queries that migrates an event, overlapping with those of other
\* runs and requests, amounts to one step: the event is copied whole, as the old
\* database has it.  A run reports an event only once it has copied it; one it
\* gives up is as it was, or whole, with the answer to its write lost.
CopyOf(e) ==
  [id |-> e.id, page |-> e.book.page,
   people |-> [i \in DOMAIN e.people |-> e.people[i].userId]]

Written == [w \in Runs |-> IF pc[w] = "reply" THEN {Doc(w)} ELSE {}]

Atomic ==
  INSTANCE EventTransfer WITH
    Sound <- Docs \ Broken,
    Copy <- [d \in Docs |-> [id |-> d, page |-> Page[d], people |-> People[d]]],
    stored <- {CopyOf(e) : e \in events},
    written <- Written

Transfer == Atomic!Spec

\* A run ends when the pages it may have to fetch are on the site with a
\* timeout: no event, however broken, makes it wait.
RunEnds ==
  (\A d \in Docs : Page[d] \in Timed) =>
    \A w \in Runs : pc[w] # "off" ~> pc[w] = "done"
=============================================================================
