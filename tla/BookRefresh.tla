---------------------------- MODULE BookRefresh -----------------------------
(***************************************************************************)
(* MigrationsService.updateBooks: reads every book of the catalogue, then  *)
(* fetches the pages of the books one after the other and writes each book *)
(* back with the number of pages its page shows.                           *)
(*                                                                         *)
(* Each GET migrations/updateBooks is a run of its own, and runs overlap   *)
(* when it is asked for again, or by a client that gave up waiting.  No    *)
(* other code writes to a book that exists.                                *)
(*                                                                         *)
(* The number a page shows is the version of that number: the site edits   *)
(* it from 0 to MaxEdits.  Whole documents are written back, so what holds *)
(* of the number holds of the other fields, as they were read.             *)
(***************************************************************************)
EXTENDS Integers, Sequences

CONSTANTS
  Runs,         \* requests to update the books
  Books,        \* the books in the catalogue
  Order,        \* the order in which the database lists them
  SiteOf,       \* the site of each book: "GR", "SG" or "OL"
  MaxEdits,     \* bound: how often a site edits a page
  MaxRestarts   \* bound: how often the process restarts

ASSUME OrderAssumption ==
  Order \in Seq(Books) /\ \A b \in Books : \E i \in 1 .. Len(Order) : Order[i] = b
ASSUME SitesAssumption == SiteOf \in [Books -> {"GR", "SG", "OL"}]
ASSUME BoundsAssumption == MaxEdits \in Nat /\ MaxRestarts \in Nat

VARIABLES
  stored,    \* numPages of each book in the database
  shown,     \* the number on the page of each book
  pc,        \* the await a run is suspended at; "idle" before, "done" after
             \* its last book, "dead" when it ended in another way
  todo,      \* the books a run has not dealt with, the one it is at first
  doc,       \* the documents a run read, as it has changed them
  outcome,   \* history: what became of each book in a run
  began,     \* history: what the pages showed when a run began
  alone,     \* history: no other run was under way since a run began
  restarts

vars == <<stored, shown, pc, todo, doc, outcome, began, alone, restarts>>
history == <<outcome, began, alone>>

Running == {"all", "next", "fetch", "save"}

\* The book a run is at.
Book(r) == Head(todo[r])

TypeOK ==
  /\ stored \in [Books -> Nat]
  /\ shown \in [Books -> Nat]
  /\ pc \in [Runs -> {"idle", "done", "dead"} \union Running]
  /\ todo \in [Runs -> Seq(Books)]
  /\ doc \in [Runs -> [Books -> Nat]]
  /\ outcome \in [Runs -> [Books -> {"untried", "saved", "unread", "failed"}]]
  /\ began \in [Runs -> [Books -> Nat]]
  /\ alone \in [Runs -> BOOLEAN]
  /\ restarts \in 0 .. MaxRestarts
  /\ \A b \in Books : stored[b] <= shown[b]
  /\ \A r \in Runs : pc[r] \in {"fetch", "save"} => todo[r] # <<>> /\ SiteOf[Book(r)] # "OL"

Init ==
  /\ stored = [b \in Books |-> 0]
  /\ shown = [b \in Books |-> 0]
  /\ pc = [r \in Runs |-> "idle"]
  /\ todo = [r \in Runs |-> <<>>]
  /\ doc = [r \in Runs |-> stored]
  /\ outcome = [r \in Runs |-> [b \in Books |-> "untried"]]
  /\ began = [r \in Runs |-> shown]
  /\ alone = [r \in Runs |-> FALSE]
  /\ restarts = 0
-----------------------------------------------------------------------------
Goto(r, label) == pc' = [pc EXCEPT ![r] = label]

\* The loop goes on to the next book.
Advance(r, result) ==
  /\ Goto(r, "next")
  /\ todo' = [todo EXCEPT ![r] = Tail(@)]
  /\ outcome' = [outcome EXCEPT ![r][Book(r)] = result]

Under == {r \in Runs : pc[r] \in Running}

\* GET migrations/updateBooks.
Start(r) ==
  /\ pc[r] = "idle"
  /\ Goto(r, "all")
  /\ began' = [began EXCEPT ![r] = shown]
  /\ alone' = [q \in Runs |-> IF q = r THEN Under = {}
                              ELSE alone[q] /\ pc[q] \notin Running]
  /\ UNCHANGED <<stored, shown, todo, doc, outcome, restarts>>

\* getAllBooks returns, or throws and ends the run.
ReadAll(r) ==
  /\ pc[r] = "all"
  /\ Goto(r, "next")
  /\ doc' = [doc EXCEPT ![r] = stored]
  /\ todo' = [todo EXCEPT ![r] = Order]
  /\ UNCHANGED <<stored, shown, history, restarts>>

ReadAllFails(r) ==
  /\ pc[r] = "all"
  /\ Goto(r, "dead")
  /\ UNCHANGED <<stored, shown, todo, doc, history, restarts>>

\* The loop comes to a book: one of Goodreads or of Storygraph is fetched; for
\* any other no book is fetched, and the access to its numPages throws.
NextBook(r) ==
  /\ pc[r] = "next"
  /\ todo[r] # <<>>
  /\ SiteOf[Book(r)] # "OL"
  /\ Goto(r, "fetch")
  /\ UNCHANGED <<stored, shown, todo, doc, history, restarts>>

NextIsOther(r) ==
  /\ pc[r] = "next"
  /\ todo[r] # <<>>
  /\ SiteOf[Book(r)] = "OL"
  /\ Advance(r, "failed")
  /\ UNCHANGED <<stored, shown, doc, began, alone, restarts>>

Ends(r) ==
  /\ pc[r] = "next"
  /\ todo[r] = <<>>
  /\ Goto(r, "done")
  /\ UNCHANGED <<stored, shown, todo, doc, history, restarts>>

\* Mutant: the number is not taken over.
ForgetsNumber(r) ==
  /\ pc[r] = "fetch"
  /\ Goto(r, "save")
  /\ UNCHANGED <<stored, shown, todo, doc, history, restarts>>

\* The page comes with a number,
FetchAnswers(r) ==
  /\ pc[r] = "fetch"
  /\ Goto(r, "save")
  /\ doc' = [doc EXCEPT ![r][Book(r)] = shown[Book(r)]]
  /\ UNCHANGED <<stored, shown, todo, history, restarts>>

\* Mutant: a page without a number counts as one of no pages.
NaNIsZero(r) ==
  /\ pc[r] = "fetch"
  /\ Goto(r, "save")
  /\ doc' = [doc EXCEPT ![r][Book(r)] = 0]
  /\ outcome' = [outcome EXCEPT ![r][Book(r)] = "unread"]
  /\ UNCHANGED <<stored, shown, todo, began, alone, restarts>>

\* or without one, and the document keeps its own: Mongoose does not cast NaN.
FetchAnswersNaN(r) ==
  /\ pc[r] = "fetch"
  /\ Goto(r, "save")
  /\ outcome' = [outcome EXCEPT ![r][Book(r)] = "unread"]
  /\ UNCHANGED <<stored, shown, todo, doc, began, alone, restarts>>

\* getBook throws, for any reason it has; the catch goes on with the next.
FetchFails(r) ==
  /\ pc[r] = "fetch"
  /\ Advance(r, "failed")
  /\ UNCHANGED <<stored, shown, doc, began, alone, restarts>>

\* updateBook writes the whole document.
Save(r) ==
  /\ pc[r] = "save"
  /\ stored' = [stored EXCEPT ![Book(r)] = doc[r][Book(r)]]
  /\ Advance(r, IF outcome[r][Book(r)] = "unread" THEN "unread" ELSE "saved")
  /\ UNCHANGED <<shown, doc, began, alone, restarts>>

\* Mutant: the book is fetched again until it can be written.
SaveRetries(r) ==
  /\ pc[r] = "save"
  /\ Goto(r, "fetch")
  /\ UNCHANGED <<stored, shown, todo, doc, history, restarts>>

\* It throws: before the write, or after it when only the reply is lost.
SaveFails(r) ==
  /\ pc[r] = "save"
  /\ \/ UNCHANGED stored
     \/ stored' = [stored EXCEPT ![Book(r)] = doc[r][Book(r)]]
  /\ Advance(r, "failed")
  /\ UNCHANGED <<shown, doc, began, alone, restarts>>

\* The site edits the page of a book; those of Open Library are not looked at.
SiteEdits(b) ==
  /\ SiteOf[b] # "OL"
  /\ shown[b] < MaxEdits
  /\ shown' = [shown EXCEPT ![b] = @ + 1]
  /\ UNCHANGED <<stored, pc, todo, doc, history, restarts>>

Restart ==
  /\ restarts < MaxRestarts
  /\ restarts' = restarts + 1
  /\ pc' = [r \in Runs |-> IF pc[r] \in Running THEN "dead" ELSE pc[r]]
  /\ UNCHANGED <<stored, shown, todo, doc, history>>

Update(r) ==
  \/ ReadAll(r) \/ ReadAllFails(r)
  \/ NextBook(r) \/ NextIsOther(r) \/ Ends(r)
  \/ Save(r) \/ SaveFails(r)

Fetch(r) == FetchAnswers(r) \/ FetchAnswersNaN(r) \/ FetchFails(r)

Next ==
  \/ \E r \in Runs : Start(r) \/ Update(r) \/ Fetch(r)
  \/ \E b \in Books : SiteEdits(b)
  \/ Restart

Spec == Init /\ [][Next]_vars

\* A run goes on where it can.  Nothing makes a site answer: the calls to
\* Goodreads and Storygraph have no timeout.
FairSpec == Spec /\ \A r \in Runs : WF_vars(Update(r))
-----------------------------------------------------------------------------
\* A run during which there was no other leaves each book whose page it could
\* read and write at least as fresh as the site was when the run began
\* (updateBooks: the number fetched, and the document written back).
LoneRunRefreshes ==
  \A r \in Runs, b \in Books :
    (pc[r] = "done" /\ alone[r] /\ outcome[r][b] = "saved") => stored[b] >= began[r][b]

\* A run comes to all books: none is left untried because another failed
\* (the catch in the loop of updateBooks).
EveryBookIsTried ==
  \A r \in Runs, b \in Books : pc[r] = "done" => outcome[r][b] # "untried"

\* What a run that has ended is good for, whatever failed in it.
RunsRefresh == LoneRunRefreshes /\ EveryBookIsTried

\* The number of pages of a book never goes back to an older one, except by a
\* run that another run overlapped: both write what they read before they
\* fetched (updateBooks, the document of getAllBooks and the one written back).
OnlyOverlapsLoseUpdates ==
  [][ \A b \in Books :
        stored'[b] < stored[b] => \E r \in Runs : pc[r] = "save" /\ Book(r) = b /\ ~alone[r] ]_vars

\* A run ends, unless it waits for ever for the page of one book (the loop of
\* updateBooks; getBook of both services, which have no timeout).
RunEndsOrWaits ==
  \A r \in Runs :
    []<>(pc[r] \notin Running) \/ \E b \in Books : <>[](pc[r] = "fetch" /\ Book(r) = b)
=============================================================================
