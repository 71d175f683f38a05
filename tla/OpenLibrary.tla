---------------------------- MODULE OpenLibrary ----------------------------
(***************************************************************************)
(* One request that OpenLibraryService serves out of the API of            *)
(* openlibrary.org:                                                        *)
(*                                                                         *)
(*   "search"   GET api/openlibrary/search   searchBooks                   *)
(*   "find"     GET api/openlibrary/book     searchBooks, then getBook     *)
(*   "get"      BooksService.createBookFromUrl            getBook          *)
(*                                                                         *)
(* getBook asks for the work, its ratings and its editions side by side,   *)
(* goes on when all three have ended, or ends when the first is rejected,  *)
(* and then asks for the authors one after the other.  Every call to the   *)
(* site has a timeout; those for a search and for the work are tried       *)
(* several times, with a pause in between.                                 *)
(*                                                                         *)
(* Time passes in ticks.  Timers are taken to fire on time, and what the   *)
(* server does between two awaits to take none.  Requests share no state,  *)
(* so one is enough.                                                       *)
(***************************************************************************)
EXTENDS Naturals, Sequences

CONSTANTS
  OL_REQUEST_TIMEOUT,  \* ticks until an unanswered call is given up
  OL_RETRY_DELAY,      \* the first pause, in ticks; the second is twice that
  OL_MAX_ATTEMPTS,     \* how often a call that matters is tried
  MaxAuthors           \* bound: how many authors a work has

ASSUME TimeoutAssumption == OL_REQUEST_TIMEOUT \in Nat \ {0}
ASSUME DelayAssumption == OL_RETRY_DELAY \in Nat
ASSUME AttemptsAssumption == OL_MAX_ATTEMPTS \in Nat \ {0}
ASSUME AuthorsAssumption == MaxAuthors \in Nat

VARIABLES
  ask,      \* [kind, authors]: what is asked for, and how many authors the
            \* work will turn out to have
  pc,       \* the await the handler is suspended at
  call,     \* call[c]: the last call to the site of each sort
  names,    \* the authors' names so far; NoName where it is not known
  answer,   \* what the caller is given
  elapsed   \* ticks from the request to its answer

vars == <<ask, pc, call, names, answer, elapsed>>

Calls == {"search", "work", "ratings", "edition", "author"}
Parts == {"work", "ratings", "edition"}
Ended == {"ok", "failed"}
NoName == ""
Names == {"name", NoName}

\* Mutant: fetchJson's default is used throughout.
TriesAll(c) == OL_MAX_ATTEMPTS

maxAttempts(c) == IF c \in {"search", "work"} THEN OL_MAX_ATTEMPTS ELSE 1

\* What a call with n attempts may take: n timeouts and the pauses between.
Budget(n) ==
  n * OL_REQUEST_TIMEOUT + OL_RETRY_DELAY * ((n * (n - 1)) \div 2)

\* What the whole request may take.
Patience ==
  LET get == Budget(OL_MAX_ATTEMPTS) + ask.authors * OL_REQUEST_TIMEOUT IN
  CASE ask.kind = "search" -> Budget(OL_MAX_ATTEMPTS)
    [] ask.kind = "get" -> get
    [] ask.kind = "find" -> Budget(OL_MAX_ATTEMPTS) + get

TypeOK ==
  /\ ask \in [kind : {"search", "find", "get"}, authors : 0 .. MaxAuthors]
  /\ pc \in {"idle", "search", "parts", "authors", "done"}
  /\ call \in [Calls -> [st : {"idle", "sent", "pause"} \union Ended,
                         attempt : Nat, age : Nat]]
  /\ \A c \in Calls :
       /\ call[c].attempt <= maxAttempts(c)
       /\ call[c].st = "sent" => call[c].age <= OL_REQUEST_TIMEOUT
       /\ call[c].st = "pause" => call[c].age <= OL_RETRY_DELAY * call[c].attempt
  /\ names \in Seq(Names) /\ Len(names) <= ask.authors
  /\ answer \in {"none", "books", "book", "notFound", "badRequest", "unavailable"}
  /\ elapsed \in Nat

Init ==
  /\ ask \in [kind : {"search", "find", "get"}, authors : 0 .. MaxAuthors]
  /\ pc = "idle"
  /\ call = [c \in Calls |-> [st |-> "idle", attempt |-> 0, age |-> 0]]
  /\ names = <<>> /\ answer = "none" /\ elapsed = 0

-----------------------------------------------------------------------------
Send(calls, C, attempt) ==
  [c \in Calls |-> IF c \in C THEN [st |-> "sent", attempt |-> attempt, age |-> 0]
                              ELSE calls[c]]

End(c, st) ==
  [call EXCEPT ![c] = [st |-> st, attempt |-> call[c].attempt, age |-> 0]]

Answer(what) == pc' = "done" /\ answer' = what

\* getBook: a url that is not a work's is refused, or the three parts are
\* asked for.
GetBook(calls) ==
  /\ \/ Answer("badRequest") /\ call' = calls
     \/ /\ call' = Send(calls, Parts, 1)
        /\ pc' = "parts" /\ UNCHANGED answer
  /\ UNCHANGED names

\* hydrateAuthors: the loop over the work's authors, with the names so far.
HydrateAuthors(calls, ns) ==
  /\ names' = ns
  /\ IF Len(ns) = ask.authors
     THEN Answer("book") /\ call' = calls
     ELSE /\ call' = Send(calls, {"author"}, 1)
          /\ pc' = "authors" /\ UNCHANGED answer

\* Mutant: the ratings and the editions are not awaited.
WorkEnds(calls) ==
  IF pc = "parts" /\ calls["work"].st = "ok"
  THEN HydrateAuthors(calls, <<>>)
  ELSE call' = calls /\ UNCHANGED <<pc, names, answer>>

\* Mutant: a part that failed is waited for.
PartSucceeds(calls) ==
  IF pc = "parts" /\ \A c \in Parts : calls[c].st = "ok"
  THEN HydrateAuthors(calls, <<>>)
  ELSE call' = calls /\ UNCHANGED <<pc, names, answer>>

\* Promise.all is fulfilled when the last of the parts is.
PartEnds(calls) ==
  IF pc = "parts" /\ \A c \in Parts : calls[c].st \in Ended
  THEN HydrateAuthors(calls, <<>>)
  ELSE call' = calls /\ UNCHANGED <<pc, names, answer>>

-----------------------------------------------------------------------------
Receive ==
  /\ pc = "idle"
  /\ IF ask.kind = "get"
     THEN GetBook(call)
     ELSE /\ call' = Send(call, {"search"}, 1)
          /\ pc' = "search" /\ UNCHANGED <<names, answer>>
  /\ UNCHANGED <<ask, elapsed>>

\* The site answers with what was asked for.  A search may find nothing; an
\* author may have no name.
Succeed(c) ==
  /\ call[c].st = "sent"
  /\ LET calls == End(c, "ok") IN
     CASE c = "search" ->
            \/ /\ Answer("notFound") /\ call' = calls /\ UNCHANGED names
            \/ /\ ask.kind = "search"
               /\ Answer("books") /\ call' = calls /\ UNCHANGED names
            \/ ask.kind = "find" /\ GetBook(calls)
       [] c \in Parts -> PartEnds(calls)
       [] c = "author" ->
            \E name \in Names : HydrateAuthors(calls, Append(names, name))
  /\ UNCHANGED <<ask, elapsed>>

\* Mutant: getRatings does not catch.
RatingsReject(c, calls) ==
  CASE c \in {"search", "work", "ratings"} ->
         Answer("unavailable") /\ call' = calls /\ UNCHANGED names
    [] c = "edition" -> PartEnds(calls)
    [] c = "author" -> HydrateAuthors(calls, Append(names, NoName))

\* What becomes of the request when fetchJson gives up on a call.  It ends when
\* that was the search or the work, also while the other parts are still on
\* their way; the failures of the other calls are caught.
Rejects(c, calls) ==
  CASE c \in {"search", "work"} ->
         Answer("unavailable") /\ call' = calls /\ UNCHANGED names
    [] c \in {"ratings", "edition"} -> PartEnds(calls)
    [] c = "author" -> HydrateAuthors(calls, Append(names, NoName))

\* Mutant: the attempts are counted from 0.
FailLate(c) ==
  /\ call[c].st = "sent"
  /\ \E retryable \in BOOLEAN :
       IF retryable /\ call[c].attempt <= maxAttempts(c)
       THEN call' = End(c, "pause") /\ UNCHANGED <<pc, names, answer>>
       ELSE Rejects(c, End(c, "failed"))
  /\ UNCHANGED <<ask, elapsed>>

\* The call fails.  No response, 429 and 5xx are worth another attempt, if
\* there is one left; another status is not.
Fail(c) ==
  /\ call[c].st = "sent"
  /\ \E retryable \in BOOLEAN :
       IF retryable /\ call[c].attempt < maxAttempts(c)
       THEN call' = End(c, "pause") /\ UNCHANGED <<pc, names, answer>>
       ELSE Rejects(c, End(c, "failed"))
  /\ UNCHANGED <<ask, elapsed>>

Resend(c) ==
  /\ call[c].st = "pause"
  /\ call[c].age = OL_RETRY_DELAY * call[c].attempt
  /\ call' = Send(call, {c}, call[c].attempt + 1)
  /\ UNCHANGED <<ask, pc, names, answer, elapsed>>

Running == {c \in Calls : call[c].st \in {"sent", "pause"}}

\* Time passes, but not beyond a timer that has run out.
Tick ==
  /\ Running # {}
  /\ \A c \in Running :
       call[c].age < IF call[c].st = "sent" THEN OL_REQUEST_TIMEOUT
                     ELSE OL_RETRY_DELAY * call[c].attempt
  /\ call' = [c \in Calls |-> IF c \in Running
                              THEN [call[c] EXCEPT !.age = @ + 1] ELSE call[c]]
  /\ elapsed' = IF pc = "done" THEN elapsed ELSE elapsed + 1
  /\ UNCHANGED <<ask, pc, names, answer>>

Next ==
  \/ Receive \/ Tick
  \/ \E c \in Calls : Succeed(c) \/ Fail(c) \/ Resend(c)

Spec == Init /\ [][Next]_vars

\* The event loop runs what is due, and time passes.
FairSpec == Spec /\ WF_vars(Next)

-----------------------------------------------------------------------------
\* The caller is told that the site is unavailable when, and as soon as, the
\* search or the work could not be had: what is merely nice to have (ratings,
\* editions, names of authors) never costs it the book, and the parts still
\* on their way do not keep it waiting.
BestEffort ==
  answer = "unavailable" <=> \E c \in {"search", "work"} : call[c].st = "failed"

\* The caller has its answer after at most the time the attempts on the
\* critical path and the pauses between them take; ratings and editions, which
\* run beside the work, add nothing.
AnswersInTime == answer = "none" => elapsed <= Patience

\* A book that is given to the caller is a work of the site, no call for it
\* is still under way, and it has all its authors, named or not.
BookIsWhole ==
  answer = "book" =>
    /\ call["work"].st = "ok"
    /\ \A c \in Calls : call[c].st \in Ended \union {"idle"}
    /\ Len(names) = ask.authors

\* The caller gets an answer, and the calls it did not wait for end too.
Settles == <>[](answer # "none" /\ Running = {})
=============================================================================
