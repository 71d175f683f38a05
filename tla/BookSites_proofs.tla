------------------------- MODULE BookSites_proofs --------------------------
(***************************************************************************)
(* Proofs about what is read from the pages of Goodreads and Storygraph:   *)
(* BookRefresh, for any books, runs, sites and bounds, and BookInfo, for   *)
(* any pages the sites may send.                                           *)
(*                                                                         *)
(* The refresh.  The inductive invariant follows the number of a book from *)
(* its page through the document of a run into the database: what is read  *)
(* or stored was shown (DocsWereShown), a run that is alone holds nothing  *)
(* older than the database does (AloneIsAhead), what it fetched is no      *)
(* older than its beginning (ReadIsFresh), and once it has saved that, no  *)
(* later run holds anything older (SavedIsFresh).                          *)
(*                                                                         *)
(* The answers.  What a parser makes of a page is a property of the page   *)
(* alone (SearchPageRead, SearchPageFails, BookPageRead); the invariant    *)
(* carries it to the answer: a handler that waits for the page of a book   *)
(* still has the search page whose first row it asked for (Found).         *)
(***************************************************************************)
EXTENDS BookRefresh, BookInfo, FiniteSetTheorems, SequenceTheorems, TLAPS

Read == {"next", "fetch", "save"}

DocsWereShown ==
  \A r \in Runs, b \in Books : doc[r][b] <= shown[b] /\ began[r][b] <= shown[b]

AloneIsAlone ==
  \A r, q \in Runs :
    (r # q /\ pc[r] \in Running /\ pc[q] \in Running) => ~alone[r]

AloneIsAhead ==
  \A r \in Runs, b \in Books :
    (pc[r] \in Read /\ alone[r]) => stored[b] <= doc[r][b]

ReadIsFresh ==
  \A r \in Runs :
    (pc[r] = "save" /\ outcome[r][Book(r)] # "unread") => began[r][Book(r)] <= doc[r][Book(r)]

SavedIsFresh ==
  \A r \in Runs, b \in Books :
    (pc[r] \in Read \union {"done"} /\ alone[r] /\ outcome[r][b] = "saved") =>
      /\ began[r][b] <= stored[b]
      /\ \A q \in Runs : (q # r /\ pc[q] \in Read) => began[r][b] <= doc[q][b]

UntriedOf(r) ==
    /\ pc[r] = "idle" => ~alone[r]
    /\ pc[r] \in {"idle", "all"} => \A b \in Books : outcome[r][b] = "untried"
    /\ pc[r] \in Read \union {"done"} =>
         \A b \in Books : outcome[r][b] = "untried" =>
           \E i \in 1 .. Len(todo[r]) : todo[r][i] = b
    /\ pc[r] = "done" => todo[r] = <<>>

UntriedIsAhead == \A r \in Runs : UntriedOf(r)

Inv ==
  /\ TypeOK
  /\ DocsWereShown
  /\ AloneIsAlone
  /\ AloneIsAhead
  /\ ReadIsFresh
  /\ SavedIsFresh
  /\ UntriedIsAhead


-----------------------------------------------------------------------------
(* What a step of the run w may do to each variable.                       *)

OthersStay(w) ==
  /\ shown' = shown
  /\ \A q \in Runs \ {w} :
       /\ pc'[q] = pc[q] /\ todo'[q] = todo[q] /\ doc'[q] = doc[q]
       /\ outcome'[q] = outcome[q] /\ began'[q] = began[q]

DocStep(w) ==
  \/ doc'[w] = doc[w] /\ (pc'[w] \in Read => pc[w] \in Read)
  \/ pc[w] = "all" /\ pc'[w] = "next" /\ doc'[w] = stored
  \/ /\ pc[w] = "fetch" /\ pc'[w] = "save" /\ todo[w] # <<>>
     /\ doc'[w] = [doc[w] EXCEPT ![Book(w)] = shown[Book(w)]]

StoredStep(w) ==
  \/ stored' = stored
  \/ /\ pc[w] = "save" /\ pc'[w] = "next" /\ todo[w] # <<>> /\ doc'[w] = doc[w]
     /\ stored' = [stored EXCEPT ![Book(w)] = doc[w][Book(w)]]

AloneStep(w) ==
  \/ pc[w] \in Running /\ alone' = alone /\ began'[w] = began[w]
  \/ /\ pc[w] = "idle" /\ pc'[w] = "all" /\ began'[w] = shown
     /\ alone'[w] => \A q \in Runs : pc[q] \notin Running
     /\ \A q \in Runs \ {w} : alone'[q] => alone[q] /\ pc[q] \notin Running

TodoStep(w) ==
  \/ /\ todo'[w] = todo[w] /\ outcome'[w] = outcome[w]
     /\ pc'[w] # "idle" /\ (pc[w] = "idle" <=> pc'[w] = "all")
     /\ pc[w] = "all" => pc'[w] = "dead"
     /\ pc[w] \notin {"done", "dead"}
     /\ pc'[w] = "done" => todo[w] = <<>>
     /\ pc'[w] = "fetch" => todo[w] # <<>> /\ SiteOf[Book(w)] # "OL"
     /\ pc'[w] = "save" => pc[w] = "fetch" /\ doc'[w][Book(w)] = shown[Book(w)]
  \/ /\ pc[w] = "all" /\ pc'[w] = "next"
     /\ todo'[w] = Order /\ outcome'[w] = outcome[w]
  \/ /\ pc[w] = "fetch" /\ pc'[w] = "save" /\ todo'[w] = todo[w] /\ todo[w] # <<>>
     /\ outcome'[w] = [outcome[w] EXCEPT ![Book(w)] = "unread"]
  \/ /\ pc[w] \in Read /\ pc'[w] = "next" /\ todo[w] # <<>> /\ todo'[w] = Tail(todo[w])
     /\ \E result \in {"saved", "unread", "failed"} :
          /\ outcome'[w] = [outcome[w] EXCEPT ![Book(w)] = result]
          /\ result = "saved" =>
               /\ pc[w] = "save" /\ outcome[w][Book(w)] # "unread"
               /\ stored'[Book(w)] = doc[w][Book(w)]

RunStep(w) ==
  OthersStay(w) /\ DocStep(w) /\ StoredStep(w) /\ AloneStep(w) /\ TodoStep(w)

LEMMA BookAtHand ==
  ASSUME TypeOK, NEW r \in Runs, todo[r] # <<>>
  PROVE  Book(r) \in Books /\ todo[r] \in Seq(Books) /\ Tail(todo[r]) \in Seq(Books)
  BY DEF TypeOK, Book

(* Every action of a run is such a step.                                   *)
LEMMA ActionsAreRunSteps ==
  ASSUME TypeOK, NEW w \in Runs, Start(w) \/ Update(w) \/ Fetch(w)
  PROVE  RunStep(w)
<1> USE DEF RunStep, OthersStay, DocStep, StoredStep, AloneStep, TodoStep, Running, Read, Goto, history
<1>1. CASE Start(w)
  BY <1>1 DEF Start, Under, TypeOK
<1>2. CASE ReadAll(w)
  BY <1>2 DEF ReadAll, TypeOK
<1>3. CASE ReadAllFails(w)
  BY <1>3 DEF ReadAllFails, TypeOK
<1>4. CASE NextBook(w)
  BY <1>4, BookAtHand DEF NextBook, TypeOK
<1>5. CASE NextIsOther(w)
  BY <1>5, BookAtHand DEF NextIsOther, Advance, TypeOK
<1>6. CASE Ends(w)
  BY <1>6 DEF Ends, TypeOK
<1>7. CASE Save(w)
  BY <1>7, BookAtHand DEF Save, Advance, TypeOK
<1>8. CASE SaveFails(w)
  BY <1>8, BookAtHand DEF SaveFails, Advance, TypeOK
<1>9. CASE FetchAnswers(w)
  BY <1>9, BookAtHand DEF FetchAnswers, TypeOK
<1>10. CASE FetchAnswersNaN(w)
  BY <1>10, BookAtHand DEF FetchAnswersNaN, TypeOK
<1>11. CASE FetchFails(w)
  BY <1>11, BookAtHand DEF FetchFails, Advance, TypeOK
<1> QED
  BY <1>1, <1>2, <1>3, <1>4, <1>5, <1>6, <1>7, <1>8, <1>9, <1>10, <1>11 DEF Update, Fetch

-----------------------------------------------------------------------------
LEMMA TypesKept ==
  ASSUME TypeOK, DocsWereShown, NEW w \in Runs, Start(w) \/ Update(w) \/ Fetch(w)
  PROVE  TypeOK'
<1>1. RunStep(w)
  BY ActionsAreRunSteps
<1>2. /\ todo[w] # <<>> => Book(w) \in Books /\ Tail(todo[w]) \in Seq(Books)
      /\ Order \in Seq(Books)
  BY BookAtHand, OrderAssumption
<1>3. /\ pc' \in [Runs -> {"idle", "done", "dead"} \union Running]
      /\ began' \in [Runs -> [Books -> Nat]]
      /\ alone' \in [Runs -> BOOLEAN]
      /\ restarts' = restarts
      /\ todo' \in [Runs -> Seq(Books)]
      /\ doc' \in [Runs -> [Books -> Nat]]
      /\ outcome' \in [Runs -> [Books -> {"untried", "saved", "unread", "failed"}]]
  <2> USE <1>2 DEF TypeOK, Goto, Running, history
  <2>1. CASE Start(w)
    BY <2>1 DEF Start
  <2>2. CASE ReadAll(w)
    BY <2>2 DEF ReadAll
  <2>3. CASE ReadAllFails(w)
    BY <2>3 DEF ReadAllFails
  <2>4. CASE NextBook(w)
    BY <2>4 DEF NextBook
  <2>5. CASE NextIsOther(w)
    BY <2>5 DEF NextIsOther, Advance
  <2>6. CASE Ends(w)
    BY <2>6 DEF Ends
  <2>7. CASE Save(w)
    BY <2>7 DEF Save, Advance
  <2>8. CASE SaveFails(w)
    BY <2>8 DEF SaveFails, Advance
  <2>9. CASE FetchAnswers(w)
    BY <2>9 DEF FetchAnswers
  <2>10. CASE FetchAnswersNaN(w)
    BY <2>10 DEF FetchAnswersNaN
  <2>11. CASE FetchFails(w)
    BY <2>11 DEF FetchFails, Advance
  <2> QED
    BY <2>1, <2>2, <2>3, <2>4, <2>5, <2>6, <2>7, <2>8, <2>9, <2>10, <2>11 DEF Update, Fetch
<1>4. stored' \in [Books -> Nat] /\ \A b \in Books : stored'[b] <= shown'[b]
  <2>1. todo[w] # <<>> => /\ doc[w][Book(w)] \in Nat
                          /\ doc[w][Book(w)] <= shown[Book(w)]
    BY <1>2 DEF TypeOK, DocsWereShown
  <2> QED
    BY <1>1, <1>2, <2>1 DEF RunStep, OthersStay, StoredStep, TypeOK
<1>5. ASSUME NEW r \in Runs, pc'[r] \in {"fetch", "save"}
      PROVE  todo'[r] # <<>> /\ SiteOf[Head(todo'[r])] # "OL"
  <2>1. pc[r] \in {"fetch", "save"} => todo[r] # <<>> /\ SiteOf[Head(todo[r])] # "OL"
    BY DEF TypeOK, Book
  <2> QED
    BY <1>1, <1>5, <2>1 DEF RunStep, OthersStay, TodoStep, Book
<1> QED
  BY <1>1, <1>3, <1>4, <1>5 DEF RunStep, OthersStay, TypeOK, Book

LEMMA DocsWereShownKept ==
  ASSUME TypeOK, DocsWereShown, NEW w \in Runs, RunStep(w)
  PROVE  DocsWereShown'
<1> SUFFICES ASSUME NEW r \in Runs, NEW b \in Books
             PROVE  doc'[r][b] <= shown'[b] /\ began'[r][b] <= shown'[b]
  BY DEF DocsWereShown
<1>1. /\ doc[r][b] <= shown[b] /\ began[r][b] <= shown[b] /\ stored[b] <= shown[b]
      /\ shown[b] \in Nat /\ DOMAIN doc[r] = Books
  BY DEF DocsWereShown, TypeOK
<1>2. CASE r # w
  BY <1>1, <1>2 DEF RunStep, OthersStay
<1>3. CASE r = w
  BY <1>1, <1>3 DEF RunStep, OthersStay, DocStep, AloneStep
<1> QED
  BY <1>2, <1>3

LEMMA AloneIsAloneKept ==
  ASSUME AloneIsAlone, NEW w \in Runs, RunStep(w)
  PROVE  AloneIsAlone'
<1> SUFFICES ASSUME NEW r \in Runs, NEW q \in Runs, r # q,
                    pc'[r] \in Running, pc'[q] \in Running
             PROVE  ~alone'[r]
  BY DEF AloneIsAlone
<1>1. CASE r # w /\ q # w
  BY <1>1 DEF RunStep, OthersStay, AloneStep, AloneIsAlone
<1>2. CASE r = w
  BY <1>2 DEF RunStep, OthersStay, AloneStep, AloneIsAlone
<1>3. CASE q = w
  BY <1>3 DEF RunStep, OthersStay, AloneStep, AloneIsAlone
<1> QED
  BY <1>1, <1>2, <1>3

(* While a run is alone, any step of a run is its own.                     *)
LEMMA AloneMovesItself ==
  ASSUME AloneIsAlone, NEW w \in Runs, RunStep(w), NEW r \in Runs, alone'[r], pc'[r] \in Running
  PROVE  r = w
  BY DEF RunStep, OthersStay, AloneStep, AloneIsAlone

LEMMA AloneIsAheadKept ==
  ASSUME TypeOK, DocsWereShown, AloneIsAlone, AloneIsAhead, NEW w \in Runs, RunStep(w)
  PROVE  AloneIsAhead'
<1> SUFFICES ASSUME NEW r \in Runs, NEW b \in Books, pc'[r] \in Read, alone'[r]
             PROVE  stored'[b] <= doc'[r][b]
  BY DEF AloneIsAhead
<1>1. r = w
  BY AloneMovesItself DEF Running, Read
<1>2. /\ stored[b] <= shown[b] /\ stored[b] \in Nat /\ doc[w][b] \in Nat
      /\ DOMAIN stored = Books /\ DOMAIN doc[w] = Books
      /\ (pc[w] \in Read /\ alone[w]) => stored[b] <= doc[w][b]
  BY DEF TypeOK, AloneIsAhead
<1>3. CASE pc[w] \in Read
  BY <1>1, <1>2, <1>3 DEF RunStep, AloneStep, StoredStep, DocStep, Read
<1>4. CASE pc[w] \notin Read
  BY <1>1, <1>2, <1>4 DEF RunStep, StoredStep, DocStep, Read
<1> QED
  BY <1>3, <1>4

LEMMA ReadIsFreshKept ==
  ASSUME TypeOK, DocsWereShown, ReadIsFresh, NEW w \in Runs, RunStep(w)
  PROVE  ReadIsFresh'
<1> SUFFICES ASSUME NEW r \in Runs, pc'[r] = "save", outcome'[r][Head(todo'[r])] # "unread"
             PROVE  began'[r][Head(todo'[r])] <= doc'[r][Head(todo'[r])]
  BY DEF ReadIsFresh, Book
<1>1. CASE r # w
  BY <1>1 DEF RunStep, OthersStay, ReadIsFresh, Book
<1>2. CASE r = w
  <2>1. pc[w] = "fetch" /\ todo[w] # <<>> /\ todo'[w] = todo[w] /\ began'[w] = began[w]
    BY <1>2 DEF RunStep, TodoStep, AloneStep, TypeOK
  <2>2. /\ Book(w) \in Books
        /\ DOMAIN outcome[w] = Books
        /\ began[w][Book(w)] <= shown[Book(w)]
    BY <2>1, BookAtHand DEF TypeOK, DocsWereShown
  <2>3. doc'[w][Book(w)] = shown[Book(w)]
    BY <1>2, <2>1, <2>2 DEF RunStep, TodoStep, Book
  <2> QED
    BY <1>2, <2>1, <2>2, <2>3 DEF Book
<1> QED
  BY <1>1, <1>2

LEMMA SavedIsFreshKept ==
  ASSUME Inv, NEW w \in Runs, RunStep(w)
  PROVE  SavedIsFresh'
<1> SUFFICES ASSUME NEW r \in Runs, NEW b \in Books, alone'[r], outcome'[r][b] = "saved",
                    pc'[r] \in Read \union {"done"}
             PROVE  /\ began'[r][b] <= stored'[b]
                    /\ \A q \in Runs : (q # r /\ pc'[q] \in Read) => began'[r][b] <= doc'[q][b]
  BY DEF SavedIsFresh
<1>1. /\ stored[b] \in Nat /\ shown[b] \in Nat /\ stored[b] <= shown[b]
      /\ \A q \in Runs : doc[q][b] \in Nat /\ began[q][b] \in Nat
      /\ DOMAIN stored = Books /\ DOMAIN doc[w] = Books /\ DOMAIN outcome[w] = Books
  BY DEF Inv, TypeOK
<1>2. CASE r = w
  <2>1. /\ pc[w] \in Read /\ alone[w] /\ began'[w] = began[w]
        /\ \A q \in Runs \ {w} : pc'[q] \notin Read
    BY <1>2 DEF Inv, RunStep, OthersStay, AloneStep, TodoStep, AloneIsAlone, UntriedIsAhead,
                UntriedOf, Running, Read
  <2>2. outcome[w][b] = "saved" => began[w][b] <= stored[b]
    BY <2>1 DEF Inv, SavedIsFresh
  <2>3. stored[b] <= doc[w][b]
    BY <2>1 DEF Inv, AloneIsAhead
  <2>4. stored[b] <= stored'[b]
    BY <1>1, <2>3 DEF RunStep, StoredStep
  <2>5. CASE outcome[w][b] = "saved"
    BY <1>1, <1>2, <2>1, <2>2, <2>4, <2>5 DEF RunStep, StoredStep
  <2>6. CASE outcome[w][b] # "saved"
    <3>1. /\ b = Book(w) /\ pc[w] = "save" /\ outcome[w][Book(w)] # "unread"
          /\ stored'[b] = doc[w][b]
      BY <1>1, <1>2, <2>1, <2>6 DEF RunStep, TodoStep
    <3>2. began[w][b] <= doc[w][b]
      BY <3>1 DEF Inv, ReadIsFresh
    <3> QED
      BY <1>2, <2>1, <3>1, <3>2
  <2> QED
    BY <2>5, <2>6
<1>3. CASE r # w
  <2>1. alone[r] /\ pc[r] = "done" /\ outcome[r][b] = "saved" /\ began'[r] = began[r]
    BY <1>3 DEF Inv, RunStep, OthersStay, AloneStep, AloneIsAlone, Running, Read
  <2>2. /\ began[r][b] <= stored[b] /\ began[r][b] <= shown[b]
        /\ \A q \in Runs : (q # r /\ pc[q] \in Read) => began[r][b] <= doc[q][b]
    BY <2>1 DEF Inv, SavedIsFresh, DocsWereShown
  <2>3. began[r][b] <= stored'[b]
    BY <1>1, <1>3, <2>2 DEF RunStep, StoredStep, Read
  <2>4. pc'[w] \in Read => began[r][b] <= doc'[w][b]
    BY <1>1, <1>3, <2>2 DEF RunStep, DocStep, Read
  <2> QED
    BY <2>1, <2>2, <2>3, <2>4 DEF RunStep, OthersStay
<1> QED
  BY <1>2, <1>3

LEMMA UntriedIsAheadKept ==
  ASSUME TypeOK, UntriedIsAhead, NEW w \in Runs, RunStep(w)
  PROVE  UntriedIsAhead'
<1> SUFFICES ASSUME NEW r \in Runs
             PROVE  UntriedOf(r)'
  BY DEF UntriedIsAhead
<1>1. UntriedOf(r)
  BY DEF UntriedIsAhead
<1>2. CASE r # w
  BY <1>1, <1>2 DEF RunStep, OthersStay, AloneStep, UntriedOf
<1>3. CASE r = w
  <2>1. /\ pc'[w] = "idle" => ~alone'[w]
        /\ pc'[w] \in {"idle", "all"} => \A b \in Books : outcome'[w][b] = "untried"
        /\ pc'[w] = "done" => todo'[w] = <<>>
    BY <1>1, <1>3 DEF RunStep, AloneStep, TodoStep, UntriedOf, Running, Read
  <2>2. ASSUME NEW b \in Books, pc'[w] \in Read \union {"done"}, outcome'[w][b] = "untried"
        PROVE  \E i \in 1 .. Len(todo'[w]) : todo'[w][i] = b
    <3>1. CASE todo'[w] = Order
      BY <3>1, OrderAssumption
    <3>2. CASE todo'[w] = todo[w] /\ pc[w] \in Read /\ outcome[w][b] = "untried"
      BY <1>1, <1>3, <3>2 DEF UntriedOf
    <3>3. CASE todo[w] # <<>> /\ todo'[w] = Tail(todo[w]) /\ pc[w] \in Read
               /\ outcome[w][b] = "untried" /\ b # Book(w)
      <4>1. PICK i \in 1 .. Len(todo[w]) : todo[w][i] = b
        BY <1>1, <1>3, <3>3 DEF UntriedOf
      <4>2. todo[w] \in Seq(Books)
        BY <3>3, BookAtHand
      <4>3. i - 1 \in 1 .. Len(Tail(todo[w])) /\ Tail(todo[w])[i - 1] = b
        BY <3>3, <4>1, <4>2 DEF Book
      <4> QED
        BY <3>3, <4>3
    <3>4. todo[w] # <<>> => Book(w) \in Books /\ DOMAIN outcome[w] = Books
      BY BookAtHand DEF TypeOK
    <3>5. pc[w] \in {"idle", "done", "dead", "all"} \union Read
      BY DEF TypeOK, Running, Read
    <3> QED
      BY <2>2, <3>1, <3>2, <3>3, <3>4, <3>5 DEF RunStep, TodoStep, Read
  <2> QED
    BY <1>3, <2>1, <2>2 DEF UntriedOf
<1> QED
  BY <1>2, <1>3
-----------------------------------------------------------------------------
LEMMA Initially == Init => Inv
  BY BoundsAssumption DEF Init, Inv, TypeOK, DocsWereShown, AloneIsAlone, AloneIsAhead,
     ReadIsFresh, SavedIsFresh, UntriedIsAhead, UntriedOf, Running, Read

LEMMA SiteEditsKeep ==
  ASSUME Inv, NEW b \in Books, SiteEdits(b)
  PROVE  Inv'
<1>1. shown' \in [Books -> Nat] /\ \A c \in Books : shown[c] <= shown'[c]
  BY DEF Inv, TypeOK, SiteEdits
<1>2. TypeOK'
  BY <1>1 DEF Inv, TypeOK, SiteEdits, history, Book
<1>3. DocsWereShown'
  BY <1>1 DEF Inv, TypeOK, DocsWereShown, SiteEdits, history
<1> QED
  BY <1>2, <1>3 DEF Inv, SiteEdits, history, AloneIsAlone, AloneIsAhead, ReadIsFresh, Book,
     SavedIsFresh, UntriedIsAhead, UntriedOf

LEMMA RestartKeeps ==
  ASSUME Inv, Restart
  PROVE  Inv'
<1>1. \A r \in Runs : pc'[r] = pc[r] \/ pc'[r] = "dead"
  BY DEF Inv, TypeOK, Restart
<1>2. TypeOK'
  BY <1>1, BoundsAssumption DEF Inv, TypeOK, Restart, history, Book, Running
<1> QED
  BY <1>1, <1>2 DEF Inv, Restart, history, DocsWereShown, AloneIsAlone, AloneIsAhead,
     ReadIsFresh, Book, SavedIsFresh, UntriedIsAhead, UntriedOf, Running, Read

THEOREM Invariance == Spec => []Inv
<1>1. ASSUME Inv, [Next]_vars
      PROVE  Inv'
  <2>1. ASSUME NEW w \in Runs, Start(w) \/ Update(w) \/ Fetch(w)
        PROVE  Inv'
    <3>1. RunStep(w)
      BY <1>1, <2>1, ActionsAreRunSteps DEF Inv
    <3>2. TypeOK'
      BY <1>1, <2>1, TypesKept DEF Inv
    <3> QED
      BY <1>1, <3>1, <3>2, DocsWereShownKept, AloneIsAloneKept, AloneIsAheadKept,
         ReadIsFreshKept, SavedIsFreshKept, UntriedIsAheadKept DEF Inv
  <2>2. ASSUME NEW b \in Books, SiteEdits(b)
        PROVE  Inv'
    BY <1>1, <2>2, SiteEditsKeep
  <2>3. CASE Restart
    BY <1>1, <2>3, RestartKeeps
  <2>4. CASE UNCHANGED vars
    BY <1>1, <2>4 DEF vars, Inv, TypeOK, DocsWereShown, AloneIsAlone, AloneIsAhead,
       ReadIsFresh, Book, SavedIsFresh, UntriedIsAhead, UntriedOf
  <2> QED
    BY <1>1, <2>1, <2>2, <2>3, <2>4 DEF Next
<1> QED
  BY Initially, <1>1, PTL DEF Spec

(* The variables keep their types, and nothing is stored that its page     *)
(* never showed.                                                           *)
THEOREM TypeCorrect == Spec => []TypeOK
  BY Invariance, PTL DEF Inv

(* However the pages and the database fail, a run that comes to its end    *)
(* has come to every book; and if no other overlapped it, the books it     *)
(* could read and write are as fresh as it found the sites.                *)
THEOREM RunsAreComplete == Spec => []RunsRefresh
<1>1. Inv => LoneRunRefreshes
  BY DEF Inv, SavedIsFresh, LoneRunRefreshes
<1>2. Inv => EveryBookIsTried
  BY DEF Inv, UntriedIsAhead, UntriedOf, EveryBookIsTried
<1>3. Inv => RunsRefresh
  BY <1>1, <1>2 DEF RunsRefresh
<1> QED
  BY Invariance, <1>3, PTL

(* A number of pages goes back to an older one only by the write of a run  *)
(* that another run overlapped.                                            *)
THEOREM UpdatesAreKept == Spec => OnlyOverlapsLoseUpdates
<1>1. ASSUME Inv, [Next]_vars, NEW b \in Books, stored'[b] < stored[b]
      PROVE  \E r \in Runs : pc[r] = "save" /\ Book(r) = b /\ ~alone[r]
  <2>1. stored[b] \in Nat
    BY <1>1 DEF Inv, TypeOK
  <2>2. stored' # stored
    BY <1>1, <2>1
  <2>3. PICK w \in Runs : Start(w) \/ Update(w) \/ Fetch(w)
    BY <1>1, <2>2 DEF Next, vars, SiteEdits, Restart
  <2>4. /\ pc[w] = "save" /\ todo[w] # <<>>
        /\ stored' = [stored EXCEPT ![Book(w)] = doc[w][Book(w)]]
    BY <1>1, <2>2, <2>3, ActionsAreRunSteps DEF Inv, RunStep, StoredStep
  <2>5. Book(w) = b
    BY <1>1, <2>1, <2>4 DEF Inv, TypeOK
  <2>6. doc[w][b] \in Nat /\ doc[w][b] < stored[b]
    BY <1>1, <2>4, <2>5 DEF Inv, TypeOK
  <2>7. ~alone[w]
    BY <1>1, <2>1, <2>4, <2>6 DEF Inv, AloneIsAhead, Read
  <2> QED
    BY <2>4, <2>5, <2>7
<1>2. Inv /\ [Next]_vars =>
        [ \A b \in Books :
            stored'[b] < stored[b] => \E r \in Runs : pc[r] = "save" /\ Book(r) = b /\ ~alone[r] ]_vars
  BY <1>1
<1> QED
  BY Invariance, <1>2, PTL DEF Spec, OnlyOverlapsLoseUpdates

-----------------------------------------------------------------------------
(* BookInfo: what a page is answered as.                                   *)

\* The first k rows.
Listed(rows, k) == {i \in DOMAIN rows : k # NaN /\ i <= k}

\* A sequence is a function of its positions.
LEMMA SeqIsFunction ==
  ASSUME NEW S, NEW s \in Seq(S)
  PROVE  /\ Len(s) \in Nat /\ DOMAIN s = 1 .. Len(s)
         /\ s = [i \in 1 .. Len(s) |-> s[i]]
         /\ \A i \in 1 .. Len(s) : s[i] \in S
BY LenProperties

\* A list that is parsed holds the first k rows, each with the link cut short,
LEMMA SearchPageRead ==
  ASSUME NEW site \in Sites, NEW rows, NEW k
  PROVE  LET list == parseSearchPage(site, rows, k) IN
         /\ DOMAIN list = Listed(rows, k)
         /\ \A i \in Listed(rows, k) :
              /\ list[i].title = rows[i].title.text
              /\ list[i].url = <<site, rows[i].title.href[1]>>
<1>1. CASE site = "GR"
  BY <1>1 DEF parseSearchPage, Listed, GR!parseSearchPage, GR!FirstOf, GR!parseSearchResult,
              GR!extractUrl, GR!Href
<1>2. CASE site = "SG"
  BY <1>2 DEF parseSearchPage, Listed, SG!parseSearchPage, SG!FirstOf, SG!parseSearchResult,
              SG!extractUrl, SG!Href
<1> QED BY <1>1, <1>2 DEF Sites

\* and it is not parsed exactly when one of those rows lacks a link.
LEMMA SearchPageFails ==
  ASSUME req.site \in Sites, NEW rows, NEW k
  PROVE  ~SearchPageParses(req.site, rows, k) <=> \E i \in Listed(rows, k) : Broken(rows[i])
<1>1. CASE req.site = "GR"
  <2>1. \A row : Broken(row) <=> ~GR!Parses(row)
    BY <1>1 DEF Broken, LinksOf, ToSet, GR!Parses, GR!HasHref, GR!AllHaveHrefs
  <2> QED BY <1>1, <2>1 DEF SearchPageParses, GR!SearchPageParses, GR!FirstOf, Listed
<1>2. CASE req.site = "SG"
  <2>1. \A row : Broken(row) <=> ~SG!Parses(row)
    BY <1>2 DEF Broken, LinksOf, ToSet, SG!Parses, SG!HasHref, SG!AllHaveHrefs, SG!AuthorLinks, SG!Last, Last
  <2> QED BY <1>2, <2>1 DEF SearchPageParses, SG!SearchPageParses, SG!FirstOf, Listed
<1> QED BY <1>1, <1>2 DEF Sites

\* A number is read whole while its commas are removed.
LEMMA NumberRead ==
  ASSUME NEW number \in Seq(Nat)
  PROVE  /\ ReadAs(GR!parseInt(number), number, 0)
         /\ ReadAs(SG!parseInt(number), number, 0)
         /\ ReadAs(GR!parseInt(GR!RemoveComma(number)), number, 1)
<1>1. CASE number = <<>>
  BY <1>1 DEF ReadAs, GR!parseInt, SG!parseInt, GR!RemoveComma
<1>2. CASE number # <<>> /\ Len(number) < 2
  BY <1>2 DEF ReadAs, GR!parseInt, SG!parseInt, GR!RemoveComma, Last
<1>3. CASE number # <<>> /\ Len(number) >= 2
  <2>1. Tail(number) \in Seq(Nat) /\ Len(Tail(number)) = Len(number) - 1
    BY <1>3, HeadTailProperties
  <2>2. Len(number) \in Nat /\ Len(<<>>) = 0
    BY EmptySeq, LenProperties
  <2>3. 1 \in 1 .. Len(Tail(number)) /\ Len(Tail(number)) # 0
    BY <1>3, <2>1, <2>2
  <2>4. Tail(number) # <<>>
    BY <2>2, <2>3, Zenon
  <2>5. Tail(number)[1] = number[2]
    BY <1>3, <2>3, HeadTailProperties
  <2> QED BY <1>3, <2>3, <2>4, <2>5 DEF ReadAs, GR!parseInt, SG!parseInt, GR!RemoveComma, Last
<1> QED BY <1>1, <1>2, <1>3

\* A percentage stays with its mood.
LEMMA MoodsRead ==
  ASSUME NEW spans \in Seq(STRING), NEW i \in DOMAIN spans, i % 2 = 0
  PROVE  <<spans[i - 1], spans[i]>> \in ToSet(SG!extractTupleFields(spans))
<1> DEFINE fields == SG!extractTupleFields(spans)
<1> DEFINE pairs == Len(spans) \div 2
           size == IF Len(spans) % 2 = 1 /\ SG!Last(spans) # NoText THEN pairs + 1 ELSE pairs
<1>1. Len(spans) \in Nat /\ i \in 1 .. Len(spans)
  OBVIOUS
<1>2. i \div 2 \in 1 .. pairs /\ 2 * (i \div 2) = i /\ pairs \in Nat
  BY <1>1
<1>3. i \div 2 \in 1 .. size
  <2>1. size \in {pairs, pairs + 1}
    OBVIOUS
  <2> HIDE DEF size, pairs
  <2> QED BY <1>2, <2>1
<1>4. fields = [m \in 1 .. size |->
                  IF m <= pairs THEN <<spans[2 * m - 1], spans[2 * m]>> ELSE <<SG!Last(spans)>>]
  BY DEF SG!extractTupleFields
<1> HIDE DEF fields, size
<1>5. i \div 2 \in DOMAIN fields /\ fields[i \div 2] = <<spans[i - 1], spans[i]>>
  BY <1>2, <1>3, <1>4
<1> QED BY <1>5 DEF ToSet, fields

\* The parser counts with the Cardinality that FiniteSetTheorems is about.
LEMMA SameCardinality == ASSUME NEW S PROVE SG!Cardinality(S) = Cardinality(S)
BY DEF SG!Cardinality, Cardinality

\* When the questions with an answer come first, the i-th answer shown is that
\* of the i-th question.
LEMMA AnswersRead ==
  ASSUME NEW asked \in Seq([question : STRING, answer : STRING]),
         AnsweredFirst(asked)
  PROVE  SG!extractQuesAndAns(asked) = asked
<1> DEFINE answered == SG!Answered(asked)
<1>0. /\ Len(asked) \in Nat
      /\ DOMAIN asked = 1 .. Len(asked)
      /\ asked = [i \in 1 .. Len(asked) |-> asked[i]]
      /\ \A i \in 1 .. Len(asked) : asked[i] \in [question : STRING, answer : STRING]
  BY SeqIsFunction
<1>1. ASSUME NEW j \in answered PROVE SG!Cardinality(answered \intersect 1 .. j) = j
  <2>1. j \in 1 .. Len(asked) /\ asked[j].answer # NoText
    BY <1>0 DEF SG!Answered
  <2>2. j \in Nat \ {0}
    BY <1>0, <2>1
  <2>3. ASSUME NEW i \in 1 .. j PROVE i \in answered
    <3>1. i \in DOMAIN asked /\ j \in DOMAIN asked /\ (i < j \/ i = j)
      BY <1>0, <2>1, <2>2
    <3>2. asked[i].answer # NoText
      BY <2>1, <3>1 DEF AnsweredFirst
    <3> QED BY <3>1, <3>2 DEF SG!Answered
  <2> HIDE DEF answered
  <2>4. answered \intersect 1 .. j = 1 .. j
    BY <2>3
  <2>5. Cardinality(1 .. j) = j
    BY <2>2, FS_Interval
  <2> QED BY <2>4, <2>5, SameCardinality
<1>2. ASSUME NEW i \in DOMAIN asked PROVE SG!AnswerAt(asked, i) = asked[i].answer
  <2>1. SG!AnsweredAs(asked, i) = IF i \in answered THEN {i} ELSE {}
    BY <1>1 DEF SG!AnsweredAs
  <2>2. CASE i \in answered
    BY <2>1, <2>2 DEF SG!AnswerAt
  <2>3. CASE i \notin answered
    BY <2>1, <2>3 DEF SG!AnswerAt, SG!Answered
  <2> QED BY <2>2, <2>3
<1>3. \A i \in DOMAIN asked : asked[i] = [question |-> asked[i].question, answer |-> asked[i].answer]
  BY <1>0
<1>4. \A i \in DOMAIN asked : asked[i] = SG!extractQuesAndAns(asked)[i]
  BY <1>2, <1>3 DEF SG!extractQuesAndAns
<1>5. SG!extractQuesAndAns(asked) = [i \in 1 .. Len(asked) |-> SG!extractQuesAndAns(asked)[i]]
  BY <1>0 DEF SG!extractQuesAndAns
<1> HIDE DEF answered
<1> QED BY <1>0, <1>4, <1>5

\* A book is parsed as its page shows it.
LEMMA BookPageRead ==
  ASSUME NEW site \in Sites, NEW url, NEW page \in BookPages[site]
  PROVE  /\ parseBookPage(site, url, page).url = url
         /\ Shows(site, page, parseBookPage(site, url, page))
<1> DEFINE book == parseBookPage(site, url, page)
<1>1. CASE site = "GR"
  <2>1. page.pages \in Seq(Nat) /\ page.ratings \in Seq(Nat) /\ page.reviews \in Seq(Nat)
    BY <1>1, PagesAssumption DEF GR!Pages, GR!Numbers
  <2>2. /\ book.title = page.title /\ book.url = url
        /\ book.authors = GR!extractAuthors(page.authors)
        /\ book.numPages = GR!parseInt(page.pages)
        /\ book.numRatings = GR!parseInt(GR!RemoveComma(page.ratings))
        /\ book.numReviews = GR!parseInt(GR!RemoveComma(page.reviews))
    BY <1>1 DEF parseBookPage, GR!parseBookPage, GR!extractPages, GR!extractBookMetaInfo
  <2>3. Names(book.authors) = Texts(page.authors)
    BY <2>2 DEF Names, Texts, GR!extractAuthors
  <2> HIDE DEF book
  <2>4. Shows(site, page, book)
    BY <1>1, <2>1, <2>2, <2>3, NumberRead DEF Shows
  <2> QED BY <2>2, <2>4 DEF book
<1>2. CASE site = "SG"
  <2>1. /\ page.pages \in Seq(Nat) /\ page.moods \in Seq(STRING)
        /\ page.questions \in Seq([question : STRING, answer : STRING])
    BY <1>2, PagesAssumption DEF SG!Pages, SG!Numbers
  <2>2. /\ book.title = page.title /\ book.url = url
        /\ book.series = SG!extractSeries(page)
        /\ book.authors = SG!extractAuthors(SG!AuthorLinks(page.block))
        /\ book.moods = SG!extractTupleFields(page.moods)
        /\ book.quesAns = SG!extractQuesAndAns(page.questions)
        /\ book.numPages = SG!parseInt(page.pages)
    BY <1>2 DEF parseBookPage, SG!parseBookPage
  <2>3. page.block # <<>> => Names(book.authors) = Texts(Last(page.block).links)
    BY <2>2 DEF Names, Texts, SG!extractAuthors, SG!AuthorLinks, SG!Last, Last
  <2>4. /\ Len(page.block) = 1 => book.series = NoText
        /\ Len(page.block) = 2 => book.series = page.block[1].text
    <3>1. Len(page.block) \in Nat
      BY <1>2, PagesAssumption, LenProperties DEF SG!Pages, SG!Blocks
    <3>2. /\ Len(page.block) = 1 => 2 * Len(page.block) # 4
          /\ Len(page.block) = 2 => 2 * Len(page.block) = 4
      <4>1. \A n \in Nat : (n = 1 => 2 * n # 4) /\ (n = 2 => 2 * n = 4)
        OBVIOUS
      <4> QED BY <3>1, <4>1
    <3> QED BY <2>2, <3>2 DEF SG!extractSeries
  <2>5. \A i \in DOMAIN page.moods :
          i % 2 = 0 => <<page.moods[i - 1], page.moods[i]>> \in ToSet(book.moods)
    BY <2>1, <2>2, MoodsRead
  <2>6. AnsweredFirst(page.questions) => book.quesAns = page.questions
    BY <2>1, <2>2, AnswersRead
  <2>7. ReadAs(book.numPages, page.pages, 0)
    BY <2>1, <2>2, NumberRead
  <2> HIDE DEF book
  <2>8. Shows(site, page, book)
    BY <1>2, <2>2, <2>3, <2>4, <2>5, <2>6, <2>7 DEF Shows
  <2> QED BY <2>2, <2>8 DEF book
<1> QED BY <1>1, <1>2 DEF Sites

\* The search page that led a handler to wait for the page of its first book.
Found(page) ==
  /\ page \in SearchPages[req.site] /\ 1 \in DOMAIN page
  /\ fetched = <<[url |-> <<req.site, "search">>, page |-> page]>>

Claims == SearchIsPrefix /\ PageOfFirstMatch /\ BookAsShown

\* No page is there before one is waited for; a handler that waits for a book
\* has the search page that lists it first; and what is answered is right.
InfoIInv ==
  /\ InfoTypeOK
  /\ at \in {"arrived", "search", "quotes"} => fetched = <<>>
  /\ at = "search" => req.op \in {"search", "book"}
  /\ at = "quotes" => req.op = "quotes"
  /\ at = "book" => req.op = "book" /\ \E page : Found(page)
  /\ Claims

\* The invariant holds when a request arrives.
LEMMA InfoInitOK == InfoInit => InfoIInv
BY DEF InfoInit, InfoIInv, Claims, InfoTypeOK, None, SearchIsPrefix, PageOfFirstMatch, BookAsShown

\* A step of the connection alone.
LEMMA ConnectionOK ==
  ASSUME InfoIInv, UNCHANGED <<req, at, fetched, reply>>,
         res' \in {"open", "closed", "gone"}, server' \in {server, "closed"},
         server' # "none" => server # "none"
  PROVE  InfoIInv'
<1>1. InfoTypeOK'
  BY DEF InfoIInv, Claims, InfoTypeOK
<1>2. Claims' = Claims
  BY DEF Claims, SearchIsPrefix, PageOfFirstMatch, BookAsShown, RowsAsked, Broken, LinksOf
<1>3. \A page : Found(page)' = Found(page)
  BY DEF Found
<1> QED BY <1>1, <1>2, <1>3 DEF InfoIInv, Claims

\* The handler runs to its first await.
LEMMA HandleOK == ASSUME InfoIInv, Handle PROVE InfoIInv'
<1>1. at = "arrived" /\ fetched = <<>> /\ UNCHANGED <<req, fetched, res>> /\ req \in Requests
  BY DEF Handle, InfoIInv, Claims, InfoTypeOK
<1>2. server' \in {"none", "open", "closed"} /\ (server' # "none" => req.door = "mcp")
  BY DEF Handle, buildServer, InfoIInv, Claims, InfoTypeOK
<1>3. CASE req.op = "stream"
  <2>1. at' = "done" /\ reply' = Error("notAllowed")
    BY <1>3 DEF Handle, Answer, SchemaRefuses
  <2> QED BY <1>1, <1>2, <1>3, <2>1
          DEF InfoIInv, Claims, InfoTypeOK, None, Error, SearchIsPrefix, PageOfFirstMatch, BookAsShown
<1>4. CASE req.op # "stream" /\ SchemaRefuses(req)
  <2>1. at' = "done" /\ reply' = Error("refused") /\ req.op = "search"
    BY <1>4 DEF Handle, Answer, SchemaRefuses
  <2> QED BY <1>1, <1>2, <1>4, <2>1
          DEF InfoIInv, Claims, InfoTypeOK, None, Error, SearchIsPrefix, PageOfFirstMatch, BookAsShown
<1>5. CASE req.op = "quotes" /\ ~SchemaRefuses(req)
  <2>1. at' = "quotes" /\ reply' = reply
    BY <1>5 DEF Handle, WaitFor
  <2> QED BY <1>1, <1>2, <1>5, <2>1
          DEF InfoIInv, Claims, InfoTypeOK, Waiting, SearchIsPrefix, PageOfFirstMatch, BookAsShown
<1>6. CASE req.op \in {"search", "book"} /\ ~SchemaRefuses(req)
  <2>1. at' = "search" /\ reply' = reply
    BY <1>6 DEF Handle, WaitFor
  <2> QED BY <1>1, <1>2, <1>6, <2>1
          DEF InfoIInv, Claims, InfoTypeOK, Waiting, SearchIsPrefix, PageOfFirstMatch, BookAsShown
<1>7. req.op \in {"search", "book", "quotes", "stream"}
  BY <1>1 DEF Requests
<1> QED BY <1>3, <1>4, <1>5, <1>6, <1>7

\* An error that is no answer of a parser.
LEMMA FailureOK ==
  ASSUME InfoIInv, Answer(Error("internal")), UNCHANGED <<req, fetched, res>>,
         at \in {"arrived"} \union Waiting,
         server' \in {"none", "open", "closed"}, server' # "none" => req.door = "mcp"
  PROVE  InfoIInv'
<1>1. at' = "done" /\ reply' = Error("internal")
  BY DEF Answer
<1>2. InfoTypeOK'
  BY <1>1 DEF InfoIInv, Claims, InfoTypeOK, None, Error
<1>3. req.op = "search" => fetched = <<>>
  BY DEF InfoIInv, Claims, Waiting
<1>4. SearchIsPrefix'
  BY <1>3 DEF SearchIsPrefix
<1>5. BookAsShown'
  BY <1>1 DEF BookAsShown, Error
<1>6. PageOfFirstMatch'
  <2>1. fetched = <<>> \/ \E page : Found(page)
    BY DEF InfoIInv, Claims, Waiting
  <2>2. Len(fetched) # 2
    BY <2>1 DEF Found
  <2> QED BY <1>1, <2>2 DEF PageOfFirstMatch, Error
<1> QED BY <1>1, <1>2, <1>4, <1>5, <1>6 DEF InfoIInv, Claims

\* The search page is there: it is no list, an empty one, the answer, or it has
\* a first book whose url is taken or not.
LEMMA SearchAnswersOK ==
  ASSUME InfoIInv, NEW page \in SearchPages[req.site], SearchAnswers(page)
  PROVE  InfoIInv'
<1> DEFINE bookList == parseSearchPage(req.site, page, Limit(req))
           answered == <<[url |-> <<req.site, "search">>, page |-> page]>>
           Asked == Listed(page, Limit(req))
<1>1. /\ at = "search" /\ req \in Requests /\ req.site \in Sites /\ reply = None
      /\ req.op \in {"search", "book"}
      /\ UNCHANGED <<req, res, server>>
  BY DEF SearchAnswers, InfoIInv, Claims, InfoTypeOK, Requests
<1>2. fetched' = answered
  BY <1>1 DEF SearchAnswers, InfoIInv, Claims
<1>3. /\ DOMAIN bookList = Asked
      /\ \A i \in Asked :
           /\ bookList[i].title = page[i].title.text
           /\ bookList[i].url = <<req.site, page[i].title.href[1]>>
  BY <1>1, SearchPageRead
<1>4. ~SearchPageParses(req.site, page, Limit(req)) <=> \E i \in Asked : Broken(page[i])
  BY <1>1, SearchPageFails
<1>5. page \in Seq(GR!Rows) \union Seq(SG!Rows)
  BY <1>1, PagesAssumption DEF Sites
<1>6. req.op = "book" /\ Asked = {} => page = <<>>
  <2>1. req.op = "book" => Limit(req) = 1 /\ 1 # NaN
    BY NumbersAssumption DEF Limit
  <2>2. Len(page) \in Nat /\ DOMAIN page = 1 .. Len(page)
    BY <1>5, LenProperties
  <2>3. page # <<>> => Len(page) # 0
    BY <1>5, EmptySeq
  <2>4. Len(page) # 0 => 1 \in DOMAIN page
    BY <2>2
  <2> QED BY <2>1, <2>3, <2>4 DEF Listed
<1>7. req.op = "book" /\ Asked # {} => 1 \in DOMAIN page /\ 1 \in Asked
  <2>1. req.op = "book" => Limit(req) = 1 /\ 1 # NaN
    BY NumbersAssumption DEF Limit
  <2>2. Len(page) \in Nat /\ DOMAIN page = 1 .. Len(page)
    BY <1>5, LenProperties
  <2> QED BY <2>1, <2>2 DEF Listed
<1>8. RowsAsked' = Asked /\ fetched'[1].page = page /\ (\A row : Broken(row)' <=> Broken(row))
  BY <1>1, <1>2 DEF RowsAsked, Broken, LinksOf, Listed
<1> HIDE DEF bookList, Asked
<1>9. CASE at' = "done" /\ reply' = Error("internal") /\ \E i \in Asked : Broken(page[i])
  <2>1. SearchIsPrefix'
    BY <1>8, <1>9 DEF SearchIsPrefix, Error
  <2>2. PageOfFirstMatch'
    BY <1>2, <1>9 DEF PageOfFirstMatch, Error
  <2> QED BY <1>1, <1>2, <1>9, <2>1, <2>2 DEF InfoIInv, Claims, InfoTypeOK, None, Error, BookAsShown
<1>10. CASE /\ at' = "done" /\ reply' = Error("notFound") /\ Asked = {}
  <2>1. SearchIsPrefix'
    BY <1>8, <1>10 DEF SearchIsPrefix, Error
  <2>2. PageOfFirstMatch'
    BY <1>1, <1>2, <1>6, <1>8, <1>10 DEF PageOfFirstMatch, Error
  <2> QED BY <1>1, <1>2, <1>10, <2>1, <2>2 DEF InfoIInv, Claims, InfoTypeOK, None, Error, BookAsShown
<1>11. CASE /\ at' = "done" /\ reply' = Ok(bookList) /\ req.op # "book"
            /\ ~\E i \in Asked : Broken(page[i])
  <2>1. SearchIsPrefix'
    BY <1>1, <1>3, <1>8, <1>11 DEF SearchIsPrefix, Ok
  <2> QED BY <1>1, <1>2, <1>11, <2>1
          DEF InfoIInv, Claims, InfoTypeOK, None, Ok, PageOfFirstMatch, BookAsShown
<1>12. CASE at' = "book" /\ reply' = reply /\ req.op = "book" /\ Asked # {}
  <2>1. Found(page)'
    BY <1>1, <1>2, <1>7, <1>12 DEF Found
  <2> QED BY <1>1, <1>2, <1>12, <2>1
          DEF InfoIInv, Claims, InfoTypeOK, Waiting, SearchIsPrefix, PageOfFirstMatch, BookAsShown
<1>13. CASE at' = "done" /\ reply' = Error("badRequest") /\ req.op = "book"
  BY <1>1, <1>2, <1>13
     DEF InfoIInv, Claims, InfoTypeOK, None, Error, SearchIsPrefix, PageOfFirstMatch, BookAsShown
<1> QED BY <1>1, <1>3, <1>4, <1>9, <1>10, <1>11, <1>12, <1>13
        DEF SearchAnswers, Answer, WaitFor, bookList

\* The page of the book is there.
LEMMA BookAnswersOK ==
  ASSUME InfoIInv, NEW page \in BookPages[req.site], BookAnswers(page)
  PROVE  InfoIInv'
<1> DEFINE book == parseBookPage(req.site, FirstUrl, page)
<1>1. /\ at = "book" /\ req \in Requests /\ req.site \in Sites /\ req.op = "book"
      /\ UNCHANGED <<req, res, server>>
  BY DEF BookAnswers, InfoIInv, Claims, InfoTypeOK, Requests
<1>2. PICK first : Found(first)
  BY <1>1 DEF InfoIInv, Claims
<1>3. /\ Len(fetched') = 2 /\ fetched'[1] = fetched[1]
      /\ fetched'[2] = [url |-> FirstUrl, page |-> page]
  <2> DEFINE new == [url |-> FirstUrl, page |-> page]
  <2>1. fetched = <<fetched[1]>>
    BY <1>2 DEF Found
  <2>2. fetched' = Append(fetched, new)
    BY DEF BookAnswers
  <2> HIDE DEF new
  <2>3. ASSUME NEW x PROVE LET s == Append(<<x>>, new) IN Len(s) = 2 /\ s[1] = x /\ s[2] = new
    OBVIOUS
  <2>4. fetched' = Append(<<fetched[1]>>, new)
    BY <2>1, <2>2, Zenon
  <2>5. Len(fetched') = 2 /\ fetched'[1] = fetched[1] /\ fetched'[2] = new
    BY <2>3, <2>4
  <2> QED BY <2>5 DEF new
<1>4. FirstUrl = <<req.site, first[1].title.href[1]>>
  <2>1. Limit(req) = 1 /\ 1 # NaN
    BY <1>1, NumbersAssumption DEF Limit
  <2>2. 1 \in Listed(first, Limit(req))
    BY <1>2, <2>1 DEF Listed, Found
  <2> QED BY <1>1, <1>2, <2>2, SearchPageRead DEF FirstUrl, Found
<1>5. book.url = FirstUrl /\ Shows(req.site, page, book)
  BY <1>1, BookPageRead
<1>6. book.title = page.title
  BY <1>5 DEF Shows
<1> HIDE DEF book
<1>7. /\ at' = "done"
      /\ \/ reply' \in {Error("internal"), Error("unavailable")}
         \/ reply' = Ok(book) /\ (page.title = NoText => req.site = "SG")
  BY <1>1, <1>6 DEF BookAnswers, Answer, book, Sites
<1>8. InfoTypeOK'
  BY <1>1, <1>3, <1>7 DEF InfoIInv, Claims, InfoTypeOK, None, Error, Ok
<1>9. PageOfFirstMatch'
  BY <1>1, <1>2, <1>3, <1>4, <1>5, <1>7 DEF PageOfFirstMatch, Error, Ok, Found
<1>10. BookAsShown'
  BY <1>1, <1>3, <1>5, <1>7 DEF BookAsShown, Error, Ok
<1>11. SearchIsPrefix'
  BY <1>1 DEF SearchIsPrefix
<1> QED BY <1>7, <1>8, <1>9, <1>10, <1>11 DEF InfoIInv, Claims

\* So is a page of quotes.
LEMMA QuotesAnswersOK ==
  ASSUME InfoIInv, NEW page, QuotesAnswers(page)
  PROVE  InfoIInv'
<1>1. /\ at = "quotes" /\ req.op = "quotes" /\ fetched = <<>> /\ UNCHANGED <<req, res, server>>
      /\ at' = "done" /\ reply' = Ok(GR!parseQuotesPage(page, Limit(req)))
  BY DEF QuotesAnswers, InfoIInv, Claims, Answer
<1>2. fetched' = <<[url |-> <<"GR", "quotes">>, page |-> page]>>
  BY <1>1 DEF QuotesAnswers
<1> QED BY <1>1, <1>2
        DEF InfoIInv, Claims, InfoTypeOK, None, Ok, SearchIsPrefix, PageOfFirstMatch, BookAsShown

\* Every step keeps the invariant.
LEMMA InfoStepOK == InfoIInv /\ [InfoNext]_infoVars => InfoIInv'
<1> SUFFICES ASSUME InfoIInv, [InfoNext]_infoVars PROVE InfoIInv'
  OBVIOUS
<1>1. CASE TransportFails
  BY <1>1, FailureOK DEF TransportFails, buildServer, InfoIInv, Claims, InfoTypeOK
<1>2. CASE SiteFails
  BY <1>2, FailureOK DEF SiteFails, InfoIInv, Claims, InfoTypeOK
<1>3. CASE HangUp
  BY <1>3, ConnectionOK DEF HangUp, Close, InfoIInv, Claims, InfoTypeOK
<1>4. CASE ResponseEnds
  BY <1>4, ConnectionOK DEF ResponseEnds, Close, InfoIInv, Claims, InfoTypeOK
<1>5. CASE UNCHANGED infoVars
  BY <1>5, ConnectionOK DEF infoVars, InfoIInv, Claims, InfoTypeOK
<1> QED BY <1>1, <1>2, <1>3, <1>4, <1>5, HandleOK, SearchAnswersOK, BookAnswersOK, QuotesAnswersOK
        DEF InfoNext

\* InfoIInv always holds, whatever pages the sites send.
THEOREM InfoInvariance == InfoSpec => []InfoIInv
BY InfoInitOK, InfoStepOK, PTL DEF InfoSpec

\* The variables of BookInfo keep their types.
THEOREM InfoTypeCorrect == InfoSpec => []InfoTypeOK
<1>1. InfoIInv => InfoTypeOK
  BY DEF InfoIInv, Claims
<1> QED BY <1>1, InfoInvariance, PTL

\* A search answers with exactly the first k books of the page, for any page and
\* any k, and fails if and only if one of these has no link.
THEOREM SearchesAnswerPrefixes == InfoSpec => []SearchIsPrefix
<1>1. InfoIInv => SearchIsPrefix
  BY DEF InfoIInv, Claims
<1> QED BY <1>1, InfoInvariance, PTL

\* A request for one book is answered from the page of the first book the site
\* lists, for any pages.
THEOREM FirstMatchIsRead == InfoSpec => []PageOfFirstMatch
<1>1. InfoIInv => PageOfFirstMatch
  BY DEF InfoIInv, Claims
<1> QED BY <1>1, InfoInvariance, PTL

\* A book is answered as its page shows it, for any page of either site.
THEOREM BooksAreAsShown == InfoSpec => []BookAsShown
<1>1. InfoIInv => BookAsShown
  BY DEF InfoIInv, Claims
<1> QED BY <1>1, InfoInvariance, PTL
=============================================================================
