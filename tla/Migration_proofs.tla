-------------------------- MODULE Migration_proofs --------------------------
(***************************************************************************)
(* Proofs about Migration, for any old events, runs and bounds.            *)
(*                                                                         *)
(* An event is written whole because of what its run holds by then: the    *)
(* book of the event, and the users listed for it so far (RunOK).  What an *)
(* undisturbed run was told by a query still holds when it acts on it,     *)
(* since nobody else was there to change it (Calm): so it drops nothing    *)
(* but the events that lack a book.                                        *)
(***************************************************************************)
EXTENDS Migration, TLAPS

Early == {"off", "next", "book", "fetch", "checkBook", "insertBook"}
Asking == {"person", "checkPerson", "insertPerson"}
Writing == {"find", "update", "create", "reply"}
AtWork == {"book", "fetch", "checkBook", "insertBook"} \union Asking \union Writing

\* What run w has of the event it is at.
PeopleHeld(w) ==
  \A i \in 1 .. Len(people[w]) :
    people[w][i] \in users \union gone /\ people[w][i].userId = People[Doc(w)][i]

BookHeld(w) == book[w] \in books /\ book[w].page = Page[Doc(w)]

RunOK(w) ==
  /\ pc[w] = "off" => at[w] = 1 /\ moved[w] = {} /\ dropped[w] = {}
  /\ pc[w] \in AtWork => at[w] <= Len(list[w])
  /\ pc[w] \in AtWork \ {"book"} => Doc(w) \notin Broken
  /\ pc[w] \in Early => people[w] = <<>>
  /\ pc[w] \in Asking => Len(people[w]) < Len(People[Doc(w)])
  /\ pc[w] \in Writing => Len(people[w]) = Len(People[Doc(w)])
  /\ pc[w] \in Asking \union Writing => PeopleHeld(w) /\ BookHeld(w)

\* The events run w has passed are those it migrated or gave up on.
Accounted(w) ==
  \A d \in Docs :
    d \in moved[w] \union dropped[w]
      <=> \E i \in DOMAIN list[w] : i < at[w] /\ list[w][i] = d

\* What run w reported is stored, and so is what it is about to report.
MovedAreStored(w) ==
  deletes = 0 =>
    /\ \A d \in moved[w] : \E e \in events : e.id = d
    /\ pc[w] = "reply" => \E e \in events : e.id = Doc(w)

Calm(w) ==
  ~troubled[w] =>
    /\ dropped[w] \subseteq Broken
    /\ pc[w] = "done" => at[w] > Len(list[w])
    /\ w \in Active => \A v \in Active : v = w
    /\ pc[w] \in {"fetch", "checkBook", "insertBook"} => BooksOf(Page[Doc(w)]) = {}
    /\ pc[w] \in {"checkPerson", "insertPerson"} => UsersOf(Person(w)) = {}
    /\ pc[w] = "update" => Migrating(w) # {}
    /\ pc[w] = "create" => Migrating(w) = {}

IInv ==
  /\ TypeOK
  /\ EventsComplete
  /\ NoCopies
  /\ \A w \in Runs : RunOK(w) /\ Accounted(w) /\ MovedAreStored(w) /\ Calm(w)

-----------------------------------------------------------------------------
\* What the types say of one run.
LEMMA RunTypes ==
  ASSUME TypeOK, NEW w \in Runs
  PROVE  /\ pc[w] \in Points
         /\ list[w] \in Seq(Docs) /\ Len(list[w]) \in Nat
         /\ DOMAIN list[w] = 1 .. Len(list[w])
         /\ at[w] \in Nat /\ at[w] >= 1
         /\ people[w] \in Seq(Users) /\ Len(people[w]) \in Nat
         /\ moved[w] \subseteq Docs /\ dropped[w] \subseteq Docs
         /\ troubled[w] \in BOOLEAN
  BY DEF TypeOK

LEMMA DocTypes ==
  ASSUME TypeOK, NEW w \in Runs, at[w] <= Len(list[w])
  PROVE  /\ Doc(w) \in Docs /\ at[w] \in DOMAIN list[w]
         /\ Page[Doc(w)] \in Pages
         /\ People[Doc(w)] \in Seq(UserIds) /\ Len(People[Doc(w)]) \in Nat
<1>1. list[w] \in Seq(Docs) /\ at[w] \in Nat /\ at[w] >= 1
  BY RunTypes
<1>2. at[w] \in 1 .. Len(list[w]) /\ DOMAIN list[w] = 1 .. Len(list[w])
  BY <1>1
<1>3. Doc(w) \in Docs
  BY <1>1, <1>2 DEF Doc
<1> QED BY <1>2, <1>3, PageAssumption, PeopleAssumption

LEMMA PersonType ==
  ASSUME TypeOK, NEW w \in Runs, RunOK(w), pc[w] \in Asking
  PROVE  Person(w) \in UserIds /\ Len(people[w]) + 1 \in 1 .. Len(People[Doc(w)])
<1>1. at[w] <= Len(list[w]) /\ Len(people[w]) < Len(People[Doc(w)])
  BY DEF RunOK, AtWork
<1>2. People[Doc(w)] \in Seq(UserIds) /\ Len(People[Doc(w)]) \in Nat
  BY <1>1, DocTypes
<1>3. Len(people[w]) \in Nat
  BY RunTypes
<1>4. Len(people[w]) + 1 \in 1 .. Len(People[Doc(w)])
  BY <1>1, <1>2, <1>3
<1> QED BY <1>2, <1>4 DEF Person

\* A run that a step passes by, and collections that lose nothing a run
\* relies on.
Kept(v) ==
  /\ pc'[v] = pc[v] /\ list'[v] = list[v] /\ at'[v] = at[v]
  /\ book'[v] = book[v] /\ people'[v] = people[v]
  /\ moved'[v] = moved[v] /\ dropped'[v] = dropped[v]

Stays == books \subseteq books' /\ users \union gone \subseteq users' \union gone'

LEMMA KeptDoc ==
  ASSUME NEW v \in Runs, Kept(v)
  PROVE  Doc(v)' = Doc(v) /\ (Len(people[v]))' = Len(people[v])
  BY DEF Kept, Doc

LEMMA KeptRun ==
  ASSUME NEW v \in Runs, Kept(v), Stays, RunOK(v), Accounted(v)
  PROVE  RunOK(v)' /\ Accounted(v)'
<1>1. Doc(v)' = Doc(v) /\ (Len(people[v]))' = Len(people[v])
  BY KeptDoc
<1>2. PeopleHeld(v) => PeopleHeld(v)'
  BY <1>1 DEF PeopleHeld, Kept, Stays
<1>3. BookHeld(v) => BookHeld(v)'
  BY <1>1 DEF BookHeld, Kept, Stays
<1>4. RunOK(v)'
  BY <1>1, <1>2, <1>3 DEF RunOK, Kept
<1>5. Accounted(v)'
  BY DEF Accounted, Kept
<1> QED BY <1>4, <1>5

\* What a run that stands still was told need not hold any longer only when it
\* is not under way, or was disturbed.
LEMMA KeptCalm ==
  ASSUME TypeOK, NEW v \in Runs, Kept(v), Calm(v),
         troubled[v] => troubled'[v],
         v \in Active => troubled'[v]
  PROVE  Calm(v)'
<1>1. SUFFICES ASSUME ~troubled'[v] PROVE Calm(v)'
  BY DEF Calm
<1>2. v \notin Active /\ ~troubled[v]
  BY <1>1
<1>3. pc[v] \in {"off", "done"} /\ pc'[v] = pc[v]
  BY <1>2 DEF Active, Kept
<1>4. v \notin Active'
  BY <1>3 DEF Active
<1> QED BY <1>2, <1>3, <1>4 DEF Calm, Kept
-----------------------------------------------------------------------------
\* The types of what a step of a run changes besides the collections.
RunTypesOK ==
  /\ pc \in [Runs -> Points]
  /\ list \in [Runs -> Seq(Docs)]
  /\ at \in [Runs -> Nat \ {0}]
  /\ book \in [Runs -> Books \union {NoBook}]
  /\ people \in [Runs -> Seq(Users)]
  /\ moved \in [Runs -> SUBSET Docs]
  /\ dropped \in [Runs -> SUBSET Docs]
  /\ troubled \in [Runs -> BOOLEAN]

Only(w) == \A v \in Runs \ {w} : Kept(v)

\* What each step of run w does for the run itself.
StepOK(w) == RunTypesOK' /\ Only(w) /\ RunOK(w)' /\ Accounted(w)'

LEMMA Disturbs ==
  ASSUME TypeOK, NEW S, Disturb(S)
  PROVE  /\ troubled' \in [Runs -> BOOLEAN]
         /\ \A v \in Runs : troubled'[v] <=> (troubled[v] \/ v \in S)
<1>1. \A v \in Runs : troubled[v] \in BOOLEAN
  BY RunTypes
<1> QED BY <1>1 DEF Disturb

\* A step within an event, or from one to the next.
LEMMA Moves ==
  ASSUME TypeOK, NEW w \in Runs, NEW x \in Points, Goto(w, x),
         UNCHANGED <<list, at, moved, dropped>>
  PROVE  /\ pc' \in [Runs -> Points] /\ pc'[w] = x
         /\ \A v \in Runs \ {w} : pc'[v] = pc[v]
         /\ Doc(w)' = Doc(w)
         /\ Accounted(w) => Accounted(w)'
<1>1. pc \in [Runs -> Points]
  BY DEF TypeOK
<1> QED BY <1>1 DEF Goto, Doc, Accounted

LEMMA ToPerson ==
  ASSUME TypeOK, NEW w \in Runs, NEW q \in Seq(Users), at[w] <= Len(list[w]),
         Len(q) <= Len(People[Doc(w)]), NextPerson(w, q)
  PROVE  \/ Goto(w, "find") /\ Len(q) = Len(People[Doc(w)])
         \/ Goto(w, "person") /\ Len(q) < Len(People[Doc(w)])
<1>1. Len(q) \in Nat /\ Len(People[Doc(w)]) \in Nat
  BY DocTypes
<1> QED BY <1>1 DEF NextPerson

\* The end of an event, however it ends.
LEMMA Leaves ==
  ASSUME TypeOK, NEW w \in Runs, RunOK(w), Accounted(w), pc[w] \in AtWork,
         Migrated(w) \/ Drop(w),
         troubled' \in [Runs -> BOOLEAN]
  PROVE  /\ StepOK(w)
         /\ pc'[w] = "next" /\ at'[w] = at[w] + 1 /\ list' = list
<1>1. at[w] <= Len(list[w])
  BY DEF RunOK
<1>2. Doc(w) \in Docs /\ at[w] \in DOMAIN list[w] /\ list[w][at[w]] = Doc(w)
  BY <1>1, DocTypes DEF Doc
<1>3. at[w] \in Nat
  BY RunTypes
<1>4. Leave(w)
  BY DEF Migrated, Drop
<1>5. /\ moved \in [Runs -> SUBSET Docs] /\ dropped \in [Runs -> SUBSET Docs]
      /\ pc \in [Runs -> Points] /\ at \in [Runs -> Nat \ {0}]
      /\ list \in [Runs -> Seq(Docs)]
      /\ book \in [Runs -> Books \union {NoBook}]
      /\ people \in [Runs -> Seq(Users)]
  BY DEF TypeOK
<1>6. /\ pc' \in [Runs -> Points] /\ pc'[w] = "next"
      /\ \A v \in Runs \ {w} : pc'[v] = pc[v]
  BY <1>4, <1>5 DEF Leave, Goto, Points
<1>7. /\ at'[w] = at[w] + 1 /\ \A v \in Runs \ {w} : at'[v] = at[v]
      /\ at[w] + 1 \in Nat \ {0} /\ list' = list
  BY <1>3, <1>4, <1>5 DEF Leave
<1>8. at' \in [Runs -> Nat \ {0}]
  BY <1>4, <1>5, <1>7 DEF Leave
<1>9. /\ book' \in [Runs -> Books \union {NoBook}]
      /\ \A v \in Runs \ {w} : book'[v] = book[v]
  BY <1>4, <1>5 DEF Leave
<1>10. /\ people' \in [Runs -> Seq(Users)] /\ people'[w] = <<>>
       /\ \A v \in Runs \ {w} : people'[v] = people[v]
  <2>1. people' = [people EXCEPT ![w] = <<>>] /\ <<>> \in Seq(Users)
    BY <1>4 DEF Leave
  <2> QED BY <1>5, <2>1
<1>11. /\ moved' \in [Runs -> SUBSET Docs] /\ dropped' \in [Runs -> SUBSET Docs]
       /\ \A v \in Runs \ {w} : moved'[v] = moved[v] /\ dropped'[v] = dropped[v]
       /\ moved'[w] \union dropped'[w] = moved[w] \union dropped[w] \union {Doc(w)}
  <2>1. CASE /\ moved' = [moved EXCEPT ![w] = moved[w] \union {Doc(w)}]
             /\ dropped' = dropped
    BY <1>2, <1>5, <2>1
  <2>2. CASE /\ dropped' = [dropped EXCEPT ![w] = dropped[w] \union {Doc(w)}]
             /\ moved' = moved
    BY <1>2, <1>5, <2>2
  <2> QED BY <2>1, <2>2 DEF Migrated, Drop
<1>12. RunTypesOK'
  BY <1>5, <1>6, <1>7, <1>8, <1>9, <1>10, <1>11 DEF RunTypesOK
<1>13. Only(w)
  BY <1>6, <1>7, <1>9, <1>10, <1>11 DEF Only, Kept
<1>14. RunOK(w)'
  BY <1>6, <1>10 DEF RunOK, AtWork, Early, Asking, Writing
<1>15. Accounted(w)'
  <2>1. ASSUME NEW d \in Docs
        PROVE  d \in moved'[w] \union dropped'[w]
                 <=> \E i \in DOMAIN list'[w] : i < at'[w] /\ list'[w][i] = d
    <3>1. DOMAIN list[w] \subseteq Nat
      BY RunTypes
    <3>2. \A i \in DOMAIN list[w] : i < at[w] + 1 <=> (i < at[w] \/ i = at[w])
      BY <1>3, <3>1
    <3> QED BY <1>2, <1>7, <1>11, <3>2 DEF Accounted
  <2> QED BY <2>1 DEF Accounted
<1> QED BY <1>6, <1>7, <1>12, <1>13, <1>14, <1>15 DEF StepOK
-----------------------------------------------------------------------------
\* What a step within an event leaves to be shown of RunOK.
LEMMA GoesOnOK ==
  ASSUME TypeOK, NEW w \in Runs, RunOK(w), Accounted(w), pc[w] \in AtWork,
         NEW x \in AtWork \ {"book"}, Goto(w, x), GoesOn, Doc(w) \notin Broken,
         book' \in [Runs -> Books \union {NoBook}],
         people' \in [Runs -> Seq(Users)],
         \A v \in Runs \ {w} : book'[v] = book[v] /\ people'[v] = people[v],
         x \in Early => people'[w] = <<>>,
         x \in Asking => Len(people'[w]) < Len(People[Doc(w)]),
         x \in Writing => Len(people'[w]) = Len(People[Doc(w)]),
         x \in Asking \union Writing => PeopleHeld(w)' /\ BookHeld(w)'
  PROVE  StepOK(w) /\ pc'[w] = x /\ Doc(w)' = Doc(w)
<1>1. x \in Points
  BY DEF AtWork, Asking, Writing, Points
<1>2. UNCHANGED <<list, at, moved, dropped, troubled>>
  BY DEF GoesOn
<1>3. /\ pc' \in [Runs -> Points] /\ pc'[w] = x
      /\ \A v \in Runs \ {w} : pc'[v] = pc[v]
      /\ Doc(w)' = Doc(w) /\ Accounted(w)'
  BY <1>1, <1>2, Moves
<1>4. RunTypesOK'
  BY <1>2, <1>3 DEF TypeOK, RunTypesOK
<1>5. Only(w)
  BY <1>2, <1>3 DEF Only, Kept
<1>6. at[w] <= Len(list[w])
  BY DEF RunOK
<1>7. RunOK(w)'
  BY <1>2, <1>3, <1>6 DEF RunOK, AtWork, Asking, Writing
<1> QED BY <1>3, <1>4, <1>5, <1>7 DEF StepOK

\* A step that only changes where the run is, before the participants.
LEMMA EarlyStep ==
  ASSUME TypeOK, NEW w \in Runs, RunOK(w), Accounted(w), pc[w] \in AtWork \cap Early,
         NEW x \in {"fetch", "checkBook", "insertBook"}, Goto(w, x),
         Doc(w) \notin Broken, GoesOn, UNCHANGED <<book, people>>
  PROVE  StepOK(w) /\ pc'[w] = x /\ Doc(w)' = Doc(w)
<1>1. people'[w] = <<>>
  BY DEF RunOK
<1>2. x \in AtWork \ {"book"} /\ x \notin Asking /\ x \notin Writing /\ pc[w] \in AtWork
  BY DEF AtWork, Asking, Writing
<1>3. book' \in [Runs -> Books \union {NoBook}] /\ people' \in [Runs -> Seq(Users)]
  BY DEF TypeOK
<1> QED BY <1>1, <1>2, <1>3, GoesOnOK

LEMMA NextDocOK ==
  ASSUME TypeOK, NEW w \in Runs, RunOK(w), Accounted(w), NextDoc(w)
  PROVE  StepOK(w) /\ pc'[w] \in {"done", "book"}
<1>1. people[w] = <<>> /\ pc[w] = "next"
  BY DEF NextDoc, RunOK, Early
<1>2. UNCHANGED <<list, at, moved, dropped, troubled, book, people>>
  BY DEF NextDoc, GoesOn
<1>3. PICK x \in {"done", "book"} : Goto(w, x) /\ (x = "book" => at[w] <= Len(list[w]))
  BY DEF NextDoc
<1>4. x \in Points
  BY DEF Points
<1>5. /\ pc' \in [Runs -> Points] /\ pc'[w] = x
      /\ \A v \in Runs \ {w} : pc'[v] = pc[v]
      /\ Accounted(w)'
  BY <1>2, <1>3, <1>4, Moves
<1>6. RunTypesOK'
  BY <1>2, <1>5 DEF TypeOK, RunTypesOK
<1>7. Only(w)
  BY <1>2, <1>5 DEF Only, Kept
<1>8. RunOK(w)'
  BY <1>1, <1>2, <1>3, <1>5 DEF RunOK, AtWork, Asking, Writing, Early
<1> QED BY <1>5, <1>6, <1>7, <1>8 DEF StepOK

LEMMA CursorFailsOK ==
  ASSUME TypeOK, NEW w \in Runs, RunOK(w), Accounted(w), CursorFails(w)
  PROVE  StepOK(w) /\ troubled'[w]
<1>1. UNCHANGED <<list, at, moved, dropped, book, people>> /\ Goto(w, "done")
  BY DEF CursorFails
<1>2. troubled' \in [Runs -> BOOLEAN] /\ troubled'[w]
  BY Disturbs DEF CursorFails
<1>3. /\ pc' \in [Runs -> Points] /\ pc'[w] = "done"
      /\ \A v \in Runs \ {w} : pc'[v] = pc[v]
      /\ Accounted(w)'
  BY <1>1, Moves DEF Points
<1>4. RunTypesOK'
  BY <1>1, <1>2, <1>3 DEF TypeOK, RunTypesOK
<1>5. Only(w)
  BY <1>1, <1>3 DEF Only, Kept
<1>6. RunOK(w)'
  BY <1>1, <1>3 DEF RunOK, AtWork, Asking, Writing, Early
<1> QED BY <1>2, <1>3, <1>4, <1>5, <1>6 DEF StepOK
-----------------------------------------------------------------------------
\* The actions one by one: what they do to the run that takes them.

\* A run nobody else was there to disturb is still alone after its step.
LEMMA StillAlone ==
  ASSUME NEW w \in Runs, StepOK(w), w \in Active, Calm(w), ~troubled[w]
  PROVE  \A v \in Active' : v = w
  BY DEF StepOK, Only, Kept, Active, Calm

\* An event given up on for no fault of another run or of a service lacks a
\* book.
LEMMA LeavesCalm ==
  ASSUME TypeOK, NEW w \in Runs, RunOK(w), Accounted(w), Calm(w),
         pc[w] \in AtWork,
         \/ Migrated(w)
         \/ Drop(w) /\ (troubled[w] \/ troubled'[w] \/ Doc(w) \in Broken),
         troubled' \in [Runs -> BOOLEAN], troubled[w] => troubled'[w]
  PROVE  StepOK(w) /\ Calm(w)' /\ pc'[w] = "next"
<1>1. StepOK(w) /\ pc'[w] = "next"
  BY Leaves
<1>2. w \in Active
  BY DEF Active, AtWork, Asking, Writing
<1>3. ASSUME ~troubled'[w] PROVE dropped'[w] \subseteq Broken
  <2>1. ~troubled[w] /\ dropped[w] \subseteq Broken
    BY <1>3 DEF Calm
  <2>2. \/ dropped'[w] = dropped[w]
        \/ dropped'[w] = dropped[w] \union {Doc(w)} /\ Doc(w) \in Broken
    <3>1. CASE dropped' = dropped
      BY <3>1
    <3>2. CASE /\ dropped' = [dropped EXCEPT ![w] = dropped[w] \union {Doc(w)}]
               /\ Doc(w) \in Broken
      <4>1. dropped \in [Runs -> SUBSET Docs]
        BY DEF TypeOK
      <4> QED BY <3>2, <4>1
    <3> QED BY <1>3, <2>1, <3>1, <3>2 DEF Migrated, Drop
  <2> QED BY <2>1, <2>2
<1>4. Calm(w)'
  BY <1>1, <1>2, <1>3, StillAlone DEF Calm
<1> QED BY <1>1, <1>4

LEMMA NextDocCalm ==
  ASSUME TypeOK, NEW w \in Runs, RunOK(w), Accounted(w), Calm(w), NextDoc(w)
  PROVE  StepOK(w) /\ Calm(w)'
<1>1. StepOK(w) /\ pc'[w] \in {"done", "book"} /\ w \in Active
  BY NextDocOK DEF NextDoc, Active
<1>2. /\ UNCHANGED <<dropped, at, list, troubled>>
      /\ pc'[w] = "done" => at[w] > Len(list[w])
  <2>1. pc \in [Runs -> Points]
    BY DEF TypeOK
  <2> QED BY <2>1 DEF NextDoc, GoesOn, Goto
<1> QED BY <1>1, <1>2, StillAlone DEF Calm

\* Once the book is found or created: the participants, or the event.
LEMMA BookFound ==
  ASSUME TypeOK, NEW w \in Runs, RunOK(w), Accounted(w), Calm(w),
         pc[w] \in AtWork \cap Early, Doc(w) \notin Broken,
         NEW b \in Books, b \in books', b.page = Page[Doc(w)],
         book' = [book EXCEPT ![w] = b], NextPerson(w, <<>>),
         UNCHANGED people, GoesOn
  PROVE  StepOK(w) /\ Calm(w)'
<1>1. /\ at[w] <= Len(list[w]) /\ people[w] = <<>> /\ w \in Active
      /\ pc[w] \in AtWork
  BY DEF RunOK, Active, AtWork, Asking, Writing, Early
<1>2. /\ book' \in [Runs -> Books \union {NoBook}] /\ book'[w] = b
      /\ \A v \in Runs \ {w} : book'[v] = book[v]
  BY DEF TypeOK
<1>3. /\ people' \in [Runs -> Seq(Users)] /\ people'[w] = <<>>
      /\ \A v \in Runs \ {w} : people'[v] = people[v]
      /\ <<>> \in Seq(Users) /\ Len(<<>>) = 0
  BY <1>1 DEF TypeOK
<1>4. 0 <= Len(People[Doc(w)])
  BY <1>1, DocTypes
<1>5. PICK x \in {"find", "person"} :
        /\ Goto(w, x)
        /\ x = "find" => Len(<<>>) = Len(People[Doc(w)])
        /\ x = "person" => Len(<<>>) < Len(People[Doc(w)])
  <2>1. \/ Goto(w, "find") /\ Len(<<>>) = Len(People[Doc(w)])
        \/ Goto(w, "person") /\ Len(<<>>) < Len(People[Doc(w)])
    BY <1>1, <1>3, <1>4, ToPerson
  <2> QED BY <2>1
<1>6. Doc(w)' = Doc(w)
  BY DEF GoesOn, Doc
<1>7. PeopleHeld(w)' /\ BookHeld(w)'
  BY <1>2, <1>3, <1>6 DEF PeopleHeld, BookHeld
<1>8. StepOK(w) /\ pc'[w] = x
  BY <1>1, <1>2, <1>3, <1>5, <1>7, GoesOnOK DEF AtWork, Asking, Writing, Early
<1>9. UNCHANGED <<troubled, dropped>>
  BY DEF GoesOn
<1> QED BY <1>1, <1>5, <1>8, <1>9, StillAlone DEF Calm

LEMMA FindBookOK ==
  ASSUME TypeOK, NEW w \in Runs, RunOK(w), Accounted(w), Calm(w), FindBook(w)
  PROVE  StepOK(w) /\ Calm(w)'
<1>1. /\ pc[w] = "book" /\ pc[w] \in AtWork \cap Early /\ w \in Active
      /\ NothingStored
  BY DEF FindBook, AtWork, Early, Active
<1>2. at[w] <= Len(list[w]) /\ people[w] = <<>>
  BY <1>1 DEF RunOK
<1>3. CASE Doc(w) \in Broken /\ Drop(w) /\ UNCHANGED troubled
  BY <1>1, <1>3, LeavesCalm DEF TypeOK
<1>4. CASE /\ Doc(w) \notin Broken /\ BooksOf(Page[Doc(w)]) = {}
           /\ Goto(w, "fetch") /\ UNCHANGED <<book, people>> /\ GoesOn
  <2>1. StepOK(w) /\ pc'[w] = "fetch" /\ Doc(w)' = Doc(w)
    BY <1>1, <1>4, EarlyStep
  <2>2. UNCHANGED <<books, troubled, dropped>>
    BY <1>1, <1>4 DEF NothingStored, GoesOn
  <2>3. BooksOf(Page[Doc(w)])' = {}
    BY <1>4, <2>1, <2>2 DEF BooksOf
  <2> QED BY <1>1, <2>1, <2>2, <2>3, StillAlone DEF Calm
<1>5. CASE /\ Doc(w) \notin Broken
           /\ \E b \in BooksOf(Page[Doc(w)]) : book' = [book EXCEPT ![w] = b]
           /\ NextPerson(w, <<>>)
           /\ UNCHANGED people /\ GoesOn
  <2>1. PICK b \in BooksOf(Page[Doc(w)]) : book' = [book EXCEPT ![w] = b]
    BY <1>5
  <2>2. b \in books /\ b.page = Page[Doc(w)] /\ b \in Books
    BY <2>1 DEF BooksOf, TypeOK
  <2>3. books' = books
    BY <1>1 DEF NothingStored
  <2> QED BY <1>1, <1>5, <2>1, <2>2, <2>3, BookFound
<1> QED BY <1>3, <1>4, <1>5 DEF FindBook

LEMMA FetchAnswersOK ==
  ASSUME TypeOK, NEW w \in Runs, RunOK(w), Accounted(w), Calm(w), FetchAnswers(w)
  PROVE  StepOK(w) /\ Calm(w)'
<1>1. /\ pc[w] = "fetch" /\ pc[w] \in AtWork \cap Early /\ w \in Active
      /\ pc[w] \in AtWork \ {"book"}
  BY DEF FetchAnswers, AtWork, Early, Active
<1>2. Doc(w) \notin Broken
  BY <1>1 DEF RunOK
<1>3. StepOK(w) /\ pc'[w] = "checkBook" /\ Doc(w)' = Doc(w)
  BY <1>1, <1>2, EarlyStep DEF FetchAnswers
<1>4. UNCHANGED <<books, troubled, dropped>>
  BY DEF FetchAnswers, NothingStored, GoesOn
<1>5. BooksOf(Page[Doc(w)])' = BooksOf(Page[Doc(w)])
  BY <1>3, <1>4 DEF BooksOf
<1> QED BY <1>1, <1>3, <1>4, <1>5, StillAlone DEF Calm

\* An error of a service, which disturbs the run.
LEMMA LostOK ==
  ASSUME TypeOK, NEW w \in Runs, RunOK(w), Accounted(w), Calm(w),
         pc[w] \in AtWork, Drop(w), Disturb({w})
  PROVE  StepOK(w) /\ Calm(w)'
<1>1. troubled' \in [Runs -> BOOLEAN] /\ troubled'[w]
  BY Disturbs
<1> QED BY <1>1, LeavesCalm

LEMMA FailsOK ==
  ASSUME TypeOK, NEW w \in Runs, RunOK(w), Accounted(w), Calm(w),
         FetchFails(w) \/ DbFails(w)
  PROVE  StepOK(w) /\ Calm(w)'
<1>1. pc[w] \in AtWork /\ Drop(w) /\ Disturb({w})
  <2>1. pc[w] \in Points
    BY RunTypes
  <2> QED BY <2>1 DEF FetchFails, DbFails, AtWork, Asking, Writing, Points
<1> QED BY <1>1, LostOK

LEMMA CheckBookOK ==
  ASSUME TypeOK, NEW w \in Runs, RunOK(w), Accounted(w), Calm(w), CheckBook(w)
  PROVE  StepOK(w) /\ Calm(w)'
<1>1. /\ pc[w] = "checkBook" /\ pc[w] \in AtWork \cap Early /\ w \in Active
      /\ pc[w] \in AtWork \ {"book"} /\ troubled' \in [Runs -> BOOLEAN]
      /\ UNCHANGED <<books, troubled>>
  BY DEF CheckBook, AtWork, Early, Active, NothingStored, GoesOn, TypeOK
<1>2. Doc(w) \notin Broken
  BY <1>1 DEF RunOK
<1>3. CASE /\ BooksOf(Page[Doc(w)]) = {} /\ Goto(w, "insertBook")
           /\ UNCHANGED <<book, people>> /\ GoesOn
  <2>1. StepOK(w) /\ pc'[w] = "insertBook" /\ Doc(w)' = Doc(w)
    BY <1>1, <1>2, <1>3, EarlyStep
  <2>2. BooksOf(Page[Doc(w)])' = {} /\ UNCHANGED dropped
    BY <1>1, <1>3, <2>1 DEF BooksOf, GoesOn
  <2> QED BY <1>1, <2>1, <2>2, StillAlone DEF Calm
<1>4. CASE BooksOf(Page[Doc(w)]) # {} /\ Drop(w)
  BY <1>1, <1>4, LeavesCalm DEF Calm
<1> QED BY <1>3, <1>4 DEF CheckBook

\* Once a participant more is found or created: the next one, or the event.
LEMMA PersonHired ==
  ASSUME TypeOK, NEW w \in Runs, RunOK(w), Accounted(w), Calm(w), pc[w] \in Asking,
         NEW u \in Users, u \in users', u.userId = Person(w),
         people' = [people EXCEPT ![w] = Append(people[w], u)],
         NextPerson(w, people'[w]), UNCHANGED book, GoesOn,
         books \subseteq books', users \subseteq users', gone' = gone
  PROVE  StepOK(w) /\ Calm(w)'
<1>1. /\ pc[w] \in AtWork \ {"book"} /\ w \in Active /\ at[w] <= Len(list[w])
      /\ Doc(w) \notin Broken /\ PeopleHeld(w) /\ BookHeld(w)
      /\ Len(people[w]) < Len(People[Doc(w)])
  BY DEF RunOK, AtWork, Asking, Active
<1>2. /\ people \in [Runs -> Seq(Users)] /\ people[w] \in Seq(Users)
      /\ Len(people[w]) \in Nat /\ Len(People[Doc(w)]) \in Nat
  BY <1>1, RunTypes, DocTypes DEF TypeOK
<1>3. /\ Append(people[w], u) \in Seq(Users)
      /\ Len(Append(people[w], u)) = Len(people[w]) + 1
      /\ Append(people[w], u)[Len(people[w]) + 1] = u
      /\ \A i \in 1 .. Len(people[w]) : Append(people[w], u)[i] = people[w][i]
  BY <1>2
<1>4. /\ people' \in [Runs -> Seq(Users)] /\ people'[w] = Append(people[w], u)
      /\ \A v \in Runs \ {w} : people'[v] = people[v]
  BY <1>2, <1>3
<1>5. Len(people'[w]) <= Len(People[Doc(w)])
  BY <1>1, <1>2, <1>3, <1>4
<1>6. PICK x \in {"find", "person"} :
        /\ Goto(w, x)
        /\ x = "find" => Len(people'[w]) = Len(People[Doc(w)])
        /\ x = "person" => Len(people'[w]) < Len(People[Doc(w)])
  <2>1. \/ Goto(w, "find") /\ Len(people'[w]) = Len(People[Doc(w)])
        \/ Goto(w, "person") /\ Len(people'[w]) < Len(People[Doc(w)])
    BY <1>1, <1>3, <1>4, <1>5, ToPerson
  <2> QED BY <2>1
<1>7. Doc(w)' = Doc(w)
  BY DEF GoesOn, Doc
<1>8. PeopleHeld(w)'
  <2>1. ASSUME NEW i \in 1 .. Len(people'[w])
        PROVE  /\ people'[w][i] \in users' \union gone'
               /\ people'[w][i].userId = People[Doc(w)][i]
    <3>1. i \in 1 .. Len(people[w]) \/ i = Len(people[w]) + 1
      BY <1>2, <1>3, <1>4, <2>1
    <3>2. CASE i \in 1 .. Len(people[w])
      BY <1>1, <1>3, <1>4, <3>2 DEF PeopleHeld
    <3>3. CASE i = Len(people[w]) + 1
      BY <1>3, <1>4, <3>3 DEF Person
    <3> QED BY <3>1, <3>2, <3>3
  <2> QED BY <1>7, <2>1 DEF PeopleHeld
<1>9. BookHeld(w)'
  BY <1>1, <1>7 DEF BookHeld
<1>10. book' \in [Runs -> Books \union {NoBook}]
  BY DEF TypeOK
<1>11. StepOK(w) /\ pc'[w] = x
  BY <1>1, <1>4, <1>6, <1>8, <1>9, <1>10, GoesOnOK DEF AtWork, Asking, Writing, Early
<1>12. UNCHANGED <<troubled, dropped>>
  BY DEF GoesOn
<1> QED BY <1>1, <1>6, <1>11, <1>12, StillAlone DEF Calm

\* A step after the book that stores no book or user and finds nobody more.
LEMMA LateStep ==
  ASSUME TypeOK, NEW w \in Runs, RunOK(w), Accounted(w),
         pc[w] \in Asking \union Writing,
         NEW x, Goto(w, x), \/ pc[w] \in Asking /\ x \in Asking
                            \/ pc[w] \in Writing /\ x \in Writing,
         GoesOn, UNCHANGED <<book, people>>, UNCHANGED <<books, users, gone>>
  PROVE  /\ StepOK(w) /\ pc'[w] = x /\ Doc(w)' = Doc(w)
         /\ UNCHANGED <<users, troubled, dropped, people>>
<1>1. /\ pc[w] \in AtWork \ {"book"} /\ Doc(w) \notin Broken
      /\ PeopleHeld(w) /\ BookHeld(w)
      /\ pc[w] \in Asking => Len(people[w]) < Len(People[Doc(w)])
      /\ pc[w] \in Writing => Len(people[w]) = Len(People[Doc(w)])
  BY DEF RunOK, AtWork, Asking, Writing
<1>2. UNCHANGED <<books, users, gone, troubled, dropped, list, at>>
  BY DEF GoesOn
<1>3. Doc(w)' = Doc(w)
  BY <1>2 DEF Doc
<1>4. PeopleHeld(w)' /\ BookHeld(w)'
  BY <1>1, <1>2, <1>3 DEF PeopleHeld, BookHeld
<1>5. book' \in [Runs -> Books \union {NoBook}] /\ people' \in [Runs -> Seq(Users)]
  BY DEF TypeOK
<1>6. x \in AtWork \ {"book"} /\ x \notin Early
  BY DEF AtWork, Asking, Writing, Early
<1>7. /\ x \in Asking => Len(people'[w]) < Len(People[Doc(w)])
      /\ x \in Writing => Len(people'[w]) = Len(People[Doc(w)])
  BY <1>1 DEF Asking, Writing
<1>8. StepOK(w) /\ pc'[w] = x
  BY <1>1, <1>4, <1>5, <1>6, <1>7, GoesOnOK
<1> QED BY <1>2, <1>3, <1>8

LEMMA InsertBookOK ==
  ASSUME TypeOK, NEW w \in Runs, RunOK(w), Accounted(w), Calm(w), InsertBook(w)
  PROVE  StepOK(w) /\ Calm(w)'
<1> DEFINE new == [by |-> w, page |-> Page[Doc(w)]]
<1>1. /\ pc[w] = "insertBook" /\ pc[w] \in AtWork \cap Early
      /\ pc[w] \in AtWork \ {"book"}
  BY DEF InsertBook, AtWork, Early
<1>2. Doc(w) \notin Broken /\ at[w] <= Len(list[w])
  BY <1>1 DEF RunOK
<1>3. new \in Books /\ new.page = Page[Doc(w)]
  BY <1>2, DocTypes DEF Books, Makers
<1>4. CASE /\ books' = books \union {new} /\ book' = [book EXCEPT ![w] = new]
           /\ NextPerson(w, <<>>) /\ UNCHANGED people /\ GoesOn
  <2>1. new \in books'
    BY <1>4
  <2> HIDE DEF new
  <2> QED BY <1>1, <1>2, <1>3, <1>4, <2>1, BookFound
<1>5. CASE BooksOf(Page[Doc(w)]) # {} /\ Drop(w) /\ UNCHANGED troubled
  BY <1>1, <1>5, LeavesCalm DEF Calm, TypeOK
<1>6. CASE Drop(w) /\ Disturb({w})
  BY <1>1, <1>6, LostOK
<1> QED BY <1>4, <1>5, <1>6 DEF InsertBook

LEMMA FindPersonOK ==
  ASSUME TypeOK, NEW w \in Runs, RunOK(w), Accounted(w), Calm(w), FindPerson(w)
  PROVE  StepOK(w) /\ Calm(w)'
<1>1. /\ pc[w] = "person" /\ pc[w] \in Asking /\ w \in Active
      /\ UNCHANGED book /\ GoesOn /\ NothingStored
      /\ UNCHANGED <<books, users, gone>>
  BY DEF FindPerson, Asking, Active, NothingStored, bounds
<1>2. CASE UsersOf(Person(w)) = {} /\ Goto(w, "checkPerson") /\ UNCHANGED people
  <2>1. /\ StepOK(w) /\ pc'[w] = "checkPerson" /\ Doc(w)' = Doc(w)
        /\ UNCHANGED <<users, troubled, dropped, people>>
    BY <1>1, <1>2, LateStep DEF Asking
  <2>2. UsersOf(Person(w))' = {}
    BY <1>2, <2>1 DEF UsersOf, Person
  <2> QED BY <1>1, <2>1, <2>2, StillAlone DEF Calm
<1>3. ASSUME NEW u \in UsersOf(Person(w)),
             people' = [people EXCEPT ![w] = Append(people[w], u)],
             NextPerson(w, people'[w])
      PROVE  StepOK(w) /\ Calm(w)'
  <2>1. u \in Users /\ u \in users' /\ u.userId = Person(w)
    BY <1>1, <1>3 DEF UsersOf, TypeOK
  <2> QED BY <1>1, <1>3, <2>1, PersonHired
<1> QED BY <1>2, <1>3 DEF FindPerson

LEMMA CheckPersonOK ==
  ASSUME TypeOK, NEW w \in Runs, RunOK(w), Accounted(w), Calm(w), CheckPerson(w)
  PROVE  StepOK(w) /\ Calm(w)'
<1>1. /\ pc[w] = "checkPerson" /\ pc[w] \in Asking /\ pc[w] \in AtWork
      /\ w \in Active /\ UNCHANGED <<books, users, gone>>
  BY DEF CheckPerson, Asking, AtWork, Active, NothingStored, bounds
<1>2. CASE /\ UsersOf(Person(w)) = {} /\ Goto(w, "insertPerson")
           /\ UNCHANGED <<book, people>> /\ GoesOn
  <2>1. /\ StepOK(w) /\ pc'[w] = "insertPerson" /\ Doc(w)' = Doc(w)
        /\ UNCHANGED <<users, troubled, dropped, people>>
    BY <1>1, <1>2, LateStep DEF Asking
  <2>2. UsersOf(Person(w))' = {}
    BY <1>2, <2>1 DEF UsersOf, Person
  <2> QED BY <1>1, <2>1, <2>2, StillAlone DEF Calm
<1>3. CASE UsersOf(Person(w)) # {} /\ Drop(w) /\ UNCHANGED troubled
  BY <1>1, <1>3, LeavesCalm DEF Calm, TypeOK
<1> QED BY <1>2, <1>3 DEF CheckPerson

LEMMA InsertPersonOK ==
  ASSUME TypeOK, NEW w \in Runs, RunOK(w), Accounted(w), Calm(w), InsertPerson(w)
  PROVE  StepOK(w) /\ Calm(w)'
<1> DEFINE new == [by |-> w, userId |-> Person(w)]
<1>1. /\ pc[w] = "insertPerson" /\ pc[w] \in Asking /\ pc[w] \in AtWork
      /\ UNCHANGED <<books, gone>>
  BY DEF InsertPerson, Asking, AtWork, bounds
<1>2. new \in Users /\ new.userId = Person(w)
  BY <1>1, PersonType DEF Users, Makers
<1>3. CASE /\ users' = users \union {new}
           /\ people' = [people EXCEPT ![w] = Append(people[w], new)]
           /\ NextPerson(w, people'[w]) /\ UNCHANGED book /\ GoesOn
  <2>1. new \in users' /\ users \subseteq users'
    BY <1>3
  <2> HIDE DEF new
  <2> QED BY <1>1, <1>2, <1>3, <2>1, PersonHired
<1>4. CASE UsersOf(Person(w)) # {} /\ Drop(w) /\ UNCHANGED troubled
  BY <1>1, <1>4, LeavesCalm DEF Calm, TypeOK
<1>5. CASE Drop(w) /\ Disturb({w})
  BY <1>1, <1>5, LostOK
<1> QED BY <1>3, <1>4, <1>5 DEF InsertPerson

LEMMA FindEventOK ==
  ASSUME TypeOK, NEW w \in Runs, RunOK(w), Accounted(w), Calm(w), FindEvent(w)
  PROVE  StepOK(w) /\ Calm(w)'
<1>1. /\ pc[w] = "find" /\ pc[w] \in Writing /\ w \in Active
      /\ GoesOn /\ UNCHANGED <<book, people>>
      /\ UNCHANGED <<books, users, events, gone>>
  BY DEF FindEvent, Writing, Active, NothingStored, bounds
<1>2. PICK x \in {"update", "create"} :
        /\ Goto(w, x)
        /\ x = "update" => Migrating(w) # {}
        /\ x = "create" => Migrating(w) = {}
  BY DEF FindEvent
<1>3. /\ StepOK(w) /\ pc'[w] = x /\ Doc(w)' = Doc(w)
      /\ UNCHANGED <<troubled, dropped>>
  BY <1>1, <1>2, LateStep DEF Writing
<1>4. Migrating(w)' = Migrating(w)
  BY <1>1, <1>3 DEF Migrating
<1> QED BY <1>1, <1>2, <1>3, <1>4, StillAlone DEF Calm

LEMMA WriteEventOK ==
  ASSUME TypeOK, NEW w \in Runs, RunOK(w), Accounted(w), Calm(w),
         UpdateEvent(w) \/ CreateEvent(w)
  PROVE  StepOK(w) /\ Calm(w)'
<1>1. /\ pc[w] \in AtWork /\ pc[w] \in Writing /\ w \in Active
      /\ UNCHANGED <<books, users, gone>>
  BY DEF UpdateEvent, CreateEvent, AtWork, Writing, Active, bounds
<1>2. CASE AwaitReply(w)
  <2>1. /\ StepOK(w) /\ pc'[w] = "reply"
        /\ UNCHANGED <<troubled, dropped>>
    BY <1>1, <1>2, LateStep DEF AwaitReply, Writing
  <2> QED BY <1>1, <2>1, StillAlone DEF Calm
<1>3. CASE Drop(w) /\ UNCHANGED troubled /\ troubled[w]
  BY <1>1, <1>3, LeavesCalm DEF TypeOK
<1> QED BY <1>2, <1>3 DEF UpdateEvent, CreateEvent, Calm

LEMMA WriteAnsweredOK ==
  ASSUME TypeOK, NEW w \in Runs, RunOK(w), Accounted(w), Calm(w), WriteAnswered(w)
  PROVE  StepOK(w) /\ Calm(w)'
<1>1. /\ pc[w] \in AtWork /\ Migrated(w)
      /\ UNCHANGED troubled /\ troubled' \in [Runs -> BOOLEAN]
  BY DEF WriteAnswered, AtWork, Writing, TypeOK
<1> QED BY <1>1, LeavesCalm

LEMMA StartOK ==
  ASSUME TypeOK, NEW w \in Runs, RunOK(w), Accounted(w), Calm(w), Start(w)
  PROVE  StepOK(w) /\ Calm(w)'
<1>1. /\ pc[w] = "off" /\ at[w] = 1 /\ moved[w] = {} /\ dropped[w] = {}
      /\ people[w] = <<>> /\ Goto(w, "next")
      /\ UNCHANGED <<at, book, people, moved, dropped>>
  BY DEF Start, RunOK, Early
<1>2. PICK docs \in Seq(Docs) : list' = [list EXCEPT ![w] = docs]
  <2>1. Cursor \in Seq(Docs) /\ \A d \in Docs : <<d>> \in Seq(Docs)
    BY CursorAssumption
  <2> QED BY <2>1 DEF Start
<1>3. /\ list' \in [Runs -> Seq(Docs)] /\ list'[w] = docs
      /\ \A v \in Runs \ {w} : list'[v] = list[v]
  BY <1>2 DEF TypeOK
<1>4. /\ pc' \in [Runs -> Points] /\ pc'[w] = "next"
      /\ \A v \in Runs \ {w} : pc'[v] = pc[v]
  BY <1>1 DEF Goto, TypeOK, Points
<1>5. /\ troubled' \in [Runs -> BOOLEAN]
      /\ Active # {} => troubled'[w]
  BY Disturbs DEF Start
<1>6. RunTypesOK'
  BY <1>1, <1>3, <1>4, <1>5 DEF TypeOK, RunTypesOK
<1>7. Only(w)
  BY <1>1, <1>3, <1>4 DEF Only, Kept
<1>8. RunOK(w)'
  BY <1>1, <1>4 DEF RunOK, AtWork, Asking, Writing, Early
<1>9. Accounted(w)'
  <2>1. \A i \in DOMAIN list'[w] : ~(i < at'[w])
    <3>1. DOMAIN list'[w] = 1 .. Len(docs) /\ Len(docs) \in Nat
      BY <1>3
    <3> QED BY <1>1, <3>1
  <2> QED BY <1>1, <2>1 DEF Accounted
<1>10. Calm(w)'
  <2>1. ASSUME Active = {} PROVE \A v \in Active' : v = w
    BY <1>4, <2>1 DEF Active
  <2> QED BY <1>1, <1>4, <1>5, <2>1 DEF Calm
<1> QED BY <1>6, <1>7, <1>8, <1>9, <1>10 DEF StepOK
-----------------------------------------------------------------------------
\* What the steps do to the collections.
CollectionTypes ==
  /\ books \subseteq Books
  /\ users \subseteq Users
  /\ \A e \in events : e.id \in Docs /\ e.book \in Books /\ e.people \in Seq(Users)
  /\ gone \subseteq Users
  /\ deletes \in 0 .. MaxDeletes
  /\ restarts \in 0 .. MaxRestarts

StaysStored == deletes' = 0 => \A e \in events : \E f \in events' : f.id = e.id

CollectionsOK ==
  CollectionTypes' /\ Stays /\ EventsComplete' /\ NoCopies' /\ StaysStored

LEMMA NothingStoredOK ==
  ASSUME IInv, NothingStored
  PROVE  CollectionsOK /\ deletes' = deletes
<1>1. UNCHANGED <<books, users, events, gone, deletes, restarts>>
  BY DEF NothingStored, bounds
<1> QED BY <1>1 DEF IInv, TypeOK, CollectionsOK, CollectionTypes, Stays,
                    EventsComplete, NoCopies, StaysStored

\* Collections that only gain, and keep every event.
LEMMA OldEventsComplete ==
  ASSUME EventsComplete, Stays, NEW e \in events
  PROVE  /\ e.id \notin Broken
         /\ e.book \in books' /\ e.book.page = Page[e.id]
         /\ Len(e.people) = Len(People[e.id])
         /\ \A i \in DOMAIN e.people :
              /\ e.people[i] \in users' \union gone'
              /\ e.people[i].userId = People[e.id][i]
  BY DEF EventsComplete, Stays

LEMMA InsertBookStores ==
  ASSUME IInv, NEW w \in Runs, InsertBook(w)
  PROVE  CollectionsOK /\ deletes' = deletes
<1> DEFINE new == [by |-> w, page |-> Page[Doc(w)]]
<1>1. TypeOK /\ RunOK(w) /\ EventsComplete /\ NoCopies
  BY DEF IInv
<1>2. /\ UNCHANGED <<users, events, gone, deletes, restarts>>
      /\ pc[w] \in AtWork
      /\ \/ books' = books
         \/ books' = books \union {new} /\ BooksOf(Page[Doc(w)]) = {}
  BY DEF InsertBook, bounds, AtWork
<1>3. new \in Books /\ new.page = Page[Doc(w)]
  <2>1. at[w] <= Len(list[w])
    BY <1>1, <1>2 DEF RunOK
  <2> QED BY <1>1, <2>1, DocTypes DEF Books, Makers
<1>4. CollectionTypes'
  BY <1>1, <1>2, <1>3 DEF TypeOK, CollectionTypes
<1>5. Stays /\ StaysStored
  BY <1>2 DEF Stays, StaysStored
<1>6. EventsComplete'
  BY <1>1, <1>2, <1>5, OldEventsComplete DEF EventsComplete
<1>7. NoCopies'
  <2>1. \A b \in books : b.page # new.page \/ books' = books
    BY <1>2, <1>3 DEF BooksOf
  <2> HIDE DEF new
  <2> QED BY <1>1, <1>2, <2>1 DEF NoCopies
<1> QED BY <1>2, <1>4, <1>5, <1>6, <1>7 DEF CollectionsOK

LEMMA InsertPersonStores ==
  ASSUME IInv, NEW w \in Runs, InsertPerson(w)
  PROVE  CollectionsOK /\ deletes' = deletes
<1> DEFINE new == [by |-> w, userId |-> Person(w)]
<1>1. TypeOK /\ RunOK(w) /\ EventsComplete /\ NoCopies
  BY DEF IInv
<1>2. /\ UNCHANGED <<books, events, gone, deletes, restarts>>
      /\ pc[w] \in Asking
      /\ \/ users' = users
         \/ users' = users \union {new} /\ UsersOf(Person(w)) = {}
  BY DEF InsertPerson, bounds, Asking
<1>3. new \in Users /\ new.userId = Person(w)
  BY <1>1, <1>2, PersonType DEF Users, Makers
<1>4. CollectionTypes'
  BY <1>1, <1>2, <1>3 DEF TypeOK, CollectionTypes
<1>5. Stays /\ StaysStored
  BY <1>2 DEF Stays, StaysStored
<1>6. EventsComplete'
  BY <1>1, <1>2, <1>5, OldEventsComplete DEF EventsComplete
<1>7. NoCopies'
  <2>1. \A u \in users : u.userId # new.userId \/ users' = users
    BY <1>2, <1>3 DEF UsersOf
  <2> HIDE DEF new
  <2> QED BY <1>1, <1>2, <2>1 DEF NoCopies
<1> QED BY <1>2, <1>4, <1>5, <1>6, <1>7 DEF CollectionsOK

LEMMA WriteEventStores ==
  ASSUME IInv, NEW w \in Runs, UpdateEvent(w) \/ CreateEvent(w)
  PROVE  /\ CollectionsOK /\ deletes' = deletes /\ moved' = moved
         /\ pc'[w] = "reply" => \E e \in events' : e.id = Doc(w)'
<1> DEFINE new == EventOf(w)
<1>1. TypeOK /\ RunOK(w) /\ EventsComplete /\ NoCopies
  BY DEF IInv
<1>2. /\ UNCHANGED <<books, users, gone, deletes, restarts>>
      /\ pc[w] \in Writing /\ pc[w] \in AtWork \ {"book"}
  BY DEF UpdateEvent, CreateEvent, bounds, Writing, AtWork
<1>3. /\ new.id = Doc(w) /\ new.book = book[w] /\ new.people = people[w]
  BY DEF EventOf
<1>4. /\ moved' = moved
      /\ \/ events' = events /\ Drop(w)
         \/ events' = (events \ Migrating(w)) \union {new} /\ AwaitReply(w)
  <2>1. CASE Migrating(w) # {} /\ UpdateEvent(w)
    BY <2>1 DEF UpdateEvent, AwaitReply, GoesOn
  <2>2. CASE Migrating(w) = {} /\ CreateEvent(w)
    BY <2>2 DEF CreateEvent, AwaitReply, GoesOn
  <2>3. CASE \/ Migrating(w) = {} /\ UpdateEvent(w)
             \/ Migrating(w) # {} /\ CreateEvent(w)
    BY <2>3 DEF UpdateEvent, CreateEvent, Drop
  <2> QED BY <2>1, <2>2, <2>3
<1> HIDE DEF new
<1>5. /\ at[w] <= Len(list[w]) /\ Doc(w) \notin Broken
      /\ Len(people[w]) = Len(People[Doc(w)])
      /\ PeopleHeld(w) /\ BookHeld(w)
  BY <1>1, <1>2 DEF RunOK, Writing
<1>6. /\ Doc(w) \in Docs /\ people[w] \in Seq(Users)
      /\ DOMAIN people[w] = 1 .. Len(people[w])
  BY <1>1, <1>5, DocTypes, RunTypes
<1>7. Stays
  BY <1>2 DEF Stays
<1>8. CollectionTypes'
  <2>1. book[w] \in Books
    BY <1>1, <1>5 DEF BookHeld, TypeOK
  <2> QED BY <1>1, <1>2, <1>3, <1>4, <1>6, <2>1 DEF TypeOK, CollectionTypes
<1>9. EventsComplete'
  <2>1. ASSUME NEW e \in events'
        PROVE  /\ e.id \notin Broken
               /\ e.book \in books' /\ e.book.page = Page[e.id]
               /\ Len(e.people) = Len(People[e.id])
               /\ \A i \in DOMAIN e.people :
                    /\ e.people[i] \in users' \union gone'
                    /\ e.people[i].userId = People[e.id][i]
    <3>1. CASE e \in events
      BY <1>1, <1>7, <3>1, OldEventsComplete
    <3>2. CASE e = new
      BY <1>2, <1>3, <1>5, <1>6, <3>2 DEF PeopleHeld, BookHeld
    <3> QED BY <1>4, <2>1, <3>1, <3>2
  <2> QED BY <2>1 DEF EventsComplete
<1>10. NoCopies'
  <2>1. \A e \in events \ Migrating(w) : e.id # Doc(w)
    BY DEF Migrating
  <2> QED BY <1>1, <1>2, <1>3, <1>4, <2>1 DEF NoCopies
<1>11. StaysStored
  <2>1. \A e \in Migrating(w) : e.id = new.id
    BY <1>3 DEF Migrating
  <2> QED BY <1>4, <2>1 DEF StaysStored
<1>12. ASSUME pc'[w] = "reply" PROVE \E e \in events' : e.id = Doc(w)'
  <2>1. ~Drop(w)
    BY <1>1, <1>12 DEF Drop, Leave, Goto, TypeOK
  <2>2. Doc(w)' = Doc(w) /\ new \in events'
    BY <1>4, <2>1 DEF AwaitReply, GoesOn, Doc
  <2> QED BY <1>3, <2>2
<1> QED BY <1>2, <1>4, <1>7, <1>8, <1>9, <1>10, <1>11, <1>12 DEF CollectionsOK

\* The rest of the service, and restarts.
LEMMA ApiStores ==
  ASSUME IInv, ApiCreatesUser \/ ApiCreatesBook \/ ApiDeletesEvent \/ ApiDeletesUser
  PROVE  CollectionsOK /\ (deletes' = 0 => deletes = 0)
<1>1. TypeOK /\ EventsComplete /\ NoCopies /\ deletes \in Nat
  BY BoundAssumption DEF IInv, TypeOK
<1>2. CASE ApiCreatesUser
  <2>1. PICK k \in UserIds : UsersOf(k) = {} /\ users' = users \union {[by |-> Api, userId |-> k]}
    BY <1>2 DEF ApiCreatesUser
  <2>2. PICK new \in Users : new.userId = k /\ users' = users \union {new}
    BY <2>1 DEF Users, Makers
  <2>3. UNCHANGED <<books, events, gone, deletes, restarts>>
    BY <1>2 DEF ApiCreatesUser, bounds
  <2>4. CollectionTypes' /\ Stays /\ StaysStored
    BY <1>1, <2>2, <2>3 DEF TypeOK, CollectionTypes, Stays, StaysStored
  <2>5. EventsComplete'
    BY <1>1, <2>3, <2>4, OldEventsComplete DEF EventsComplete
  <2>6. NoCopies'
    BY <1>1, <2>1, <2>2, <2>3 DEF NoCopies, UsersOf
  <2> QED BY <2>3, <2>4, <2>5, <2>6 DEF CollectionsOK
<1>3. CASE ApiCreatesBook
  <2>1. PICK p \in Pages : BooksOf(p) = {} /\ books' = books \union {[by |-> Api, page |-> p]}
    BY <1>3 DEF ApiCreatesBook
  <2>2. PICK new \in Books : new.page = p /\ books' = books \union {new}
    BY <2>1 DEF Books, Makers
  <2>3. UNCHANGED <<users, events, gone, deletes, restarts>>
    BY <1>3 DEF ApiCreatesBook, bounds
  <2>4. CollectionTypes' /\ Stays /\ StaysStored
    BY <1>1, <2>2, <2>3 DEF TypeOK, CollectionTypes, Stays, StaysStored
  <2>5. EventsComplete'
    BY <1>1, <2>3, <2>4, OldEventsComplete DEF EventsComplete
  <2>6. NoCopies'
    BY <1>1, <2>1, <2>2, <2>3 DEF NoCopies, BooksOf
  <2> QED BY <2>3, <2>4, <2>5, <2>6 DEF CollectionsOK
<1>4. CASE ApiDeletesEvent
  <2>1. /\ events' \subseteq events /\ UNCHANGED <<books, users, gone, restarts>>
        /\ deletes' = deletes + 1 /\ deletes < MaxDeletes
    BY <1>4 DEF ApiDeletesEvent
  <2>2. deletes' \in 0 .. MaxDeletes /\ deletes' # 0
    BY <1>1, <2>1, BoundAssumption
  <2>3. CollectionTypes' /\ Stays /\ StaysStored
    BY <1>1, <2>1, <2>2 DEF TypeOK, CollectionTypes, Stays, StaysStored
  <2>4. EventsComplete' /\ NoCopies'
    BY <1>1, <2>1 DEF EventsComplete, NoCopies
  <2> QED BY <2>2, <2>3, <2>4 DEF CollectionsOK
<1>5. CASE ApiDeletesUser
  <2>1. PICK u \in users : users' = users \ {u} /\ gone' = gone \union {u}
    BY <1>5 DEF ApiDeletesUser
  <2>2. /\ UNCHANGED <<books, events, restarts>>
        /\ deletes' = deletes + 1 /\ deletes < MaxDeletes
    BY <1>5 DEF ApiDeletesUser
  <2>3. deletes' \in 0 .. MaxDeletes /\ deletes' # 0
    BY <1>1, <2>2, BoundAssumption
  <2>4. CollectionTypes' /\ Stays /\ StaysStored
    BY <1>1, <2>1, <2>2, <2>3 DEF TypeOK, CollectionTypes, Stays, StaysStored
  <2>5. EventsComplete'
    BY <1>1, <2>2, <2>4, OldEventsComplete DEF EventsComplete
  <2>6. NoCopies'
    BY <1>1, <2>1, <2>2 DEF NoCopies
  <2> QED BY <2>3, <2>4, <2>5, <2>6 DEF CollectionsOK
<1> QED BY <1>2, <1>3, <1>4, <1>5

\* A step that moves no run, and disturbs those under way.
LEMMA ApiKeeps ==
  ASSUME IInv, ApiCreatesUser \/ ApiCreatesBook \/ ApiDeletesEvent \/ ApiDeletesUser
  PROVE  IInv'
<1>1. CollectionsOK /\ (deletes' = 0 => deletes = 0) /\ TypeOK
  BY ApiStores DEF IInv
<1>2. UNCHANGED <<pc, list, at, book, people, moved, dropped>> /\ Disturb(Active)
  BY DEF ApiCreatesUser, ApiCreatesBook, ApiDeletesEvent, ApiDeletesUser
<1>3. /\ troubled' \in [Runs -> BOOLEAN]
      /\ \A v \in Runs : troubled'[v] <=> (troubled[v] \/ v \in Active)
  BY <1>1, <1>2, Disturbs
<1>4. TypeOK'
  BY <1>1, <1>2, <1>3 DEF TypeOK, CollectionsOK, CollectionTypes
<1>5. ASSUME NEW v \in Runs
      PROVE  RunOK(v)' /\ Accounted(v)' /\ MovedAreStored(v)' /\ Calm(v)'
  <2>1. Kept(v) /\ Stays /\ StaysStored
    BY <1>1, <1>2 DEF Kept, CollectionsOK
  <2>2. RunOK(v) /\ Accounted(v) /\ MovedAreStored(v) /\ Calm(v)
    BY DEF IInv
  <2>3. RunOK(v)' /\ Accounted(v)' /\ Calm(v)'
    BY <1>1, <1>3, <2>1, <2>2, KeptRun, KeptCalm
  <2>4. MovedAreStored(v)'
    <3>1. Doc(v)' = Doc(v)
      BY <2>1, KeptDoc
    <3> QED BY <1>1, <2>1, <2>2, <3>1 DEF MovedAreStored, StaysStored, Kept
  <2> QED BY <2>3, <2>4
<1> QED BY <1>1, <1>4, <1>5 DEF IInv, CollectionsOK

LEMMA RestartKeeps ==
  ASSUME IInv, Restart
  PROVE  IInv'
<1>1. TypeOK /\ EventsComplete /\ NoCopies
  BY DEF IInv
<1>2. /\ UNCHANGED <<books, users, events, list, at, book, people, moved, dropped, gone, deletes>>
      /\ restarts < MaxRestarts /\ restarts' = restarts + 1
      /\ pc' = [w \in Runs |-> IF w \in Active THEN "done" ELSE pc[w]]
      /\ Disturb(Active)
  BY DEF Restart
<1>3. /\ troubled' \in [Runs -> BOOLEAN]
      /\ \A v \in Runs : troubled'[v] <=> (troubled[v] \/ v \in Active)
  BY <1>1, <1>2, Disturbs
<1>4. TypeOK'
  <2>1. restarts' \in 0 .. MaxRestarts
    BY <1>1, <1>2, BoundAssumption DEF TypeOK
  <2>2. pc' \in [Runs -> Points]
    BY <1>1, <1>2 DEF TypeOK, Points
  <2> QED BY <1>1, <1>2, <1>3, <2>1, <2>2 DEF TypeOK
<1>5. EventsComplete' /\ NoCopies'
  BY <1>1, <1>2 DEF EventsComplete, NoCopies
<1>6. ASSUME NEW v \in Runs
      PROVE  RunOK(v)' /\ Accounted(v)' /\ MovedAreStored(v)' /\ Calm(v)'
  <2>1. RunOK(v) /\ Accounted(v) /\ MovedAreStored(v) /\ Calm(v)
    BY DEF IInv
  <2>2. CASE v \in Active
    <3>1. pc'[v] = "done" /\ troubled'[v]
      BY <1>2, <1>3, <2>2
    <3>2. RunOK(v)' /\ Calm(v)'
      BY <3>1 DEF RunOK, Calm, AtWork, Asking, Writing, Early
    <3>3. Accounted(v)' /\ MovedAreStored(v)'
      BY <1>2, <2>1, <3>1 DEF Accounted, MovedAreStored
    <3> QED BY <3>2, <3>3
  <2>3. CASE v \notin Active
    <3>1. Kept(v) /\ Stays
      BY <1>2, <2>3 DEF Kept, Stays
    <3>2. RunOK(v)' /\ Accounted(v)' /\ Calm(v)'
      BY <1>1, <1>3, <2>1, <2>3, <3>1, KeptRun, KeptCalm
    <3>3. MovedAreStored(v)'
      BY <1>2, <2>1, <3>1, KeptDoc DEF MovedAreStored, Kept
    <3> QED BY <3>2, <3>3
  <2> QED BY <2>2, <2>3
<1> QED BY <1>4, <1>5, <1>6 DEF IInv
-----------------------------------------------------------------------------
\* The step of a run, put together.
RunStep(w) ==
  \/ Start(w) \/ NextDoc(w) \/ CursorFails(w)
  \/ FindBook(w) \/ FetchAnswers(w) \/ FetchFails(w) \/ CheckBook(w)
  \/ InsertBook(w) \/ FindPerson(w) \/ CheckPerson(w) \/ InsertPerson(w)
  \/ FindEvent(w) \/ UpdateEvent(w) \/ CreateEvent(w) \/ WriteAnswered(w)
  \/ DbFails(w)

LEMMA RunStepOK ==
  ASSUME IInv, NEW w \in Runs, RunStep(w)
  PROVE  StepOK(w) /\ Calm(w)'
<1>1. TypeOK /\ RunOK(w) /\ Accounted(w) /\ Calm(w)
  BY DEF IInv
<1>2. ASSUME CursorFails(w) PROVE StepOK(w) /\ Calm(w)'
  BY <1>1, <1>2, CursorFailsOK DEF Calm
<1> QED BY <1>1, <1>2, StartOK, NextDocCalm, FindBookOK, FetchAnswersOK, FailsOK,
           CheckBookOK, InsertBookOK, FindPersonOK, CheckPersonOK, InsertPersonOK,
           FindEventOK, WriteEventOK, WriteAnsweredOK DEF RunStep

\* Only a write of the event is one whose answer a run then waits for.
LEMMA OnlyWritesWait ==
  ASSUME IInv, NEW w \in Runs, RunStep(w), ~UpdateEvent(w), ~CreateEvent(w)
  PROVE  pc'[w] # "reply"
<1>1. pc \in [Runs -> Points]
  BY DEF IInv, TypeOK
<1>2. CASE Drop(w) \/ Migrated(w)
  BY <1>1, <1>2 DEF Drop, Migrated, Leave, Goto
<1>3. CASE ~Drop(w) /\ ~Migrated(w)
  <2>1. PICK x : Goto(w, x) /\ x # "reply"
    BY <1>3 DEF RunStep, Start, NextDoc, CursorFails, FindBook, FetchAnswers, FetchFails,
                CheckBook, InsertBook, FindPerson, CheckPerson, InsertPerson, FindEvent,
                WriteAnswered, DbFails, NextPerson
  <2> QED BY <1>1, <2>1 DEF Goto
<1> QED BY <1>2, <1>3

LEMMA RunStepStores ==
  ASSUME IInv, NEW w \in Runs, RunStep(w)
  PROVE  /\ CollectionsOK /\ deletes' = deletes
         /\ \/ moved' = moved
            \/ /\ moved' = [moved EXCEPT ![w] = moved[w] \union {Doc(w)}]
               /\ pc[w] = "reply" /\ UNCHANGED events
         /\ pc'[w] = "reply" => \E e \in events' : e.id = Doc(w)'
<1>1. CASE UpdateEvent(w) \/ CreateEvent(w)
  BY <1>1, WriteEventStores
<1>2. ASSUME ~UpdateEvent(w), ~CreateEvent(w) PROVE pc'[w] # "reply"
  BY <1>2, OnlyWritesWait
<1>3. CASE ~UpdateEvent(w) /\ ~CreateEvent(w) /\ (InsertBook(w) \/ InsertPerson(w))
  <2>1. moved' = moved
    BY <1>3 DEF InsertBook, InsertPerson, GoesOn, Drop
  <2> QED BY <1>2, <1>3, <2>1, InsertBookStores, InsertPersonStores
<1>4. CASE ~UpdateEvent(w) /\ ~CreateEvent(w) /\ WriteAnswered(w)
  <2>1. /\ NothingStored /\ pc[w] = "reply" /\ events' = events
        /\ moved' = [moved EXCEPT ![w] = moved[w] \union {Doc(w)}]
    BY <1>4 DEF WriteAnswered, Migrated, NothingStored
  <2> QED BY <1>2, <1>4, <2>1, NothingStoredOK
<1>5. CASE /\ ~UpdateEvent(w) /\ ~CreateEvent(w)
           /\ \/ Start(w) \/ NextDoc(w) \/ CursorFails(w)
              \/ FindBook(w) \/ FetchAnswers(w) \/ FetchFails(w) \/ CheckBook(w)
              \/ FindPerson(w) \/ CheckPerson(w) \/ FindEvent(w) \/ DbFails(w)
  <2>1. NothingStored
    BY <1>5 DEF Start, NextDoc, CursorFails, FindBook, FetchAnswers, FetchFails,
                CheckBook, FindPerson, CheckPerson, FindEvent, DbFails
  <2>2. moved' = moved
    BY <1>5 DEF Start, NextDoc, CursorFails, FindBook, FetchAnswers, FetchFails,
                CheckBook, FindPerson, CheckPerson, FindEvent, DbFails, GoesOn, Drop
  <2> QED BY <1>2, <1>5, <2>1, <2>2, NothingStoredOK
<1> QED BY <1>1, <1>3, <1>4, <1>5 DEF RunStep

\* A step of one run never makes another less troubled, and finds it under way
\* only if it is troubled.
LEMMA RunStepDisturbs ==
  ASSUME IInv, NEW w \in Runs, RunStep(w), NEW v \in Runs \ {w}
  PROVE  (troubled[v] => troubled'[v]) /\ (v \in Active => troubled'[v])
<1>1. TypeOK /\ Calm(v)
  BY DEF IInv
<1>2. CASE Start(w)
  <2>1. troubled'[v] <=>
          (troubled[v] \/ v \in IF Active = {} THEN {} ELSE Active \union {w})
    BY <1>1, <1>2, Disturbs DEF Start
  <2> QED BY <2>1
<1>3. CASE ~Start(w)
  <2>1. w \in Active
    BY <1>3 DEF RunStep, Active, NextDoc, CursorFails, FindBook, FetchAnswers,
                FetchFails, CheckBook, InsertBook, FindPerson, CheckPerson,
                InsertPerson, FindEvent, UpdateEvent, CreateEvent, WriteAnswered,
                DbFails
  <2>2. v \in Active => troubled[v]
    BY <1>1, <2>1 DEF Calm
  <2>3. UNCHANGED troubled \/ Disturb({w})
    BY <1>3 DEF RunStep, NextDoc, CursorFails, FindBook, FetchAnswers, GoesOn,
                FetchFails, CheckBook, InsertBook, FindPerson, CheckPerson,
                InsertPerson, FindEvent, UpdateEvent, CreateEvent, AwaitReply,
                WriteAnswered, DbFails
  <2>4. troubled[v] => troubled'[v]
    BY <1>1, <2>3, Disturbs
  <2> QED BY <2>2, <2>4
<1> QED BY <1>2, <1>3

LEMMA RunStepKeeps ==
  ASSUME IInv, NEW w \in Runs, RunStep(w)
  PROVE  IInv'
<1>1. StepOK(w) /\ Calm(w)' /\ TypeOK
  BY RunStepOK DEF IInv
<1>2. /\ CollectionsOK /\ deletes' = deletes
      /\ \/ moved' = moved
         \/ /\ moved' = [moved EXCEPT ![w] = moved[w] \union {Doc(w)}]
            /\ pc[w] = "reply" /\ UNCHANGED events
      /\ pc'[w] = "reply" => \E e \in events' : e.id = Doc(w)'
  BY RunStepStores
<1>3. TypeOK'
  BY <1>1, <1>2 DEF StepOK, RunTypesOK, CollectionsOK, CollectionTypes, TypeOK
<1>4. ASSUME NEW v \in Runs
      PROVE  RunOK(v)' /\ Accounted(v)' /\ Calm(v)'
  <2>1. CASE v = w
    BY <1>1, <2>1 DEF StepOK
  <2>2. CASE v # w
    <3>1. Kept(v) /\ Stays
      BY <1>1, <1>2, <2>2 DEF StepOK, Only, CollectionsOK
    <3>2. (troubled[v] => troubled'[v]) /\ (v \in Active => troubled'[v])
      BY <2>2, RunStepDisturbs
    <3>3. RunOK(v) /\ Accounted(v) /\ Calm(v)
      BY DEF IInv
    <3> QED BY <1>1, <3>1, <3>2, <3>3, KeptRun, KeptCalm
  <2> QED BY <2>1, <2>2
<1>5. ASSUME NEW v \in Runs PROVE MovedAreStored(v)'
  <2>1. SUFFICES ASSUME deletes' = 0
                 PROVE  /\ \A d \in moved'[v] : \E e \in events' : e.id = d
                        /\ pc'[v] = "reply" => \E e \in events' : e.id = Doc(v)'
    BY DEF MovedAreStored
  <2>2. /\ MovedAreStored(v) /\ MovedAreStored(w) /\ moved \in [Runs -> SUBSET Docs]
        /\ deletes = 0 /\ StaysStored
    BY <1>2, <2>1 DEF IInv, TypeOK, CollectionsOK
  <2>3. \A d \in moved'[v] : d \in moved[v] \/ \E e \in events' : e.id = d
    BY <1>2, <2>2 DEF MovedAreStored
  <2>4. \A d \in moved'[v] : \E e \in events' : e.id = d
    BY <2>1, <2>2, <2>3 DEF MovedAreStored, StaysStored
  <2>5. CASE v = w
    BY <1>2, <2>4, <2>5
  <2>6. CASE v # w
    <3>1. Kept(v) /\ Doc(v)' = Doc(v)
      BY <1>1, <2>6, KeptDoc DEF StepOK, Only
    <3>2. pc'[v] = "reply" => \E e \in events' : e.id = Doc(v)'
      BY <2>1, <2>2, <3>1 DEF MovedAreStored, StaysStored, Kept
    <3> QED BY <2>4, <3>2
  <2> QED BY <2>5, <2>6
<1> QED BY <1>2, <1>3, <1>4, <1>5 DEF IInv, CollectionsOK

LEMMA InitOK == Init => IInv
<1> SUFFICES ASSUME Init PROVE IInv
  OBVIOUS
<1>1. /\ <<>> \in Seq(Docs) /\ <<>> \in Seq(Users) /\ Len(<<>>) = 0
      /\ MaxDeletes \in Nat /\ MaxRestarts \in Nat
  BY BoundAssumption
<1>2. TypeOK
  BY <1>1 DEF Init, TypeOK, Points
<1>3. EventsComplete /\ NoCopies
  BY DEF Init, EventsComplete, NoCopies
<1>4. ASSUME NEW w \in Runs
      PROVE  RunOK(w) /\ Accounted(w) /\ MovedAreStored(w) /\ Calm(w)
  <2>1. /\ pc[w] = "off" /\ at[w] = 1 /\ people[w] = <<>> /\ list[w] = <<>>
        /\ moved[w] = {} /\ dropped[w] = {}
    BY DEF Init
  <2>2. RunOK(w)
    BY <2>1 DEF RunOK, AtWork, Asking, Writing
  <2>3. Accounted(w)
    <3>1. DOMAIN list[w] = {}
      BY <2>1
    <3> QED BY <2>1, <3>1 DEF Accounted
  <2>4. MovedAreStored(w) /\ Calm(w)
    BY <2>1 DEF MovedAreStored, Calm, Active
  <2> QED BY <2>2, <2>3, <2>4
<1> QED BY <1>2, <1>3, <1>4 DEF IInv

LEMMA NextOK == IInv /\ [Next]_vars => IInv'
<1> SUFFICES ASSUME IInv, [Next]_vars PROVE IInv'
  OBVIOUS
<1>1. ASSUME NEW w \in Runs, RunStep(w) PROVE IInv'
  BY <1>1, RunStepKeeps
<1>2. CASE ApiCreatesUser \/ ApiCreatesBook \/ ApiDeletesEvent \/ ApiDeletesUser
  BY <1>2, ApiKeeps
<1>3. CASE Restart
  BY <1>3, RestartKeeps
<1>4. CASE UNCHANGED vars
  BY <1>4 DEF vars, IInv, TypeOK, EventsComplete, NoCopies, RunOK, PeopleHeld,
              BookHeld, Accounted, MovedAreStored, Calm, Active, BooksOf, UsersOf,
              Person, Migrating, Doc
<1>5. CASE Next
  BY <1>1, <1>2, <1>3, <1>5 DEF Next, RunStep
<1> QED BY <1>4, <1>5

LEMMA AccountedIsNoneSkipped ==
  ASSUME IInv
  PROVE  NoneSkipped
<1>1. ASSUME NEW w \in Runs
      PROVE  {list[w][i] : i \in {j \in DOMAIN list[w] : j < at[w]}}
               = moved[w] \union dropped[w]
  <2>1. Accounted(w) /\ TypeOK
    BY DEF IInv
  <2>2. /\ moved[w] \subseteq Docs /\ dropped[w] \subseteq Docs
        /\ \A i \in DOMAIN list[w] : list[w][i] \in Docs
    BY <2>1, RunTypes
  <2> QED BY <2>1, <2>2 DEF Accounted
<1>2. \A w \in Runs : MovedAreStored(w)
  BY DEF IInv
<1> QED BY <1>1, <1>2 DEF NoneSkipped, MovedAreStored

LEMMA CalmIsClean ==
  ASSUME IInv
  PROVE  CleanRunMigratesAll
<1> SUFFICES ASSUME NEW w \in Runs, ~troubled[w]
             PROVE  /\ dropped[w] \subseteq Broken
                    /\ pc[w] = "done" =>
                         \A i \in DOMAIN list[w] : list[w][i] \in moved[w] \union Broken
  BY DEF CleanRunMigratesAll
<1>1. Calm(w) /\ Accounted(w) /\ TypeOK
  BY DEF IInv
<1>2. dropped[w] \subseteq Broken
  BY <1>1 DEF Calm
<1>3. ASSUME pc[w] = "done", NEW i \in DOMAIN list[w]
      PROVE  list[w][i] \in moved[w] \union Broken
  <2>1. at[w] > Len(list[w])
    BY <1>1, <1>3 DEF Calm
  <2>2. i \in 1 .. Len(list[w]) /\ Len(list[w]) \in Nat /\ at[w] \in Nat /\ list[w][i] \in Docs
    BY <1>1, <1>3, RunTypes
  <2>3. i < at[w]
    BY <2>1, <2>2
  <2>4. list[w][i] \in moved[w] \union dropped[w]
    BY <1>1, <1>3, <2>2, <2>3 DEF Accounted
  <2> QED BY <1>2, <2>4
<1> QED BY <1>2, <1>3
-----------------------------------------------------------------------------
\* Event d as it is in the new database.
WholeCopy(d) == [id |-> d, page |-> Page[d], people |-> People[d]]

LEMMA CopyIsWhole ==
  ASSUME NEW e, e.id \in Docs, e.book.page = Page[e.id], e.people \in Seq(Users),
         Len(e.people) = Len(People[e.id]),
         \A i \in DOMAIN e.people : e.people[i].userId = People[e.id][i]
  PROVE  CopyOf(e) = WholeCopy(e.id)
<1>1. People[e.id] \in Seq(UserIds)
  BY PeopleAssumption
<1>2. DOMAIN e.people = DOMAIN People[e.id]
  BY <1>1
<1>3. [i \in DOMAIN e.people |-> e.people[i].userId] = People[e.id]
  BY <1>1, <1>2
<1> QED BY <1>3 DEF CopyOf, WholeCopy

\* A step of one run changes what that run has written and not yet reported.
LEMMA WrittenByOne ==
  ASSUME NEW w \in Runs, Only(w)
  PROVE  Written' = [Written EXCEPT ![w] = IF pc'[w] = "reply" THEN {Doc(w)'} ELSE {}]
<1>1. \A v \in Runs \ {w} : pc'[v] = pc[v] /\ Doc(v)' = Doc(v)
  BY KeptDoc DEF Only, Kept
<1> QED BY <1>1 DEF Written

\* What a step can do to the events and to what runs report of them.
Quiet == UNCHANGED <<events, moved, dropped>> /\ Written' = Written

GivesUp(w) ==
  /\ pc[w] \in AtWork /\ Drop(w) /\ UNCHANGED events
  /\ Written' = [Written EXCEPT ![w] = {}]

Copies(w) ==
  /\ pc[w] \in Writing \ {"reply"}
  /\ Written' = [Written EXCEPT ![w] = {Doc(w)}]
  /\ events' = (events \ Migrating(w)) \union {EventOf(w)}
  /\ UNCHANGED <<moved, dropped>>

Reports(w) ==
  /\ pc[w] = "reply" /\ Migrated(w) /\ UNCHANGED events
  /\ Written' = [Written EXCEPT ![w] = {}]

Stops ==
  /\ UNCHANGED <<events, moved, dropped>>
  /\ Written' = [w \in Runs |-> {}]

Deletes(e) == events' = events \ {e} /\ UNCHANGED <<moved, dropped>> /\ Written' = Written

LEMMA KindsOfRunSteps ==
  ASSUME IInv, NEW w \in Runs, RunStep(w)
  PROVE  Quiet \/ GivesUp(w) \/ Copies(w) \/ Reports(w)
<1>1. Only(w) /\ pc[w] \in Points /\ pc \in [Runs -> Points]
  BY RunStepOK, RunTypes DEF StepOK, IInv, TypeOK
<1>2. ASSUME pc[w] # "reply", pc'[w] # "reply" PROVE Written' = Written
  <2>1. Written' = [Written EXCEPT ![w] = {}]
    BY <1>1, <1>2, WrittenByOne
  <2> QED BY <1>2, <2>1 DEF Written
<1>3. ASSUME Drop(w) \/ Migrated(w) PROVE Written' = [Written EXCEPT ![w] = {}]
  <2>1. pc'[w] = "next"
    BY <1>1, <1>3 DEF Drop, Migrated, Leave, Goto
  <2> QED BY <1>1, <2>1, WrittenByOne
<1>4. CASE UpdateEvent(w) \/ CreateEvent(w)
  <2>1. pc[w] \in AtWork /\ pc[w] \in Writing \ {"reply"}
    BY <1>4 DEF UpdateEvent, CreateEvent, AtWork, Writing
  <2>2. CASE Drop(w) /\ UNCHANGED events
    BY <1>3, <2>1, <2>2 DEF GivesUp
  <2>3. CASE AwaitReply(w) /\ events' = (events \ Migrating(w)) \union {EventOf(w)}
    <3>1. pc'[w] = "reply" /\ Doc(w)' = Doc(w) /\ UNCHANGED <<moved, dropped>>
      BY <1>1, <2>3 DEF AwaitReply, GoesOn, Goto, Doc
    <3> QED BY <1>1, <2>1, <2>3, <3>1, WrittenByOne DEF Copies
  <2>4. Migrating(w) = {} => events \ Migrating(w) = events
    OBVIOUS
  <2> QED BY <1>4, <2>2, <2>3, <2>4 DEF UpdateEvent, CreateEvent
<1>5. CASE /\ ~UpdateEvent(w) /\ ~CreateEvent(w)
           /\ \/ Start(w) \/ NextDoc(w) \/ CursorFails(w) \/ FetchAnswers(w)
              \/ FindPerson(w) \/ FindEvent(w)
  <2>1. pc[w] # "reply" /\ UNCHANGED <<events, moved, dropped>>
    BY <1>5 DEF Start, NextDoc, CursorFails, FetchAnswers, FindPerson, FindEvent, GoesOn,
                NothingStored
  <2> QED BY <1>2, <1>5, <2>1, OnlyWritesWait DEF Quiet
<1>6. CASE /\ ~UpdateEvent(w) /\ ~CreateEvent(w)
           /\ \/ FindBook(w) \/ CheckBook(w) \/ InsertBook(w) \/ CheckPerson(w)
              \/ InsertPerson(w)
  <2>1. pc[w] \in AtWork /\ pc[w] # "reply" /\ events' = events
    BY <1>6 DEF FindBook, CheckBook, InsertBook, CheckPerson, InsertPerson, AtWork, Asking,
                NothingStored
  <2>2. Drop(w) \/ UNCHANGED <<moved, dropped>>
    BY <1>6 DEF FindBook, CheckBook, InsertBook, CheckPerson, InsertPerson, GoesOn
  <2> QED BY <1>2, <1>6, <1>3, <2>1, <2>2, OnlyWritesWait DEF Quiet, GivesUp
<1>7. CASE FetchFails(w) \/ DbFails(w)
  <2>1. pc[w] \in AtWork
    BY <1>1, <1>7 DEF FetchFails, DbFails, AtWork, Asking, Writing, Points
  <2> QED BY <1>7, <1>3, <2>1 DEF FetchFails, DbFails, NothingStored, GivesUp
<1>8. CASE WriteAnswered(w)
  BY <1>8, <1>3 DEF WriteAnswered, NothingStored, Reports
<1> QED BY <1>4, <1>5, <1>6, <1>7, <1>8 DEF RunStep

LEMMA KindsOfSteps ==
  ASSUME IInv, [Next]_vars
  PROVE  \/ Quiet \/ Stops
         \/ \E w \in Runs : GivesUp(w) \/ Copies(w) \/ Reports(w)
         \/ \E e \in events : Deletes(e)
<1>1. ASSUME NEW w \in Runs, RunStep(w)
      PROVE  Quiet \/ GivesUp(w) \/ Copies(w) \/ Reports(w)
  BY <1>1, KindsOfRunSteps
<1>2. UNCHANGED <<pc, list, at>> => Written' = Written
  BY DEF Written, Doc
<1>3. ASSUME ApiCreatesUser \/ ApiCreatesBook \/ ApiDeletesUser \/ UNCHANGED vars
      PROVE  Quiet
  BY <1>2, <1>3 DEF ApiCreatesUser, ApiCreatesBook, ApiDeletesUser, vars, Quiet
<1>4. ASSUME ApiDeletesEvent PROVE \E e \in events : Deletes(e)
  BY <1>2, <1>4 DEF ApiDeletesEvent, Deletes
<1>5. ASSUME Restart PROVE Stops
  <2>1. \A w \in Runs : pc'[w] # "reply"
    BY <1>5 DEF Restart, Active
  <2> QED BY <1>5, <2>1 DEF Restart, Stops, Written
<1> QED BY <1>1, <1>3, <1>4, <1>5 DEF Next, RunStep

LEMMA TransferStep ==
  IInv /\ IInv' /\ [Next]_vars => [Atomic!Next]_(Atomic!vars)
<1> SUFFICES ASSUME IInv, IInv', [Next]_vars PROVE [Atomic!Next]_(Atomic!vars)
  OBVIOUS
<1> DEFINE stored == {CopyOf(e) : e \in events}
           Ids == {e.id : e \in events}
<1>1. /\ \A e \in events : e.id \in Docs /\ CopyOf(e) = WholeCopy(e.id)
      /\ \A e \in events' : e.id \in Docs /\ CopyOf(e) = WholeCopy(e.id)
  <2>1. ASSUME NEW e \in events
        PROVE  e.id \in Docs /\ CopyOf(e) = WholeCopy(e.id)
    <3>1. e.id \in Docs /\ e.people \in Seq(Users)
      BY DEF IInv, TypeOK
    <3>2. /\ e.book.page = Page[e.id]
          /\ Len(e.people) = Len(People[e.id])
          /\ \A i \in DOMAIN e.people : e.people[i].userId = People[e.id][i]
      BY DEF IInv, EventsComplete
    <3> QED BY <3>1, <3>2, CopyIsWhole
  <2>2. ASSUME NEW e \in events'
        PROVE  e.id \in Docs /\ CopyOf(e) = WholeCopy(e.id)
    <3>1. e.id \in Docs /\ e.people \in Seq(Users)
      BY DEF IInv, TypeOK
    <3>2. /\ e.book.page = Page[e.id]
          /\ Len(e.people) = Len(People[e.id])
          /\ \A i \in DOMAIN e.people : e.people[i].userId = People[e.id][i]
      BY DEF IInv, EventsComplete
    <3> QED BY <3>1, <3>2, CopyIsWhole
  <2> QED BY <2>1, <2>2
<1>2. stored' = {CopyOf(e) : e \in events'}
  BY DEF CopyOf
<1>3. CASE Quiet
  BY <1>2, <1>3 DEF Quiet, Atomic!vars
<1>4. CASE Stops
  BY <1>2, <1>4 DEF Stops, Atomic!Stop, Atomic!Nothing, Atomic!Next
<1>5. ASSUME NEW w \in Runs, GivesUp(w)
      PROVE  Atomic!Next
  <2>1. Doc(w) \in Docs
    BY <1>5, DocTypes DEF IInv, RunOK, GivesUp
  <2>2. Written[w] \subseteq {Doc(w)}
    BY DEF Written
  <2>3. Atomic!GiveUp(w, Doc(w))
    BY <1>2, <1>5, <2>2 DEF GivesUp, Drop, Atomic!GiveUp
  <2> QED BY <2>1, <2>3 DEF Atomic!Next
<1>6. ASSUME NEW w \in Runs, Reports(w)
      PROVE  Atomic!Next
  <2>1. pc[w] \in AtWork
    BY <1>6 DEF Reports, AtWork, Writing
  <2>2. Doc(w) \in Docs
    BY <2>1, DocTypes DEF IInv, RunOK
  <2>3. Doc(w) \in Written[w]
    BY <1>6 DEF Written, Reports
  <2>4. Atomic!Report(w, Doc(w))
    BY <1>2, <1>6, <2>3 DEF Reports, Migrated, Atomic!Report
  <2> QED BY <2>2, <2>4 DEF Atomic!Next
<1>7. ASSUME NEW w \in Runs, Copies(w)
      PROVE  Atomic!Next
  <2>1. Doc(w) \in Docs /\ Doc(w) \notin Broken
    BY <1>7, DocTypes DEF IInv, RunOK, AtWork, Writing, Asking, Copies
  <2>2. EventOf(w).id = Doc(w) /\ events' = (events \ Migrating(w)) \union {EventOf(w)}
    BY <1>7 DEF EventOf, Copies
  <2>3. \A e \in events : e \in Migrating(w) <=> e.id = Doc(w)
    BY DEF Migrating
  <2>4. CopyOf(EventOf(w)) = WholeCopy(Doc(w))
    BY <1>1, <2>2
  <2>5. \A e \in events : e.id = Doc(w) => CopyOf(e) = WholeCopy(Doc(w))
    BY <1>1
  <2>6. stored' = stored \union {WholeCopy(Doc(w))}
    <3> HIDE DEF stored
    <3>1. \A c \in stored' : c \in stored \union {WholeCopy(Doc(w))}
      BY <1>2, <2>2, <2>4 DEF stored
    <3>2. \A e \in events : CopyOf(e) \in stored'
      BY <1>2, <2>2, <2>3, <2>4, <2>5
    <3>3. WholeCopy(Doc(w)) \in stored'
      BY <1>2, <2>2, <2>4
    <3> QED BY <3>1, <3>2, <3>3 DEF stored
  <2>7. /\ UNCHANGED <<moved, dropped>>
        /\ Written' = [Written EXCEPT ![w] = {Doc(w)}] /\ Written[w] = {}
    BY <1>7 DEF Copies, Written
  <2>8. Atomic!Write(w, Doc(w))
    BY <2>1, <2>6, <2>7 DEF Atomic!Write, WholeCopy
  <2> QED BY <2>1, <2>8 DEF Atomic!Next
<1>8. ASSUME NEW e \in events, Deletes(e)
      PROVE  Atomic!Next
  <2>1. \A f \in events \ {e} : CopyOf(f) # CopyOf(e)
    <3> SUFFICES ASSUME NEW f \in events, f # e PROVE CopyOf(f) # CopyOf(e)
      OBVIOUS
    <3>1. f.id # e.id
      BY DEF IInv, NoCopies
    <3> QED BY <3>1 DEF CopyOf
  <2>2. stored' = stored \ {CopyOf(e)}
    BY <1>2, <1>8, <2>1 DEF Deletes
  <2>3. CopyOf(e) \in stored /\ Atomic!Delete(CopyOf(e))
    BY <1>8, <2>2 DEF Atomic!Delete, Deletes
  <2> QED BY <2>3 DEF Atomic!Next
<1> QED BY <1>3, <1>4, <1>5, <1>6, <1>7, <1>8, KindsOfSteps

-----------------------------------------------------------------------------
\* The invariant behind the theorems that follow.
THEOREM Invariance == Spec => []IInv
  BY InitOK, NextOK, PTL DEF Spec

\* The variables keep their types: a run is always at one of its awaits, with
\* a book and users out of the collections.
THEOREM TypeCorrect == Spec => []TypeOK
<1>1. IInv => TypeOK
  BY DEF IInv
<1> QED BY <1>1, Invariance, PTL

\* However many runs overlap, with clients creating and deleting meanwhile, an
\* event in the new database is whole: its book, and everyone listed, in order.
THEOREM EventsAreWhole == Spec => []EventsComplete
<1>1. IInv => EventsComplete
  BY DEF IInv
<1> QED BY <1>1, Invariance, PTL

\* No run makes a second copy of a book, a user or an event.
THEOREM NothingTwice == Spec => []NoCopies
<1>1. IInv => NoCopies
  BY DEF IInv
<1> QED BY <1>1, Invariance, PTL

\* A run passes no event over, and one that nothing came in the way of migrates
\* every sound event: running the migration again is all the recovery there is
\* to do.
THEOREM RunsMigrateWhatTheyCan == Spec => []MigratesWhatItCan
<1>1. IInv => MigratesWhatItCan
  BY AccountedIsNoneSkipped, CalmIsClean DEF MigratesWhatItCan
<1> QED BY <1>1, Invariance, PTL

\* Migrating an event, with all its queries, the other runs and requests, and
\* whatever fails, implements copying it whole in one step and reporting it only
\* then; an event given up is left alone, or was copied without word of it.
THEOREM MigrationIsAtomic == Spec => Transfer
<1>1. Init => Atomic!Init
  BY DEF Init, Atomic!Init, Atomic!Nothing, Written
<1>2. IInv /\ IInv' /\ [Next]_vars => [Atomic!Next]_(Atomic!vars)
  BY TransferStep
<1> QED BY <1>1, <1>2, Invariance, PTL DEF Spec, Transfer, Atomic!Spec
=============================================================================
