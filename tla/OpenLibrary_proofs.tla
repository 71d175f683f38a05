------------------------- MODULE OpenLibrary_proofs -------------------------
(***************************************************************************)
(* Proofs about OpenLibrary, for any time-out, pause, number of attempts   *)
(* and authors.                                                            *)
(*                                                                         *)
(* Which calls can be under way follows from the await the handler is at   *)
(* (Shape).  The time since the request is bounded by what the call under  *)
(* way has taken with all its attempts (Spent), after what the search      *)
(* before it may have taken (Start); since no attempt outlasts its timer   *)
(* that never exceeds the budget of the call (SpentFits).                  *)
(***************************************************************************)
EXTENDS OpenLibrary, TLAPS

UnderWay == {"sent", "pause"}

Shape ==
  /\ \A c \in Calls : call[c].st \in UnderWay => call[c].attempt >= 1
  /\ \A c \in Calls : call[c].st = "pause" => call[c].attempt < maxAttempts(c)
  /\ call["search"].st \in UnderWay <=> pc = "search"
  /\ call["author"].st \in UnderWay <=> pc = "authors"
  /\ call["work"].st \in UnderWay => pc = "parts"
  /\ \A c \in Parts : call[c].st \in UnderWay => pc = "parts" \/ answer = "unavailable"
  /\ pc \in {"idle", "search"} => \A c \in Calls \ {"search"} : call[c].st = "idle"
  /\ pc = "idle" => call["search"].st = "idle"
  /\ pc = "search" => ask.kind # "get"
  /\ pc \in {"parts", "authors"} => ask.kind # "search"
  /\ pc \in {"idle", "search", "parts"} => names = <<>>
  /\ pc = "parts" =>
       /\ \A c \in Parts : call[c].st # "idle"
       /\ \E c \in Parts : call[c].st \in UnderWay
  /\ pc = "authors" =>
       /\ call["work"].st = "ok"
       /\ \A c \in Parts : call[c].st \in Ended
       /\ Len(names) < ask.authors
  /\ answer = "none" <=> pc # "done"

\* When the attempt n of a call is sent, after it was first.
Before(n) ==
  (n - 1) * OL_REQUEST_TIMEOUT + OL_RETRY_DELAY * ((n * (n - 1)) \div 2)

\* How long call c has been under way.
Spent(c) ==
  IF call[c].st = "pause" THEN Budget(call[c].attempt) + call[c].age
                          ELSE Before(call[c].attempt) + call[c].age

\* What passed before getBook, at most.
Start == IF ask.kind = "find" THEN Budget(OL_MAX_ATTEMPTS) ELSE 0

\* When author n is asked for, at the latest.
ByAuthor(n) == Start + Budget(OL_MAX_ATTEMPTS) + n * OL_REQUEST_TIMEOUT

OnTime ==
  /\ pc = "idle" => elapsed = 0
  /\ pc = "search" => elapsed <= Spent("search")
  /\ pc = "parts" => \A c \in Parts : call[c].st \in UnderWay => elapsed <= Start + Spent(c)
  /\ pc = "authors" =>
       elapsed <= ByAuthor(Len(names)) + call["author"].age

IInv == TypeOK /\ Shape /\ BestEffort /\ BookIsWhole /\ OnTime
-----------------------------------------------------------------------------
\* The budget of n attempts, attempt by attempt.
LEMMA Products ==
  ASSUME NEW a \in Nat, NEW b \in Nat, NEW c \in Nat
  PROVE  /\ a * b \in Nat
         /\ (a + 1) * b = a * b + b
         /\ a <= b => a * c <= b * c /\ c * a <= c * b
         /\ c * (a + b) = c * a + c * b
<1>1. a * b \in Nat
  OBVIOUS
<1>2. (a + 1) * b = a * b + b /\ c * (a + b) = c * a + c * b
  OBVIOUS
<1>3. ASSUME a <= b PROVE a * c <= b * c /\ c * a <= c * b
  <2>1. PICK d \in Nat : b = a + d
    <3>1. b - a \in Nat /\ b = a + (b - a)
      BY <1>3
    <3> QED BY <3>1
  <2>2. b * c = a * c + d * c /\ c * b = c * a + c * d
    BY <2>1
  <2>3. a * c \in Nat /\ d * c \in Nat /\ c * a \in Nat /\ c * d \in Nat
    BY <2>1
  <2> QED BY <2>2, <2>3
<1> QED BY <1>1, <1>2, <1>3

\* The pauses before attempt n, in units of the first.
Pauses(n) == (n * (n - 1)) \div 2

LEMMA PausesAre ==
  ASSUME NEW n \in Nat \ {0}
  PROVE  Pauses(n) \in Nat /\ Pauses(n + 1) = Pauses(n) + n /\ Pauses(1) = 0
<1>1. n * (n - 1) \in Nat
  OBVIOUS
<1>2. (n + 1) * ((n + 1) - 1) = n * (n - 1) + 2 * n
  OBVIOUS
<1> DEFINE x == n * (n - 1)
<1>3. x \in Nat /\ (n + 1) * ((n + 1) - 1) = x + 2 * n
  BY <1>1, <1>2
<1>4. 1 * (1 - 1) = 0
  OBVIOUS
<1> HIDE DEF x
<1>5. x \div 2 \in Nat /\ (x + 2 * n) \div 2 = (x \div 2) + n
  BY <1>3
<1>6. Pauses(n) = x \div 2
  BY DEF Pauses, x
<1>7. Pauses(n + 1) = (x + 2 * n) \div 2
  BY <1>3 DEF Pauses
<1>8. Pauses(1) = 0
  BY <1>4 DEF Pauses
<1> QED BY <1>5, <1>6, <1>7, <1>8

LEMMA PausesGrow ==
  ASSUME NEW m \in Nat \ {0}, NEW n \in Nat \ {0}, m <= n
  PROVE  Pauses(m) <= Pauses(n)
<1> DEFINE x == m * (m - 1)
           y == n * (n - 1)
<1>1. m * (m - 1) <= n * (m - 1) /\ n * (m - 1) <= n * (n - 1)
  <2>1. m - 1 \in Nat /\ n - 1 \in Nat /\ m - 1 <= n - 1 /\ m \in Nat /\ n \in Nat
    OBVIOUS
  <2> QED BY <2>1, Products
<1>2. x \in Nat /\ y \in Nat /\ n * (m - 1) \in Nat
  OBVIOUS
<1>3. x <= y
  BY <1>1, <1>2
<1> HIDE DEF x, y
<1>4. x \div 2 <= y \div 2
  BY <1>2, <1>3
<1> QED BY <1>4 DEF Pauses, x, y

LEMMA Constants ==
  /\ OL_REQUEST_TIMEOUT \in Nat /\ OL_REQUEST_TIMEOUT >= 1
  /\ OL_RETRY_DELAY \in Nat
  /\ OL_MAX_ATTEMPTS \in Nat \ {0}
  BY TimeoutAssumption, DelayAssumption, AttemptsAssumption

LEMMA Budgets ==
  ASSUME NEW n \in Nat \ {0}
  PROVE  /\ Before(n) \in Nat /\ Budget(n) \in Nat
         /\ Before(1) = 0
         /\ Budget(n) = Before(n) + OL_REQUEST_TIMEOUT
         /\ Before(n + 1) = Budget(n) + OL_RETRY_DELAY * n
         /\ OL_RETRY_DELAY * n \in Nat
<1> DEFINE T == OL_REQUEST_TIMEOUT
           D == OL_RETRY_DELAY
           P == Pauses(n)
<1>1. T \in Nat /\ D \in Nat /\ P \in Nat /\ n \in Nat /\ n - 1 \in Nat
  BY Constants, PausesAre
<1>2. Pauses(n + 1) = P + n /\ Pauses(1) = 0
  BY PausesAre
<1>3. /\ Before(n) = (n - 1) * T + D * P
      /\ Budget(n) = n * T + D * P
      /\ Before(n + 1) = ((n + 1) - 1) * T + D * Pauses(n + 1)
      /\ Before(1) = (1 - 1) * T + D * Pauses(1)
  BY DEF Before, Budget, Pauses
<1> HIDE DEF T, D, P
<1>4. (n - 1) * T \in Nat /\ n * T \in Nat /\ D * P \in Nat /\ D * n \in Nat
  BY <1>1, Products
<1>5. n * T = (n - 1) * T + T
  <2>1. ((n - 1) + 1) * T = (n - 1) * T + T /\ (n - 1) + 1 = n
    BY <1>1, Products
  <2> QED BY <2>1
<1>6. D * (P + n) = D * P + D * n
  BY <1>1, Products
<1>7. Before(n + 1) = n * T + (D * P + D * n)
  <2>1. (n + 1) - 1 = n
    BY <1>1
  <2> QED BY <1>2, <1>3, <1>6, <2>1
<1>8. Before(1) = 0
  <2>1. 1 - 1 = 0 /\ 0 * T = 0 /\ D * 0 = 0
    BY <1>1
  <2> QED BY <1>2, <1>3, <2>1
<1>9. Before(n + 1) = Budget(n) + D * n /\ Budget(n) = Before(n) + T
  BY <1>1, <1>3, <1>4, <1>5, <1>7
<1> QED BY <1>3, <1>4, <1>8, <1>9 DEF T, D

LEMMA BudgetsGrow ==
  ASSUME NEW m \in Nat \ {0}, NEW n \in Nat \ {0}, m <= n
  PROVE  Budget(m) <= Budget(n)
<1> DEFINE T == OL_REQUEST_TIMEOUT
           D == OL_RETRY_DELAY
           P == Pauses(m)
           Q == Pauses(n)
<1>1. T \in Nat /\ D \in Nat /\ P \in Nat /\ Q \in Nat /\ P <= Q
  BY Constants, PausesAre, PausesGrow
<1>2. Budget(m) = m * T + D * P /\ Budget(n) = n * T + D * Q
  BY DEF Budget, Pauses
<1> HIDE DEF T, D, P, Q
<1>3. m * T <= n * T /\ D * P <= D * Q
  BY <1>1, Products
<1>4. m * T \in Nat /\ n * T \in Nat /\ D * P \in Nat /\ D * Q \in Nat
  BY <1>1, Products
<1> QED BY <1>2, <1>3, <1>4
-----------------------------------------------------------------------------
\* The calls, whichever the request is at.
CallRecords == [st : {"idle", "sent", "pause"} \union Ended, attempt : Nat, age : Nat]

CallsOK(calls) ==
  /\ calls \in [Calls -> CallRecords]
  /\ \A c \in Calls :
       /\ calls[c].attempt <= maxAttempts(c)
       /\ calls[c].st = "sent" => calls[c].age <= OL_REQUEST_TIMEOUT
       /\ calls[c].st = "pause" => calls[c].age <= OL_RETRY_DELAY * calls[c].attempt
       /\ calls[c].st \in UnderWay => calls[c].attempt >= 1
       /\ calls[c].st = "pause" => calls[c].attempt < maxAttempts(c)

LEMMA CallsAreOK ==
  ASSUME TypeOK, Shape
  PROVE  CallsOK(call)
  BY DEF TypeOK, Shape, CallsOK, CallRecords

LEMMA Attempts ==
  ASSUME NEW c \in Calls
  PROVE  /\ maxAttempts(c) \in Nat \ {0} /\ maxAttempts(c) <= OL_MAX_ATTEMPTS
         /\ c \notin {"search", "work"} => maxAttempts(c) = 1
  BY Constants DEF maxAttempts

LEMMA CallFields ==
  ASSUME NEW calls, CallsOK(calls), NEW c \in Calls
  PROVE  /\ calls[c] \in CallRecords
         /\ calls[c].st \in {"idle", "sent", "pause"} \union Ended
         /\ calls[c].attempt \in Nat /\ calls[c].age \in Nat
  BY DEF CallsOK, CallRecords

LEMMA Sends ==
  ASSUME NEW calls, CallsOK(calls), NEW C \in SUBSET Calls, NEW n \in Nat \ {0},
         \A c \in C : n <= maxAttempts(c)
  PROVE  /\ CallsOK(Send(calls, C, n))
         /\ \A c \in C : /\ Send(calls, C, n)[c].st = "sent"
                         /\ Send(calls, C, n)[c].attempt = n
                         /\ Send(calls, C, n)[c].age = 0
         /\ \A c \in Calls \ C : Send(calls, C, n)[c] = calls[c]
<1> DEFINE sent == [st |-> "sent", attempt |-> n, age |-> 0]
           new == Send(calls, C, n)
<1>1. sent \in CallRecords /\ sent.st = "sent" /\ sent.attempt = n /\ sent.age = 0
  BY DEF CallRecords
<1>2. new = [c \in Calls |-> IF c \in C THEN sent ELSE calls[c]]
  BY DEF Send
<1>3. calls \in [Calls -> CallRecords]
  BY DEF CallsOK
<1> HIDE DEF sent, new
<1>4. /\ new \in [Calls -> CallRecords]
      /\ \A c \in C : new[c] = sent
      /\ \A c \in Calls \ C : new[c] = calls[c]
  BY <1>1, <1>2, <1>3
<1>5. ASSUME NEW c \in Calls
      PROVE  /\ new[c].attempt <= maxAttempts(c)
             /\ new[c].st = "sent" => new[c].age <= OL_REQUEST_TIMEOUT
             /\ new[c].st = "pause" => new[c].age <= OL_RETRY_DELAY * new[c].attempt
             /\ new[c].st \in UnderWay => new[c].attempt >= 1
             /\ new[c].st = "pause" => new[c].attempt < maxAttempts(c)
  <2>1. CASE c \in C
    BY <1>1, <1>4, <2>1, Constants
  <2>2. CASE c \notin C
    BY <1>4, <2>2 DEF CallsOK
  <2> QED BY <2>1, <2>2
<1>6. CallsOK(new)
  BY <1>4, <1>5 DEF CallsOK
<1> QED BY <1>1, <1>4, <1>6 DEF new

LEMMA Endings ==
  ASSUME CallsOK(call), NEW c \in Calls, call[c].st = "sent",
         NEW st \in Ended \union {"pause"},
         st = "pause" => call[c].attempt < maxAttempts(c)
  PROVE  /\ CallsOK(End(c, st))
         /\ End(c, st)[c].st = st /\ End(c, st)[c].age = 0
         /\ End(c, st)[c].attempt = call[c].attempt
         /\ \A d \in Calls \ {c} : End(c, st)[d] = call[d]
<1> DEFINE rec == [st |-> st, attempt |-> call[c].attempt, age |-> 0]
           new == End(c, st)
<1>1. /\ call[c].attempt \in Nat /\ call[c].attempt >= 1
      /\ call[c].attempt <= maxAttempts(c) /\ call \in [Calls -> CallRecords]
  BY CallFields DEF CallsOK, UnderWay
<1>2. rec \in CallRecords /\ rec.st = st /\ rec.attempt = call[c].attempt /\ rec.age = 0
  BY <1>1 DEF CallRecords
<1>3. new = [call EXCEPT ![c] = rec]
  BY DEF End
<1> HIDE DEF rec, new
<1>4. /\ new \in [Calls -> CallRecords] /\ new[c] = rec
      /\ \A d \in Calls \ {c} : new[d] = call[d]
  BY <1>1, <1>2, <1>3
<1>5. OL_RETRY_DELAY * call[c].attempt \in Nat
  BY <1>1, Constants, Products
<1>6. ASSUME NEW d \in Calls
      PROVE  /\ new[d].attempt <= maxAttempts(d)
             /\ new[d].st = "sent" => new[d].age <= OL_REQUEST_TIMEOUT
             /\ new[d].st = "pause" => new[d].age <= OL_RETRY_DELAY * new[d].attempt
             /\ new[d].st \in UnderWay => new[d].attempt >= 1
             /\ new[d].st = "pause" => new[d].attempt < maxAttempts(d)
  <2>1. CASE d = c
    <3>1. new[d].st # "sent"
      BY <1>2, <1>4, <2>1 DEF Ended
    <3>2. 0 <= OL_RETRY_DELAY * call[c].attempt
      BY <1>5
    <3> QED BY <1>1, <1>2, <1>4, <2>1, <3>1, <3>2
  <2>2. CASE d # c
    BY <1>4, <2>2 DEF CallsOK
  <2> QED BY <2>1, <2>2
<1>7. CallsOK(new)
  BY <1>4, <1>6 DEF CallsOK
<1> QED BY <1>2, <1>4, <1>7 DEF new

LEMMA SpentFits ==
  ASSUME CallsOK(call), NEW c \in Calls, call[c].st \in UnderWay
  PROVE  /\ Spent(c) \in Nat /\ Spent(c) <= Budget(OL_MAX_ATTEMPTS)
         /\ Budget(OL_MAX_ATTEMPTS) \in Nat
<1> DEFINE n == call[c].attempt
<1>1. /\ n \in Nat \ {0} /\ call[c].age \in Nat /\ n <= maxAttempts(c)
      /\ call[c].st = "sent" => call[c].age <= OL_REQUEST_TIMEOUT
      /\ call[c].st = "pause" => call[c].age <= OL_RETRY_DELAY * n
      /\ call[c].st = "pause" => n < maxAttempts(c)
  BY CallFields DEF CallsOK
<1>2. maxAttempts(c) \in Nat /\ OL_MAX_ATTEMPTS \in Nat \ {0} /\ maxAttempts(c) <= OL_MAX_ATTEMPTS
  BY Attempts, Constants
<1> HIDE DEF n
<1>3. /\ Before(n) \in Nat /\ Budget(n) \in Nat
      /\ Budget(n) = Before(n) + OL_REQUEST_TIMEOUT
      /\ Before(n + 1) = Budget(n) + OL_RETRY_DELAY * n
      /\ OL_RETRY_DELAY * n \in Nat /\ OL_REQUEST_TIMEOUT \in Nat
      /\ Budget(OL_MAX_ATTEMPTS) \in Nat
  BY <1>1, <1>2, Budgets, Constants
<1>4. CASE call[c].st = "sent"
  <2>1. Spent(c) = Before(n) + call[c].age
    BY <1>4 DEF Spent, n
  <2>2. Budget(n) <= Budget(OL_MAX_ATTEMPTS)
    BY <1>1, <1>2, BudgetsGrow
  <2> QED BY <1>1, <1>3, <1>4, <2>1, <2>2
<1>5. CASE call[c].st = "pause"
  <2>1. Spent(c) = Budget(n) + call[c].age
    BY <1>5 DEF Spent, n
  <2>2. n + 1 \in Nat \ {0} /\ n + 1 <= OL_MAX_ATTEMPTS
    BY <1>1, <1>2, <1>5
  <2>3. /\ Budget(n + 1) <= Budget(OL_MAX_ATTEMPTS)
        /\ Budget(n + 1) = Before(n + 1) + OL_REQUEST_TIMEOUT
    BY <1>2, <2>2, BudgetsGrow, Budgets
  <2> QED BY <1>1, <1>3, <1>5, <2>1, <2>3
<1> QED BY <1>4, <1>5 DEF UnderWay
-----------------------------------------------------------------------------
\* What the handler may be at after a step, and what has to be shown for each.
Rest == /\ ask \in [kind : {"search", "find", "get"}, authors : 0 .. MaxAuthors]
        /\ names \in Seq(Names) /\ Len(names) <= ask.authors
        /\ elapsed \in Nat

Failed(calls) == \E c \in {"search", "work"} : calls[c].st = "failed"

Whole ==
  /\ call["work"].st = "ok"
  /\ \A c \in Calls : call[c].st \in Ended \union {"idle"}
  /\ Len(names) = ask.authors

LEMMA TypesFrom ==
  ASSUME CallsOK(call'), Rest',
         pc' \in {"idle", "search", "parts", "authors", "done"},
         answer' \in {"none", "books", "book", "notFound", "badRequest", "unavailable"}
  PROVE  TypeOK'
  BY DEF CallsOK, CallRecords, Rest, TypeOK

LEMMA DoneOK ==
  ASSUME pc' = "done", Rest', CallsOK(call'),
         answer' \in {"books", "book", "notFound", "badRequest", "unavailable"},
         \A c \in {"search", "work", "author"} : call'[c].st \notin UnderWay,
         \A c \in Parts : call'[c].st \in UnderWay => answer' = "unavailable",
         answer' = "unavailable" <=> Failed(call'),
         answer' = "book" => Whole'
  PROVE  IInv'
<1>1. TypeOK'
  BY TypesFrom
<1>2. Shape'
  BY DEF Shape, CallsOK
<1>3. BestEffort' /\ BookIsWhole' /\ OnTime'
  BY DEF BestEffort, BookIsWhole, OnTime, Failed, Whole
<1> QED BY <1>1, <1>2, <1>3 DEF IInv

LEMMA PartsOK ==
  ASSUME pc' = "parts", answer' = "none", Rest', CallsOK(call'), ask'.kind # "search",
         names' = <<>>, ~Failed(call'),
         \A c \in {"search", "author"} : call'[c].st \notin UnderWay,
         \A c \in Parts : call'[c].st # "idle",
         \E c \in Parts : call'[c].st \in UnderWay,
         \A c \in Parts : call'[c].st \in UnderWay => elapsed' <= Start' + Spent(c)'
  PROVE  IInv'
<1>1. TypeOK'
  BY TypesFrom
<1>2. Shape'
  BY DEF Shape, CallsOK
<1>3. BestEffort' /\ BookIsWhole' /\ OnTime'
  BY DEF BestEffort, BookIsWhole, OnTime, Failed
<1> QED BY <1>1, <1>2, <1>3 DEF IInv

LEMMA AuthorsOK ==
  ASSUME pc' = "authors", answer' = "none", Rest', CallsOK(call'), ask'.kind # "search",
         Len(names') < ask'.authors, ~Failed(call'),
         call'["search"].st \notin UnderWay, call'["author"].st \in UnderWay,
         call'["work"].st = "ok", \A c \in Parts : call'[c].st \in Ended,
         elapsed' <= ByAuthor(Len(names))' + call'["author"].age
  PROVE  IInv'
<1>1. TypeOK'
  BY TypesFrom
<1>2. \A c \in Parts : call'[c].st \notin UnderWay
  BY DEF Ended, UnderWay
<1>3. Shape'
  BY <1>2 DEF Shape, CallsOK, Parts
<1>4. BestEffort' /\ BookIsWhole' /\ OnTime'
  BY DEF BestEffort, BookIsWhole, OnTime, Failed
<1> QED BY <1>1, <1>3, <1>4 DEF IInv

LEMMA SearchOK ==
  ASSUME pc' = "search", answer' = "none", Rest', CallsOK(call'), ask'.kind # "get",
         call'["search"].st \in UnderWay,
         \A c \in Calls \ {"search"} : call'[c].st = "idle", names' = <<>>,
         elapsed' <= Spent("search")'
  PROVE  IInv'
<1>1. TypeOK'
  BY TypesFrom
<1>2. /\ \A c \in Calls \ {"search"} : call'[c].st \notin UnderWay
      /\ "work" \in Calls \ {"search"} /\ "author" \in Calls \ {"search"}
      /\ Parts \subseteq Calls \ {"search"}
  BY DEF UnderWay, Calls, Parts
<1>3. Shape'
  BY <1>2 DEF Shape, CallsOK
<1>4. BestEffort' /\ BookIsWhole' /\ OnTime'
  BY <1>2 DEF BestEffort, BookIsWhole, OnTime, UnderWay
<1> QED BY <1>1, <1>3, <1>4 DEF IInv
-----------------------------------------------------------------------------
\* The steps of the handler.
LEMMA Starts == ASSUME TypeOK PROVE Start \in Nat /\ Budget(OL_MAX_ATTEMPTS) \in Nat
  BY Constants, Budgets DEF Start

LEMMA Lengths ==
  ASSUME NEW S, NEW s \in Seq(S)
  PROVE  /\ Len(s) \in Nat
         /\ \A x \in S : Append(s, x) \in Seq(S) /\ Len(Append(s, x)) = Len(s) + 1
  OBVIOUS

LEMMA Asked == ASSUME TypeOK PROVE ask.authors \in Nat
<1>1. ask.authors \in 0 .. MaxAuthors
  BY DEF TypeOK
<1> QED BY <1>1, AuthorsAssumption

LEMMA FirstAttempt ==
  1 \in Nat \ {0} /\ Before(1) = 0 /\ \A c \in Calls : 1 <= maxAttempts(c)
<1>1. 1 \in Nat \ {0}
  OBVIOUS
<1>2. Before(1) = 0
  BY <1>1, Budgets
<1>3. ASSUME NEW c \in Calls PROVE 1 <= maxAttempts(c)
  <2>1. maxAttempts(c) \in Nat \ {0}
    BY Attempts
  <2> QED BY <2>1
<1> QED BY <1>1, <1>2, <1>3

LEMMA SendsFirst ==
  ASSUME NEW calls, CallsOK(calls), NEW C \in SUBSET Calls
  PROVE  /\ CallsOK(Send(calls, C, 1))
         /\ \A c \in C : /\ Send(calls, C, 1)[c].st = "sent"
                         /\ Send(calls, C, 1)[c].attempt = 1
                         /\ Send(calls, C, 1)[c].age = 0
         /\ \A c \in Calls \ C : Send(calls, C, 1)[c] = calls[c]
<1>1. 1 \in Nat \ {0} /\ \A c \in C : 1 <= maxAttempts(c)
  BY FirstAttempt
<1> QED BY <1>1, Sends

LEMMA Authors ==
  ASSUME TypeOK, NEW n \in Nat
  PROVE  /\ ByAuthor(n) \in Nat
         /\ ByAuthor(0) = Start + Budget(OL_MAX_ATTEMPTS)
         /\ ByAuthor(n + 1) = ByAuthor(n) + OL_REQUEST_TIMEOUT
         /\ \A m \in Nat : n <= m => ByAuthor(n) <= ByAuthor(m)
<1> DEFINE S == Start + Budget(OL_MAX_ATTEMPTS)
           T == OL_REQUEST_TIMEOUT
<1>1. S \in Nat /\ T \in Nat
  BY Starts, Constants
<1>2. \A k : ByAuthor(k) = S + k * T
  BY DEF ByAuthor
<1>3. n * T \in Nat /\ (n + 1) * T = n * T + T /\ 0 * T = 0
  BY <1>1, Products
<1>4. \A m \in Nat : n <= m => n * T <= m * T /\ m * T \in Nat
  BY <1>1, Products
<1> HIDE DEF S, T
<1>5. ByAuthor(n) \in Nat /\ ByAuthor(0) = S /\ ByAuthor(n + 1) = ByAuthor(n) + T
  BY <1>1, <1>2, <1>3
<1>6. \A m \in Nat : n <= m => ByAuthor(n) <= ByAuthor(m)
  BY <1>1, <1>2, <1>3, <1>4
<1> QED BY <1>5, <1>6 DEF S, T

LEMMA GetBookOK ==
  ASSUME TypeOK, UNCHANGED <<ask, elapsed>>, NEW calls, CallsOK(calls), GetBook(calls),
         answer = "none", names = <<>>, ask.kind # "search", ~Failed(calls),
         calls["search"].st \notin UnderWay,
         \A c \in Calls \ {"search"} : calls[c].st = "idle",
         elapsed <= Start
  PROVE  IInv'
<1>1. Rest' /\ names' = <<>>
  BY DEF TypeOK, Rest, GetBook
<1>2. /\ Parts \subseteq Calls \ {"search"} /\ {"work", "author"} \subseteq Calls \ {"search"}
      /\ "author" \notin Parts /\ "search" \notin Parts /\ "idle" \notin UnderWay
      /\ "work" \in Parts /\ Parts \in SUBSET Calls /\ {"search", "author"} \subseteq Calls
  BY DEF Calls, Parts, UnderWay
<1>3. CASE pc' = "done" /\ answer' = "badRequest" /\ call' = calls
  BY <1>1, <1>2, <1>3, DoneOK
<1>4. CASE pc' = "parts" /\ answer' = answer /\ call' = Send(calls, Parts, 1)
  <2>1. /\ CallsOK(call')
        /\ \A c \in Parts : call'[c].st = "sent" /\ call'[c].attempt = 1 /\ call'[c].age = 0
        /\ \A c \in Calls \ Parts : call'[c] = calls[c]
    BY <1>2, <1>4, SendsFirst
  <2>2. ~Failed(call')
    BY <1>2, <2>1 DEF Failed
  <2>3. \A c \in Parts : elapsed' <= Start' + Spent(c)'
    <3>1. \A c \in Parts : Spent(c)' = 0
      <4>1. "sent" # "pause" /\ Before(1) = 0
        BY FirstAttempt
      <4> QED BY <2>1, <4>1 DEF Spent
    <3>2. Start' = Start /\ Start \in Nat /\ elapsed' = elapsed
      BY Starts DEF Start
    <3> QED BY <3>1, <3>2
  <2> QED BY <1>1, <1>2, <1>4, <2>1, <2>2, <2>3, PartsOK DEF UnderWay
<1> QED BY <1>3, <1>4 DEF GetBook, Answer

LEMMA HydrateOK ==
  ASSUME TypeOK, UNCHANGED <<ask, elapsed>>, NEW calls, CallsOK(calls),
         NEW ns \in Seq(Names), Len(ns) <= ask.authors,
         HydrateAuthors(calls, ns), answer = "none", ask.kind # "search",
         ~Failed(calls), calls["search"].st \notin UnderWay,
         calls["author"].st \notin UnderWay, calls["work"].st = "ok",
         \A c \in Parts : calls[c].st \in Ended,
         elapsed <= ByAuthor(Len(ns))
  PROVE  IInv'
<1>1. Rest' /\ names' = ns
  BY DEF TypeOK, Rest, HydrateAuthors
<1>2. Len(ns) \in Nat /\ ask.authors \in Nat
  <2>1. Len(ns) \in Nat
    BY Lengths
  <2>2. ask.authors \in Nat
    BY Asked
  <2> QED BY <2>1, <2>2
<1>3. CASE Len(ns) = ask.authors /\ pc' = "done" /\ answer' = "book" /\ call' = calls
  <2>1. \A c \in Calls : calls[c].st \in Ended \union {"idle"}
    <3>1. ASSUME NEW c \in Calls PROVE calls[c].st \in Ended \union {"idle"}
      <4>1. c \in Parts \/ c = "search" \/ c = "author"
        BY DEF Calls, Parts
      <4> QED BY <3>1, <4>1, CallFields DEF UnderWay
    <3> QED BY <3>1
  <2>2. Whole'
    BY <1>1, <1>3, <2>1 DEF Whole
  <2>3. /\ \A c \in {"search", "work", "author"} : call'[c].st \notin UnderWay
        /\ \A c \in Parts : call'[c].st \notin UnderWay
    BY <1>3 DEF UnderWay, Ended
  <2> QED BY <1>1, <1>3, <2>2, <2>3, DoneOK
<1>4. CASE /\ Len(ns) # ask.authors /\ pc' = "authors" /\ answer' = answer
           /\ call' = Send(calls, {"author"}, 1)
  <2>1. /\ CallsOK(call')
        /\ call'["author"].st = "sent" /\ call'["author"].age = 0
        /\ \A c \in Calls \ {"author"} : call'[c] = calls[c]
    <3>1. {"author"} \in SUBSET Calls
      BY DEF Calls
    <3> QED BY <1>4, <3>1, SendsFirst
  <2>2. Parts \subseteq Calls \ {"author"} /\ {"search", "work"} \subseteq Calls \ {"author"}
    BY DEF Parts, Calls
  <2>3. ~Failed(call')
    BY <2>1, <2>2 DEF Failed
  <2>4. Len(names') < ask'.authors
    BY <1>1, <1>2, <1>4
  <2>5. elapsed' <= ByAuthor(Len(names))' + call'["author"].age
    <3>1. ByAuthor(Len(names))' = ByAuthor(Len(ns)) /\ ByAuthor(Len(ns)) \in Nat
      BY <1>1, <1>2, Authors DEF ByAuthor, Start
    <3> QED BY <2>1, <3>1
  <2> QED BY <1>1, <1>4, <2>1, <2>2, <2>3, <2>4, <2>5, AuthorsOK DEF UnderWay
<1> QED BY <1>3, <1>4 DEF HydrateAuthors, Answer

LEMMA PartEndsOK ==
  ASSUME IInv, UNCHANGED <<ask, elapsed>>, NEW c \in Parts, call[c].st = "sent",
         NEW calls, CallsOK(calls), calls[c].st \in Ended,
         \A d \in Calls \ {c} : calls[d] = call[d], ~Failed(calls) \/ pc # "parts",
         c = "work" => calls[c].st = "ok",
         PartEnds(calls)
  PROVE  IInv'
<1>1. TypeOK /\ Shape /\ BestEffort /\ OnTime /\ CallsOK(call)
  BY CallsAreOK DEF IInv
<1>2. /\ Parts \subseteq Calls /\ c \in Calls /\ c # "search" /\ c # "author"
      /\ "search" \in Calls /\ "author" \in Calls /\ "work" \in Parts
      /\ call[c].st \in UnderWay /\ \A x \in Ended : x \notin UnderWay
  BY DEF Parts, Calls, UnderWay, Ended
<1>3. calls["search"] = call["search"] /\ calls["author"] = call["author"]
  BY <1>2
<1>4. CASE pc = "parts" /\ \A d \in Parts : calls[d].st \in Ended
  <2>1. answer = "none" /\ ask.kind # "search" /\ ~Failed(calls)
    BY <1>1, <1>4 DEF Shape
  <2>2. /\ calls["search"].st \notin UnderWay /\ calls["author"].st \notin UnderWay
    BY <1>1, <1>3, <1>4 DEF Shape
  <2>3. calls["work"].st = "ok"
    BY <1>2, <1>4, <2>1 DEF Failed, Ended
  <2>4. elapsed <= ByAuthor(0)
    <3>1. elapsed <= Start + Spent(c)
      BY <1>1, <1>2, <1>4 DEF OnTime
    <3>2. /\ Spent(c) \in Nat /\ Spent(c) <= Budget(OL_MAX_ATTEMPTS)
          /\ Budget(OL_MAX_ATTEMPTS) \in Nat /\ Start \in Nat /\ elapsed \in Nat
      BY <1>1, <1>2, SpentFits, Starts DEF TypeOK
    <3>3. ByAuthor(0) = Start + Budget(OL_MAX_ATTEMPTS)
      BY <1>1, Authors
    <3> QED BY <3>1, <3>2, <3>3
  <2>5. <<>> \in Seq(Names) /\ Len(<<>>) = 0 /\ 0 <= ask.authors
    BY <1>1, Asked
  <2>6. HydrateAuthors(calls, <<>>)
    BY <1>4 DEF PartEnds
  <2> QED BY <1>1, <1>4, <2>1, <2>2, <2>3, <2>4, <2>5, <2>6, HydrateOK
<1>5. CASE pc = "parts" /\ ~\A d \in Parts : calls[d].st \in Ended
  <2>1. call' = calls /\ UNCHANGED <<pc, names, answer>>
    BY <1>5 DEF PartEnds
  <2>2. \A d \in Parts : calls[d].st # "idle"
    BY <1>1, <1>2, <1>5 DEF Shape, Ended
  <2>3. \E d \in Parts : calls[d].st \in UnderWay
    <3>1. PICK d \in Parts : calls[d].st \notin Ended
      BY <1>5
    <3>2. calls[d].st \in {"idle", "sent", "pause"} \union Ended
      BY <1>2, CallFields
    <3> QED BY <2>2, <3>1, <3>2 DEF UnderWay
  <2>4. \A d \in Parts : calls[d].st \in UnderWay => elapsed' <= Start' + Spent(d)'
    <3>1. ASSUME NEW d \in Parts, calls[d].st \in UnderWay
          PROVE  elapsed <= Start + Spent(d) /\ Spent(d)' = Spent(d)
      <4>1. d # c /\ calls[d] = call[d]
        BY <1>2, <3>1
      <4> QED BY <1>1, <1>5, <2>1, <3>1, <4>1 DEF OnTime, Spent
    <3>2. Start' = Start
      BY DEF Start
    <3> QED BY <3>1, <3>2
  <2>5. Rest'
    BY <1>1, <2>1 DEF TypeOK, Rest
  <2>6. /\ answer = "none" /\ ask.kind # "search" /\ ~Failed(calls) /\ names = <<>>
        /\ \A d \in {"search", "author"} : calls[d].st \notin UnderWay
    BY <1>1, <1>3, <1>5 DEF Shape
  <2> QED BY <1>5, <2>1, <2>2, <2>3, <2>4, <2>5, <2>6, PartsOK
<1>6. CASE pc # "parts"
  <2>1. call' = calls /\ UNCHANGED <<pc, names, answer>>
    BY <1>6 DEF PartEnds
  <2>2. pc = "done" /\ answer = "unavailable" /\ c # "work"
    BY <1>1, <1>2, <1>6 DEF Shape
  <2>3. Rest'
    BY <1>1, <2>1 DEF TypeOK, Rest
  <2>4. calls["work"] = call["work"]
    BY <1>2, <2>2
  <2>5. \A d \in {"search", "work", "author"} : calls[d].st \notin UnderWay
    BY <1>1, <1>3, <2>2, <2>4 DEF Shape
  <2>6. Failed(calls)
    BY <1>1, <1>3, <2>2, <2>4 DEF BestEffort, Failed
  <2> QED BY <2>1, <2>2, <2>3, <2>5, <2>6, DoneOK
<1> QED BY <1>4, <1>5, <1>6

LEMMA ReceiveOK ==
  ASSUME IInv, Receive
  PROVE  IInv'
<1>1. /\ TypeOK /\ Shape /\ CallsOK(call) /\ pc = "idle" /\ answer = "none"
      /\ names = <<>> /\ elapsed = 0 /\ UNCHANGED <<ask, elapsed>>
      /\ \A c \in Calls : call[c].st = "idle"
  <2>1. TypeOK /\ Shape /\ OnTime /\ pc = "idle"
    BY DEF IInv, Receive
  <2> QED BY <2>1, CallsAreOK DEF Shape, OnTime, Receive
<1>2. /\ {"search", "work"} \subseteq Calls /\ "idle" \notin UnderWay /\ "search" \in Calls
      /\ {"search"} \in SUBSET Calls /\ "idle" # "failed"
  BY DEF Calls, UnderWay
<1>3. CASE ask.kind = "get"
  <2>1. GetBook(call) /\ ~Failed(call) /\ ask.kind # "search"
    BY <1>1, <1>2, <1>3 DEF Receive, Failed
  <2>2. elapsed <= Start
    BY <1>1, Starts
  <2> QED BY <1>1, <1>2, <2>1, <2>2, GetBookOK
<1>4. CASE ask.kind # "get"
  <2>1. call' = Send(call, {"search"}, 1) /\ pc' = "search" /\ UNCHANGED <<names, answer>>
    BY <1>4 DEF Receive
  <2>2. /\ CallsOK(call')
        /\ call'["search"].st = "sent" /\ call'["search"].attempt = 1
        /\ call'["search"].age = 0
        /\ \A c \in Calls \ {"search"} : call'[c] = call[c]
    BY <1>1, <1>2, <2>1, SendsFirst
  <2>3. Spent("search")' = 0
    <3>1. "sent" # "pause" /\ Before(1) = 0
      BY FirstAttempt
    <3> QED BY <2>2, <3>1 DEF Spent
  <2>4. Rest'
    BY <1>1, <2>1 DEF TypeOK, Rest
  <2> QED BY <1>1, <1>4, <2>1, <2>2, <2>3, <2>4, SearchOK DEF UnderWay
<1> QED BY <1>3, <1>4

\* A call for an author ends, either way.
LEMMA AuthorEndsOK ==
  ASSUME IInv, UNCHANGED <<ask, elapsed>>, call["author"].st = "sent",
         NEW st \in Ended, NEW name \in Names,
         HydrateAuthors(End("author", st), Append(names, name))
  PROVE  IInv'
<1> DEFINE calls == End("author", st)
           ns == Append(names, name)
<1>1. TypeOK /\ Shape /\ BestEffort /\ OnTime /\ CallsOK(call)
  BY CallsAreOK DEF IInv
<1>2. /\ "author" \in Calls /\ "author" \notin Parts /\ Parts \subseteq Calls
      /\ {"search", "work"} \subseteq Calls \ {"author"}
      /\ "sent" \in UnderWay /\ st \notin UnderWay
  BY DEF Calls, Parts, UnderWay, Ended
<1>3. /\ pc = "authors" /\ answer = "none" /\ ask.kind # "search"
      /\ call["work"].st = "ok" /\ \A c \in Parts : call[c].st \in Ended
      /\ Len(names) < ask.authors /\ call["search"].st \notin UnderWay
  BY <1>1, <1>2 DEF Shape
<1>4. /\ CallsOK(calls) /\ calls["author"].st = st
      /\ \A c \in Calls \ {"author"} : calls[c] = call[c]
  <2>1. st \in Ended \union {"pause"} /\ st # "pause"
    BY DEF Ended
  <2> QED BY <1>1, <1>2, <2>1, Endings
<1>5. /\ ns \in Seq(Names) /\ Len(ns) = Len(names) + 1 /\ Len(names) \in Nat
      /\ ask.authors \in Nat
  <2>1. names \in Seq(Names)
    BY <1>1 DEF TypeOK
  <2> QED BY <1>1, <2>1, Lengths, Asked
<1>6. elapsed <= ByAuthor(Len(ns))
  <2>1. elapsed <= ByAuthor(Len(names)) + call["author"].age
    BY <1>1, <1>3 DEF OnTime
  <2>2. call["author"].age <= OL_REQUEST_TIMEOUT /\ call["author"].age \in Nat
    BY <1>1, <1>2, CallFields DEF CallsOK
  <2>3. /\ ByAuthor(Len(names)) \in Nat /\ elapsed \in Nat /\ OL_REQUEST_TIMEOUT \in Nat
        /\ ByAuthor(Len(names) + 1) = ByAuthor(Len(names)) + OL_REQUEST_TIMEOUT
    BY <1>1, <1>5, Authors, Constants DEF TypeOK
  <2>4. ByAuthor(Len(ns)) = ByAuthor(Len(names)) + OL_REQUEST_TIMEOUT
    BY <1>5, <2>3
  <2> QED BY <2>1, <2>2, <2>3, <2>4
<1>7. ~Failed(calls)
  BY <1>1, <1>2, <1>3, <1>4 DEF BestEffort, Failed
<1> HIDE DEF calls, ns
<1>8. HydrateAuthors(calls, ns) /\ Len(ns) <= ask.authors
  BY <1>3, <1>5 DEF calls, ns
<1>9. /\ calls["search"].st \notin UnderWay /\ calls["author"].st \notin UnderWay
      /\ calls["work"].st = "ok" /\ \A c \in Parts : calls[c].st \in Ended
  BY <1>2, <1>3, <1>4
<1> QED BY <1>1, <1>3, <1>4, <1>5, <1>6, <1>7, <1>8, <1>9, HydrateOK

\* The search ends the request, or getBook goes on.
LEMMA SearchEndsOK ==
  ASSUME IInv, UNCHANGED <<ask, elapsed>>, call["search"].st = "sent",
         NEW st \in Ended,
         \/ /\ pc' = "done" /\ call' = End("search", st) /\ UNCHANGED names
            /\ \/ st = "ok" /\ answer' \in {"notFound", "books"}
               \/ st = "failed" /\ answer' = "unavailable"
         \/ st = "ok" /\ ask.kind = "find" /\ GetBook(End("search", st))
  PROVE  IInv'
<1> DEFINE calls == End("search", st)
<1>1. TypeOK /\ Shape /\ BestEffort /\ OnTime /\ CallsOK(call)
  BY CallsAreOK DEF IInv
<1>2. /\ "search" \in Calls /\ Parts \subseteq Calls \ {"search"}
      /\ {"author", "work"} \subseteq Calls \ {"search"}
      /\ "sent" \in UnderWay /\ "idle" \notin UnderWay /\ st \notin UnderWay
      /\ "idle" # "failed" /\ "ok" # "failed"
  BY DEF Calls, Parts, UnderWay, Ended
<1>3. /\ pc = "search" /\ answer = "none" /\ names = <<>>
      /\ \A c \in Calls \ {"search"} : call[c].st = "idle"
  BY <1>1, <1>2 DEF Shape
<1>4. /\ CallsOK(calls) /\ calls["search"].st = st
      /\ \A c \in Calls \ {"search"} : calls[c] = call[c]
  <2>1. st \in Ended \union {"pause"} /\ st # "pause"
    BY DEF Ended
  <2> QED BY <1>1, <1>2, <2>1, Endings
<1>5. Failed(calls) <=> st = "failed"
  BY <1>2, <1>3, <1>4 DEF Failed
<1> HIDE DEF calls
<1>6. CASE /\ pc' = "done" /\ call' = calls /\ UNCHANGED names
           /\ \/ st = "ok" /\ answer' \in {"notFound", "books"}
              \/ st = "failed" /\ answer' = "unavailable"
  <2>1. Rest'
    BY <1>1, <1>6 DEF TypeOK, Rest
  <2>2. /\ \A c \in {"search", "work", "author"} : calls[c].st \notin UnderWay
        /\ \A c \in Parts : calls[c].st \notin UnderWay
    BY <1>2, <1>3, <1>4
  <2> QED BY <1>2, <1>4, <1>5, <1>6, <2>1, <2>2, DoneOK
<1>7. CASE st = "ok" /\ ask.kind = "find" /\ GetBook(calls)
  <2>1. elapsed <= Start
    <3>1. elapsed <= Spent("search")
      BY <1>1, <1>3 DEF OnTime
    <3>2. /\ Spent("search") \in Nat /\ Spent("search") <= Budget(OL_MAX_ATTEMPTS)
          /\ Budget(OL_MAX_ATTEMPTS) \in Nat /\ elapsed \in Nat
      BY <1>1, <1>2, SpentFits DEF TypeOK
    <3>3. Start = Budget(OL_MAX_ATTEMPTS)
      BY <1>7 DEF Start
    <3> QED BY <3>1, <3>2, <3>3
  <2> QED BY <1>1, <1>2, <1>3, <1>4, <1>5, <1>7, <2>1, GetBookOK
<1> QED BY <1>6, <1>7 DEF calls

LEMMA CallsAre ==
  /\ Calls = Parts \union {"search", "author"}
  /\ "search" \notin Parts /\ "author" \notin Parts /\ "search" # "author"
  /\ "work" \in Parts /\ Parts = {"work", "ratings", "edition"}
  BY DEF Calls, Parts

LEMMA SucceedOK ==
  ASSUME IInv, NEW c \in Calls, Succeed(c)
  PROVE  IInv'
<1>1. /\ call[c].st = "sent" /\ UNCHANGED <<ask, elapsed>> /\ "ok" \in Ended
      /\ TypeOK /\ Shape /\ BestEffort /\ CallsOK(call)
  BY CallsAreOK DEF Succeed, Ended, IInv
<1>2. CASE c = "search"
  <2>1. \/ /\ pc' = "done" /\ call' = End("search", "ok") /\ UNCHANGED names
           /\ answer' \in {"notFound", "books"}
        \/ ask.kind = "find" /\ GetBook(End("search", "ok"))
    BY <1>2, CallsAre DEF Succeed, Answer
  <2> QED BY <1>1, <1>2, <2>1, SearchEndsOK
<1>3. CASE c \in Parts
  <2>1. PartEnds(End(c, "ok"))
    BY <1>3, CallsAre DEF Succeed
  <2>2. /\ CallsOK(End(c, "ok")) /\ End(c, "ok")[c].st = "ok"
        /\ \A d \in Calls \ {c} : End(c, "ok")[d] = call[d]
    <3>1. "ok" \in Ended \union {"pause"} /\ "ok" # "pause"
      BY <1>1
    <3> QED BY <1>1, <3>1, Endings
  <2>3. ~Failed(End(c, "ok")) \/ pc # "parts"
    <3>1. ASSUME pc = "parts" PROVE ~Failed(End(c, "ok"))
      <4>1. ~\E d \in {"search", "work"} : call[d].st = "failed"
        BY <1>1, <3>1 DEF Shape, BestEffort
      <4>2. {"search", "work"} \subseteq Calls /\ "ok" # "failed"
        BY CallsAre
      <4> QED BY <2>2, <4>1, <4>2 DEF Failed
    <3> QED BY <3>1
  <2> QED BY <1>1, <1>3, <2>1, <2>2, <2>3, PartEndsOK
<1>4. CASE c = "author"
  <2>1. PICK name \in Names : HydrateAuthors(End("author", "ok"), Append(names, name))
    BY <1>4, CallsAre DEF Succeed
  <2> QED BY <1>1, <1>4, <2>1, AuthorEndsOK
<1> QED BY <1>2, <1>3, <1>4, CallsAre

\* The work failed: the caller is told at once.
LEMMA WorkFailsOK ==
  ASSUME IInv, UNCHANGED <<ask, elapsed, names>>, call["work"].st = "sent",
         pc' = "done", answer' = "unavailable", call' = End("work", "failed")
  PROVE  IInv'
<1>1. /\ TypeOK /\ Shape /\ CallsOK(call) /\ "work" \in Calls /\ "sent" \in UnderWay
      /\ {"search", "author"} \subseteq Calls \ {"work"} /\ "failed" \notin UnderWay
  BY CallsAreOK, CallsAre DEF IInv, UnderWay
<1>2. /\ CallsOK(call') /\ call'["work"].st = "failed"
      /\ \A d \in Calls \ {"work"} : call'[d] = call[d]
  <2>1. "failed" \in Ended \union {"pause"} /\ "failed" # "pause"
    BY DEF Ended
  <2> QED BY <1>1, <2>1, Endings
<1>3. \A c \in {"search", "work", "author"} : call'[c].st \notin UnderWay
  BY <1>1, <1>2 DEF Shape
<1>4. Rest'
  BY <1>1 DEF TypeOK, Rest
<1>5. Failed(call')
  BY <1>2 DEF Failed
<1> QED BY <1>2, <1>3, <1>4, <1>5, DoneOK

\* Another attempt, or the pause before it, changes nothing but the call.
LEMMA RetryOK ==
  ASSUME IInv, UNCHANGED <<ask, pc, names, answer, elapsed>>, CallsOK(call'),
         NEW c \in {"search", "work"}, call[c].st \in UnderWay, call'[c].st \in UnderWay,
         \A d \in Calls \ {c} : call'[d] = call[d],
         elapsed <= Spent(c) => elapsed <= Spent(c)',
         elapsed <= Start + Spent(c) => elapsed <= Start + Spent(c)'
  PROVE  IInv'
<1>1. /\ TypeOK /\ Shape /\ BestEffort /\ OnTime
      /\ "failed" \notin UnderWay /\ "idle" \notin UnderWay
  BY DEF IInv, UnderWay
<1>2. Rest' /\ Start' = Start
  BY <1>1 DEF TypeOK, Rest, Start
<1>3. CASE c = "search"
  <2>1. /\ pc = "search" /\ answer = "none" /\ ask.kind # "get" /\ names = <<>>
        /\ \A d \in Calls \ {"search"} : call[d].st = "idle"
        /\ elapsed <= Spent("search")
    BY <1>1, <1>3 DEF Shape, OnTime
  <2> QED BY <1>2, <1>3, <2>1, SearchOK
<1>4. CASE c = "work"
  <2>1. /\ pc = "parts" /\ answer = "none" /\ ask.kind # "search" /\ names = <<>>
        /\ \A d \in Parts : call[d].st # "idle"
        /\ \A d \in Parts : call[d].st \in UnderWay => elapsed <= Start + Spent(d)
    BY <1>1, <1>4 DEF Shape, OnTime
  <2>2. \A d \in {"search", "author"} : call'[d] = call[d] /\ call[d].st \notin UnderWay
    BY <1>1, <1>4, <2>1, CallsAre DEF Shape
  <2>3. ~Failed(call')
    BY <1>1, <1>4, <2>1, <2>2 DEF Failed, BestEffort
  <2>4. \A d \in Parts : call'[d].st # "idle"
    BY <1>1, <1>4, <2>1, CallsAre
  <2>5. ASSUME NEW d \in Parts, call'[d].st \in UnderWay
        PROVE  elapsed' <= Start' + Spent(d)'
    <3>1. CASE d = "work"
      BY <1>2, <1>4, <2>1, <3>1
    <3>2. CASE d # "work"
      <4>1. call'[d] = call[d]
        BY <1>4, <3>2, CallsAre
      <4> QED BY <1>2, <2>1, <2>5, <4>1 DEF Spent
    <3> QED BY <3>1, <3>2
  <2> QED BY <1>2, <1>4, <2>1, <2>2, <2>3, <2>4, <2>5, PartsOK, CallsAre
<1> QED BY <1>3, <1>4

LEMMA FailOK ==
  ASSUME IInv, NEW c \in Calls, Fail(c)
  PROVE  IInv'
<1>1. /\ call[c].st = "sent" /\ UNCHANGED <<ask, elapsed>> /\ "failed" \in Ended
      /\ "sent" \in UnderWay /\ "pause" \in UnderWay /\ "failed" # "pause"
      /\ TypeOK /\ Shape /\ BestEffort /\ CallsOK(call)
  BY CallsAreOK DEF Fail, Ended, UnderWay, IInv
<1>2. \/ /\ call[c].attempt < maxAttempts(c) /\ call' = End(c, "pause")
         /\ UNCHANGED <<pc, names, answer>>
      \/ Rejects(c, End(c, "failed"))
  BY DEF Fail
<1>3. CASE /\ call[c].attempt < maxAttempts(c) /\ call' = End(c, "pause")
           /\ UNCHANGED <<pc, names, answer>>
  <2> DEFINE n == call[c].attempt
  <2>1. /\ n \in Nat \ {0} /\ call[c].age \in Nat
        /\ call[c].age <= OL_REQUEST_TIMEOUT
    BY <1>1, CallFields DEF CallsOK
  <2>2. c \in {"search", "work"}
    <3>1. c \notin {"search", "work"} => maxAttempts(c) = 1
      BY Attempts
    <3> QED BY <1>3, <2>1, <3>1
  <2>3. /\ CallsOK(call') /\ call'[c].st = "pause" /\ call'[c].age = 0
        /\ call'[c].attempt = n /\ \A d \in Calls \ {c} : call'[d] = call[d]
    <3>1. "pause" \in Ended \union {"pause"}
      OBVIOUS
    <3> QED BY <1>1, <1>3, <3>1, Endings
  <2> HIDE DEF n
  <2>4. Spent(c) = Before(n) + call[c].age /\ Spent(c)' = Budget(n) + 0
    <3>1. "sent" # "pause"
      OBVIOUS
    <3> QED BY <1>1, <2>3, <3>1 DEF Spent, n
  <2>5. Before(n) \in Nat /\ Budget(n) = Before(n) + OL_REQUEST_TIMEOUT
    BY <2>1, Budgets
  <2>6. /\ elapsed <= Spent(c) => elapsed <= Spent(c)'
        /\ elapsed <= Start + Spent(c) => elapsed <= Start + Spent(c)'
    <3>1. elapsed \in Nat /\ Start \in Nat /\ OL_REQUEST_TIMEOUT \in Nat
      BY <1>1, Starts, Constants DEF TypeOK
    <3> QED BY <2>1, <2>4, <2>5, <3>1
  <2> QED BY <1>1, <1>3, <2>2, <2>3, <2>6, RetryOK
<1>4. ASSUME Rejects(c, End(c, "failed")) PROVE IInv'
  <2>1. CASE c = "search"
    <3>1. /\ pc' = "done" /\ answer' = "unavailable" /\ UNCHANGED names
          /\ call' = End("search", "failed")
      BY <1>4, <2>1, CallsAre DEF Rejects, Answer
    <3> QED BY <1>1, <2>1, <3>1, SearchEndsOK
  <2>2. CASE c = "work"
    <3>1. /\ pc' = "done" /\ answer' = "unavailable" /\ UNCHANGED names
          /\ call' = End("work", "failed")
      BY <1>4, <2>2, CallsAre DEF Rejects, Answer
    <3> QED BY <1>1, <2>2, <3>1, WorkFailsOK
  <2>3. CASE c \in {"ratings", "edition"}
    <3>1. PartEnds(End(c, "failed"))
      BY <1>4, <2>3, CallsAre DEF Rejects
    <3>2. /\ CallsOK(End(c, "failed")) /\ End(c, "failed")[c].st = "failed"
          /\ \A d \in Calls \ {c} : End(c, "failed")[d] = call[d]
      <4>1. "failed" \in Ended \union {"pause"}
        BY <1>1
      <4> QED BY <1>1, <4>1, Endings
    <3>3. ~Failed(End(c, "failed")) \/ pc # "parts"
      <4>1. ASSUME pc = "parts" PROVE ~Failed(End(c, "failed"))
        <5>1. ~\E d \in {"search", "work"} : call[d].st = "failed"
          BY <1>1, <4>1 DEF Shape, BestEffort
        <5>2. {"search", "work"} \subseteq Calls \ {c}
          BY <2>3, CallsAre
        <5> QED BY <3>2, <5>1, <5>2 DEF Failed
      <4> QED BY <4>1
    <3>4. c \in Parts /\ c # "work"
      BY <2>3, CallsAre
    <3> QED BY <1>1, <3>1, <3>2, <3>3, <3>4, PartEndsOK
  <2>4. CASE c = "author"
    <3>1. HydrateAuthors(End("author", "failed"), Append(names, NoName)) /\ NoName \in Names
      BY <1>4, <2>4, CallsAre DEF Rejects, Names
    <3> QED BY <1>1, <2>4, <3>1, AuthorEndsOK
  <2> QED BY <2>1, <2>2, <2>3, <2>4, CallsAre
<1> QED BY <1>2, <1>3, <1>4

LEMMA ResendOK ==
  ASSUME IInv, NEW c \in Calls, Resend(c)
  PROVE  IInv'
<1> DEFINE n == call[c].attempt
<1>1. /\ call[c].st = "pause" /\ call[c].age = OL_RETRY_DELAY * n
      /\ call' = Send(call, {c}, n + 1)
      /\ UNCHANGED <<ask, pc, names, answer, elapsed>>
      /\ "sent" \in UnderWay /\ "pause" \in UnderWay
      /\ TypeOK /\ CallsOK(call)
  BY CallsAreOK DEF Resend, UnderWay, IInv
<1>2. /\ n \in Nat \ {0} /\ n < maxAttempts(c) /\ maxAttempts(c) \in Nat
  BY <1>1, CallFields, Attempts DEF CallsOK
<1>3. c \in {"search", "work"}
  <2>1. c \notin {"search", "work"} => maxAttempts(c) = 1
    BY Attempts
  <2> QED BY <1>2, <2>1
<1> HIDE DEF n
<1>4. /\ CallsOK(call') /\ call'[c].st = "sent" /\ call'[c].age = 0
      /\ call'[c].attempt = n + 1 /\ \A d \in Calls \ {c} : call'[d] = call[d]
  <2> DEFINE m == n + 1
             C == {c}
  <2>1. C \in SUBSET Calls /\ m \in Nat \ {0} /\ \A d \in C : m <= maxAttempts(d)
    BY <1>2
  <2>2. call' = Send(call, C, m) /\ c \in C /\ Calls \ C = Calls \ {c}
    BY <1>1
  <2> HIDE DEF m, C
  <2>3. /\ CallsOK(call')
        /\ \A d \in C : call'[d].st = "sent" /\ call'[d].attempt = m /\ call'[d].age = 0
        /\ \A d \in Calls \ C : call'[d] = call[d]
    <3>1. /\ CallsOK(Send(call, C, m))
          /\ \A d \in C : /\ Send(call, C, m)[d].st = "sent"
                          /\ Send(call, C, m)[d].attempt = m
                          /\ Send(call, C, m)[d].age = 0
          /\ \A d \in Calls \ C : Send(call, C, m)[d] = call[d]
      <4>1. CallsOK(call)
        BY <1>1
      <4> QED BY <4>1, <2>1, Sends
    <3> QED BY <2>2, <3>1
  <2> QED BY <2>2, <2>3 DEF m
<1>5. Spent(c) = Budget(n) + OL_RETRY_DELAY * n /\ Spent(c)' = Before(n + 1) + 0
  <2>1. "sent" # "pause"
    OBVIOUS
  <2> QED BY <1>1, <1>4, <2>1 DEF Spent, n
<1>6. Spent(c)' = Spent(c)
  <2>1. /\ Budget(n) \in Nat /\ OL_RETRY_DELAY * n \in Nat
        /\ Before(n + 1) = Budget(n) + OL_RETRY_DELAY * n
    BY <1>2, Budgets
  <2> QED BY <1>5, <2>1
<1> QED BY <1>1, <1>3, <1>4, <1>6, RetryOK

LEMMA TickOK ==
  ASSUME IInv, Tick
  PROVE  IInv'
<1>1. /\ TypeOK /\ Shape /\ BestEffort /\ BookIsWhole /\ OnTime /\ CallsOK(call)
      /\ UNCHANGED <<ask, pc, names, answer>>
      /\ elapsed' = IF pc = "done" THEN elapsed ELSE elapsed + 1
  BY CallsAreOK DEF Tick, IInv
<1>2. Running = {c \in Calls : call[c].st \in UnderWay}
  BY DEF Running, UnderWay
<1>3. ASSUME NEW c \in Calls, call[c].st \notin UnderWay
      PROVE  call'[c] = call[c]
  BY <1>2, <1>3 DEF Tick
<1>4. ASSUME NEW c \in Calls, call[c].st \in UnderWay
      PROVE  /\ call'[c] \in CallRecords
             /\ call'[c].st = call[c].st /\ call'[c].attempt = call[c].attempt
             /\ call'[c].age = call[c].age + 1
             /\ call[c].st = "sent" => call[c].age < OL_REQUEST_TIMEOUT
             /\ call[c].st = "pause" => call[c].age < OL_RETRY_DELAY * call[c].attempt
  <2>1. call[c] \in CallRecords /\ call[c].age \in Nat
    BY <1>1, CallFields
  <2>2. call'[c] = [call[c] EXCEPT !.age = call[c].age + 1]
    BY <1>2, <1>4 DEF Tick
  <2>3. /\ call'[c] \in CallRecords
        /\ call'[c].st = call[c].st /\ call'[c].attempt = call[c].attempt
        /\ call'[c].age = call[c].age + 1
    BY <2>1, <2>2 DEF CallRecords
  <2>4. call[c].age < IF call[c].st = "sent" THEN OL_REQUEST_TIMEOUT
                      ELSE OL_RETRY_DELAY * call[c].attempt
    BY <1>2, <1>4 DEF Tick
  <2> QED BY <2>3, <2>4
<1>5. CallsOK(call')
  <2>1. call' \in [Calls -> CallRecords]
    <3>1. call' = [c \in Calls |-> call'[c]]
      BY DEF Tick
    <3>2. \A c \in Calls : call'[c] \in CallRecords
      BY <1>1, <1>3, <1>4, CallFields
    <3> QED BY <3>1, <3>2
  <2>2. ASSUME NEW c \in Calls
        PROVE  /\ call'[c].attempt <= maxAttempts(c)
               /\ call'[c].st = "sent" => call'[c].age <= OL_REQUEST_TIMEOUT
               /\ call'[c].st = "pause" => call'[c].age <= OL_RETRY_DELAY * call'[c].attempt
               /\ call'[c].st \in UnderWay => call'[c].attempt >= 1
               /\ call'[c].st = "pause" => call'[c].attempt < maxAttempts(c)
    <3>1. CASE call[c].st \notin UnderWay
      BY <1>1, <1>3, <3>1 DEF CallsOK
    <3>2. CASE call[c].st \in UnderWay
      <4> DEFINE most == OL_RETRY_DELAY * call[c].attempt
      <4>1. /\ call[c].age \in Nat /\ call[c].attempt \in Nat
            /\ OL_REQUEST_TIMEOUT \in Nat /\ most \in Nat
        BY <1>1, CallFields, Constants, Products
      <4>2. call[c].st = "pause" => call[c].age < most
        BY <1>4, <3>2
      <4>3. call'[c].st = "pause" => OL_RETRY_DELAY * call'[c].attempt = most
        BY <1>4, <3>2
      <4> HIDE DEF most
      <4>4. call'[c].st = "pause" => call'[c].age <= most
        BY <1>4, <3>2, <4>1, <4>2
      <4>5. call'[c].st = "sent" => call'[c].age <= OL_REQUEST_TIMEOUT
        BY <1>4, <3>2, <4>1
      <4>6. /\ call'[c].attempt <= maxAttempts(c) /\ call'[c].attempt >= 1
            /\ call'[c].st = "pause" => call'[c].attempt < maxAttempts(c)
        BY <1>1, <1>4, <3>2 DEF CallsOK
      <4> QED BY <4>3, <4>4, <4>5, <4>6
    <3> QED BY <3>1, <3>2
  <2> QED BY <2>1, <2>2 DEF CallsOK
<1>6. \A c \in Calls : call'[c].st = call[c].st
  BY <1>3, <1>4
<1>7. elapsed \in Nat /\ elapsed' \in Nat
  BY <1>1 DEF TypeOK
<1>8. Rest'
  BY <1>1, <1>7 DEF TypeOK, Rest
<1>9. ASSUME NEW c \in Calls, call[c].st \in UnderWay
      PROVE  Spent(c)' = Spent(c) + 1 /\ Spent(c) \in Nat
  <2> DEFINE before == IF call[c].st = "pause" THEN Budget(call[c].attempt)
                                               ELSE Before(call[c].attempt)
  <2>1. Spent(c) = before + call[c].age /\ Spent(c)' = before + call'[c].age
    BY <1>4, <1>9 DEF Spent
  <2>2. call[c].attempt \in Nat \ {0} /\ call[c].age \in Nat
    BY <1>1, <1>9, CallFields DEF CallsOK
  <2>3. before \in Nat
    BY <2>2, Budgets
  <2> HIDE DEF before
  <2> QED BY <1>4, <1>9, <2>1, <2>2, <2>3
<1>10. TypeOK' /\ Shape' /\ BestEffort' /\ BookIsWhole'
  <2>1. TypeOK'
    BY <1>1, <1>5, <1>8, TypesFrom DEF TypeOK
  <2>2. Shape'
    <3>1. /\ \A c \in Calls : call'[c].st \in UnderWay => call'[c].attempt >= 1
          /\ \A c \in Calls : call'[c].st = "pause" => call'[c].attempt < maxAttempts(c)
      BY <1>5 DEF CallsOK
    <3>2. \A c \in Parts \union {"search", "work", "author"} : call'[c].st = call[c].st
      BY <1>6, CallsAre
    <3> QED BY <1>1, <1>6, <3>1, <3>2 DEF Shape
  <2>3. BestEffort' /\ BookIsWhole'
    BY <1>1, <1>6, CallsAre DEF BestEffort, BookIsWhole
  <2> QED BY <2>1, <2>2, <2>3
<1>11. OnTime'
  <2>1. pc # "idle"
    <3>1. pc = "idle" => \A c \in Calls : call[c].st = "idle"
      BY <1>1, CallsAre DEF Shape
    <3>2. Running # {} /\ "idle" \notin UnderWay
      BY DEF Tick, UnderWay
    <3> QED BY <1>2, <3>1, <3>2
  <2>2. CASE pc = "search"
    <3>1. call["search"].st \in UnderWay /\ elapsed <= Spent("search") /\ "search" \in Calls
      BY <1>1, <2>2, CallsAre DEF Shape, OnTime
    <3>2. elapsed' <= Spent("search")'
      BY <1>1, <1>7, <1>9, <2>2, <3>1
    <3> QED BY <1>1, <2>2, <3>2 DEF OnTime
  <2>3. CASE pc = "parts"
    <3>1. ASSUME NEW c \in Parts, call'[c].st \in UnderWay
          PROVE  elapsed' <= Start' + Spent(c)'
      <4>1. c \in Calls /\ call[c].st \in UnderWay
        BY <1>6, <3>1, CallsAre
      <4>2. elapsed <= Start + Spent(c)
        BY <1>1, <2>3, <4>1 DEF OnTime
      <4>3. Start' = Start /\ Start \in Nat
        BY <1>1, Starts DEF Start
      <4> QED BY <1>1, <1>7, <1>9, <2>3, <4>1, <4>2, <4>3
    <3> QED BY <1>1, <2>3, <3>1 DEF OnTime
  <2>4. CASE pc = "authors"
    <3>1. /\ call["author"].st \in UnderWay /\ "author" \in Calls
          /\ elapsed <= ByAuthor(Len(names)) + call["author"].age
      BY <1>1, <2>4, CallsAre DEF Shape, OnTime
    <3>2. ByAuthor(Len(names))' = ByAuthor(Len(names)) /\ ByAuthor(Len(names)) \in Nat
      <4>1. Len(names) \in Nat
        BY <1>1, Lengths DEF TypeOK
      <4> QED BY <1>1, <4>1, Authors DEF ByAuthor, Start
    <3>3. call["author"].age \in Nat /\ call'["author"].age = call["author"].age + 1
      BY <1>1, <1>4, <3>1, CallFields
    <3>4. elapsed' <= ByAuthor(Len(names))' + call'["author"].age
      BY <1>1, <1>7, <2>4, <3>1, <3>2, <3>3
    <3> QED BY <1>1, <2>4, <3>4 DEF OnTime
  <2>5. CASE pc = "done"
    BY <1>1, <2>5 DEF OnTime
  <2> QED BY <1>1, <2>1, <2>2, <2>3, <2>4, <2>5 DEF TypeOK
<1> QED BY <1>10, <1>11 DEF IInv
-----------------------------------------------------------------------------
LEMMA InitOK == Init => IInv
<1> SUFFICES ASSUME Init PROVE IInv
  OBVIOUS
<1>1. /\ call = [c \in Calls |-> [st |-> "idle", attempt |-> 0, age |-> 0]]
      /\ pc = "idle" /\ names = <<>> /\ answer = "none" /\ elapsed = 0
      /\ ask \in [kind : {"search", "find", "get"}, authors : 0 .. MaxAuthors]
  BY DEF Init
<1>2. \A c \in Calls : call[c].st = "idle" /\ call[c].attempt = 0 /\ call[c].age = 0
  BY <1>1
<1>3. call \in [Calls -> CallRecords]
  BY <1>1 DEF CallRecords
<1>4. \A c \in Calls : 0 <= maxAttempts(c)
  <2>1. ASSUME NEW c \in Calls PROVE 0 <= maxAttempts(c)
    <3>1. maxAttempts(c) \in Nat \ {0}
      BY Attempts
    <3> QED BY <3>1
  <2> QED BY <2>1
<1>5. names \in Seq(Names) /\ Len(names) = 0 /\ Len(names) <= ask.authors
  <2>1. ask.authors \in Nat
    <3>1. ask.authors \in 0 .. MaxAuthors
      BY <1>1
    <3> QED BY <3>1, AuthorsAssumption
  <2>2. names \in Seq(Names) /\ Len(names) = 0
    BY <1>1
  <2> QED BY <2>1, <2>2
<1>6. TypeOK
  BY <1>1, <1>2, <1>3, <1>4, <1>5 DEF TypeOK, CallRecords
<1>7. Shape
  BY <1>1, <1>2, CallsAre DEF Shape, UnderWay
<1>8. BestEffort /\ BookIsWhole /\ OnTime
  BY <1>1, <1>2, CallsAre DEF BestEffort, BookIsWhole, OnTime
<1> QED BY <1>6, <1>7, <1>8 DEF IInv

LEMMA NextOK == IInv /\ [Next]_vars => IInv'
<1> SUFFICES ASSUME IInv, [Next]_vars PROVE IInv'
  OBVIOUS
<1>1. CASE Receive
  BY <1>1, ReceiveOK
<1>2. CASE Tick
  BY <1>2, TickOK
<1>3. ASSUME NEW c \in Calls, Succeed(c) \/ Fail(c) \/ Resend(c) PROVE IInv'
  BY <1>3, SucceedOK, FailOK, ResendOK
<1>4. CASE UNCHANGED vars
  <2>1. TypeOK' /\ BestEffort' /\ BookIsWhole'
    BY <1>4 DEF vars, IInv, TypeOK, BestEffort, BookIsWhole
  <2>2. Shape' /\ OnTime'
    BY <1>4 DEF vars, IInv, Shape, OnTime, Spent, Start, ByAuthor
  <2> QED BY <2>1, <2>2 DEF IInv
<1> QED BY <1>1, <1>2, <1>3, <1>4 DEF Next

LEMMA PatienceIs ==
  ASSUME TypeOK
  PROVE  /\ Patience \in Nat
         /\ ask.kind # "get" => Budget(OL_MAX_ATTEMPTS) <= Patience
         /\ ask.kind # "search" => Patience = ByAuthor(ask.authors)
<1> DEFINE B == Budget(OL_MAX_ATTEMPTS)
           A == ask.authors * OL_REQUEST_TIMEOUT
<1>1. ask.kind \in {"search", "find", "get"}
  BY DEF TypeOK
<1>2. B \in Nat /\ A \in Nat
  BY Starts, Asked, Constants, Products
<1>3. /\ ask.kind = "search" => Patience = B /\ Start = 0
      /\ ask.kind = "get" => Patience = B + A /\ Start = 0
      /\ ask.kind = "find" => Patience = B + (B + A) /\ Start = B
  BY DEF Patience, Start
<1>4. ByAuthor(ask.authors) = Start + B + A
  BY DEF ByAuthor
<1> HIDE DEF A, B
<1>5. /\ Patience \in Nat
      /\ ask.kind # "get" => B <= Patience
      /\ ask.kind # "search" => Patience = ByAuthor(ask.authors)
  BY <1>1, <1>2, <1>3, <1>4
<1> QED BY <1>5 DEF B

LEMMA InTime ==
  ASSUME IInv
  PROVE  AnswersInTime
<1> SUFFICES ASSUME answer = "none" PROVE elapsed <= Patience
  BY DEF AnswersInTime
<1>1. TypeOK /\ Shape /\ OnTime /\ CallsOK(call)
  BY CallsAreOK DEF IInv
<1>2. elapsed \in Nat /\ Patience \in Nat /\ ask.authors \in Nat
  BY <1>1, PatienceIs, Asked DEF TypeOK
<1>3. pc \in {"idle", "search", "parts", "authors"}
  BY <1>1 DEF TypeOK, Shape
<1>4. CASE pc = "idle"
  BY <1>1, <1>2, <1>4 DEF OnTime
<1>5. CASE pc = "search"
  <2>1. /\ elapsed <= Spent("search") /\ ask.kind # "get" /\ "search" \in Calls
        /\ call["search"].st \in UnderWay
    BY <1>1, <1>5, CallsAre DEF OnTime, Shape
  <2>2. /\ Spent("search") \in Nat /\ Spent("search") <= Budget(OL_MAX_ATTEMPTS)
        /\ Budget(OL_MAX_ATTEMPTS) \in Nat /\ Budget(OL_MAX_ATTEMPTS) <= Patience
    BY <1>1, <2>1, SpentFits, PatienceIs
  <2> QED BY <1>2, <2>1, <2>2
<1>6. CASE pc = "parts"
  <2>1. PICK c \in Parts : call[c].st \in UnderWay
    BY <1>1, <1>6 DEF Shape
  <2>2. elapsed <= Start + Spent(c) /\ c \in Calls /\ ask.kind # "search"
    BY <1>1, <1>6, <2>1, CallsAre DEF OnTime, Shape
  <2>3. /\ Spent(c) \in Nat /\ Spent(c) <= Budget(OL_MAX_ATTEMPTS)
        /\ Budget(OL_MAX_ATTEMPTS) \in Nat /\ Start \in Nat
    BY <1>1, <2>1, <2>2, SpentFits, Starts
  <2>4. /\ ByAuthor(0) = Start + Budget(OL_MAX_ATTEMPTS)
        /\ ByAuthor(0) <= ByAuthor(ask.authors) /\ Patience = ByAuthor(ask.authors)
    <3>1. 0 \in Nat /\ 0 <= ask.authors
      BY <1>2
    <3> QED BY <1>1, <1>2, <2>2, <3>1, Authors, PatienceIs
  <2> QED BY <1>2, <2>2, <2>3, <2>4
<1>7. CASE pc = "authors"
  <2>1. /\ elapsed <= ByAuthor(Len(names)) + call["author"].age
        /\ call["author"].st \in UnderWay /\ "author" \in Calls
        /\ Len(names) < ask.authors /\ ask.kind # "search"
    BY <1>1, <1>7, CallsAre DEF OnTime, Shape
  <2>2. Len(names) \in Nat
    BY <1>1, Lengths DEF TypeOK
  <2>3. call["author"].age <= OL_REQUEST_TIMEOUT /\ call["author"].age \in Nat
    <3>1. call["author"].st = "sent"
      <4>1. /\ call["author"].attempt >= 1 /\ call["author"].attempt \in Nat
            /\ call["author"].st = "pause" => call["author"].attempt < maxAttempts("author")
        BY <1>1, <2>1, CallFields DEF CallsOK
      <4>2. maxAttempts("author") = 1
        BY <2>1, Attempts
      <4> QED BY <2>1, <4>1, <4>2 DEF UnderWay
    <3> QED BY <1>1, <2>1, <3>1, CallFields DEF CallsOK
  <2>4. /\ ByAuthor(Len(names)) \in Nat /\ OL_REQUEST_TIMEOUT \in Nat
        /\ ByAuthor(Len(names) + 1) = ByAuthor(Len(names)) + OL_REQUEST_TIMEOUT
    BY <1>1, <2>2, Authors, Constants
  <2>5. ByAuthor(Len(names) + 1) <= ByAuthor(ask.authors) /\ Patience = ByAuthor(ask.authors)
    <3> DEFINE m == Len(names) + 1
    <3>1. m \in Nat /\ m <= ask.authors
      BY <1>2, <2>1, <2>2
    <3> HIDE DEF m
    <3>2. ByAuthor(m) <= ByAuthor(ask.authors)
      BY <1>1, <1>2, <3>1, Authors
    <3> QED BY <1>1, <2>1, <3>2, PatienceIs DEF m
  <2> QED BY <1>2, <2>1, <2>3, <2>4, <2>5
<1> QED BY <1>3, <1>4, <1>5, <1>6, <1>7
-----------------------------------------------------------------------------
\* The invariant behind the theorems that follow.
THEOREM Invariance == Spec => []IInv
  BY InitOK, NextOK, PTL DEF Spec

\* The variables keep their types: no timer outlasts its time, no call its
\* attempts.
THEOREM TypeCorrect == Spec => []TypeOK
<1>1. IInv => TypeOK
  BY DEF IInv
<1> QED BY <1>1, Invariance, PTL

\* The request fails when the search or the work fails, and for nothing else.
THEOREM FailsOnlyForWant == Spec => []BestEffort
<1>1. IInv => BestEffort
  BY DEF IInv
<1> QED BY <1>1, Invariance, PTL

\* A book is given whole, with none of its calls under way.
THEOREM BooksAreWhole == Spec => []BookIsWhole
<1>1. IInv => BookIsWhole
  BY DEF IInv
<1> QED BY <1>1, Invariance, PTL

\* No caller waits longer than the attempts on the critical path may take,
\* whatever the time-out, the pause and the number of attempts.
THEOREM NobodyWaitsLonger == Spec => []AnswersInTime
<1>1. IInv => AnswersInTime
  BY InTime
<1> QED BY <1>1, Invariance, PTL
=============================================================================
