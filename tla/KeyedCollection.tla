--------------------------- MODULE KeyedCollection ---------------------------
(***************************************************************************)
(* What BooksService.createBook promises its callers, stated without its   *)
(* find-then-insert implementation: a collection of documents in which a   *)
(* key is held by at most one document, and requests that try to add a     *)
(* document under the key they want.  Creating is one atomic step that     *)
(* either adds the document or reports that the key is taken.  A request   *)
(* may also withdraw: it failed, was cut off by a restart, or did not need *)
(* to create anything.                                                     *)
(***************************************************************************)
CONSTANTS
  Requests,   \* the requests that may create a document; a document's
              \* identity is the request that created it
  Keys        \* the keys a document can hold

VARIABLES
  wanted,     \* wanted[r]: the key request r wants to create
  docs,       \* the documents stored, as [id |-> creator, key |-> key]
  answer      \* answer[r]: what request r has been told so far

vars == <<wanted, docs, answer>>

Answers == {"pending", "created", "taken", "withdrawn"}

TypeOK ==
  /\ wanted \in [Requests -> Keys]
  /\ docs \subseteq [id : Requests, key : Keys]
  /\ answer \in [Requests -> Answers]

Holders(k) == {d \in docs : d.key = k}

Init ==
  /\ wanted \in [Requests -> Keys]
  /\ docs = {}
  /\ answer = [r \in Requests |-> "pending"]

Store(r) ==
  /\ Holders(wanted[r]) = {}
  /\ docs' = docs \union {[id |-> r, key |-> wanted[r]]}

Create(r) ==
  /\ answer[r] = "pending"
  /\ Store(r)
  /\ answer' = [answer EXCEPT ![r] = "created"]
  /\ UNCHANGED wanted

Refuse(r) ==
  /\ answer[r] = "pending"
  /\ Holders(wanted[r]) # {}
  /\ answer' = [answer EXCEPT ![r] = "taken"]
  /\ UNCHANGED <<wanted, docs>>

Withdraw(S) ==
  /\ \A r \in S : answer[r] = "pending"
  /\ answer' = [r \in Requests |-> IF r \in S THEN "withdrawn" ELSE answer[r]]
  /\ UNCHANGED <<wanted, docs>>

Next ==
  \/ \E r \in Requests : Create(r) \/ Refuse(r)
  \/ \E S \in SUBSET Requests : Withdraw(S)

Spec == Init /\ [][Next]_vars

\* Two documents never share a key: the reason the source marks the field
\* `unique: true` (book.schema.ts:18-22).
OneHolder == \A d, e \in docs : d.key = e.key => d = e
=============================================================================
