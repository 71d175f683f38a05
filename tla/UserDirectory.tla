---------------------------- MODULE UserDirectory ----------------------------
(***************************************************************************)
(* The users collection as concurrent requests drive it:                   *)
(*                                                                         *)
(*   POST   api/users           UsersService.create                        *)
(*   GET    api/users/:userid   UsersService.findOneByUserId               *)
(*   PATCH  api/users/:id       UsersService.update                        *)
(*   DELETE api/users/:id       UsersService.remove                        *)
(*                                                                         *)
(* As in BookCatalog, a handler is one action per await.  Unlike books,    *)
(* users are renamed and deleted while others create and look them up, and *)
(* a document is addressed in two ways: by its _id (which is never used    *)
(* again) and by the userId it carries at the moment.                      *)
(***************************************************************************)
EXTENDS Naturals, FiniteSets

CONSTANTS
  Requests,     \* the requests; a user's _id is the request that created it
  UserIds,      \* the userIds clients use
  FirstBoot,    \* TRUE: the collection does not have its unique index yet
  MaxRestarts   \* bound: how often the process may restart

ASSUME BootAssumption == FirstBoot \in BOOLEAN
ASSUME RestartAssumption == MaxRestarts \in Nat

VARIABLES
  users,     \* the users collection, as [id, userId]
  index,     \* the unique index on a user's userId
  req,       \* req[r]: what request r asks for (never changes)
  pc,        \* pc[r]: the await request r is suspended at
  outcome,   \* outcome[r]: what the client of r is told
  gone,      \* history: the _ids of deleted users
  held,      \* history: the requests whose userId some user held meanwhile
  free,      \* history: the requests whose userId was free meanwhile
  restarts

vars == <<users, index, req, pc, outcome, gone, held, free, restarts>>

\* userId is the one a create, a lookup or a rename names; target is the _id
\* a patch or a delete names.  Either is ignored where it has no meaning.
Asked == [kind : {"create", "get", "rename", "delete"},
          userId : UserIds, target : Requests]

Points == {"idle", "check", "insert", "get", "rename", "delete", "done"}
Outcomes == {"none", "created", "exists", "duplicateKey", "multiple",
             "document", "notFound", "null", "true", "dbError", "lost"}

TypeOK ==
  /\ users \subseteq [id : Requests, userId : UserIds]
  /\ index \in {"building", "built", "failed"}
  /\ req \in [Requests -> Asked]
  /\ pc \in [Requests -> Points]
  /\ outcome \in [Requests -> Outcomes]
  /\ gone \subseteq Requests
  /\ held \subseteq Requests
  /\ free \subseteq Requests
  /\ restarts \in 0..MaxRestarts

Init ==
  /\ users = {}
  /\ index = IF FirstBoot THEN "building" ELSE "built"
  /\ req \in [Requests -> Asked]
  /\ pc = [r \in Requests |-> "idle"]
  /\ outcome = [r \in Requests |-> "none"]
  /\ gone = {}
  /\ held = {}
  /\ free = {}
  /\ restarts = 0

-----------------------------------------------------------------------------
Key(r) == req[r].userId
Target(r) == req[r].target

\* UserRepository.find({ userId }) and findById
Holders(k) == {u \in users : u.userId = k}
Stored(id) == {u \in users : u.id = id}

Goto(r, point) ==
  /\ pc' = [pc EXCEPT ![r] = point]
  /\ UNCHANGED outcome

Answer(r, what) ==
  /\ pc' = [pc EXCEPT ![r] = "done"]
  /\ outcome' = [outcome EXCEPT ![r] = what]

\* Keeps held and free: what was true of a request's userId at some moment
\* since the request arrived.
Watch ==
  LET open == {r \in Requests : pc'[r] # "idle" /\ outcome[r] = "none"}
      taken == {r \in Requests : \E u \in users' : u.userId = Key(r)}
  IN /\ held' = held \union (open \intersect taken)
     /\ free' = free \union (open \ taken)

NothingStored == UNCHANGED <<users, index, req, gone, restarts>>

-----------------------------------------------------------------------------
PostUser(r) ==
  /\ pc[r] = "idle" /\ req[r].kind = "create"
  /\ Goto(r, "check")
  /\ NothingStored /\ Watch

GetUser(r) ==
  /\ pc[r] = "idle" /\ req[r].kind = "get"
  /\ Goto(r, "get")
  /\ NothingStored /\ Watch

PatchUser(r) ==
  /\ pc[r] = "idle" /\ req[r].kind = "rename"
  /\ Goto(r, "rename")
  /\ NothingStored /\ Watch

DeleteUser(r) ==
  /\ pc[r] = "idle" /\ req[r].kind = "delete"
  /\ Goto(r, "delete")
  /\ NothingStored /\ Watch

\* Mutant: the filter on the userId is missing.
CheckAny(r) ==
  /\ pc[r] = "check"
  /\ IF users = {} THEN Goto(r, "insert") ELSE Answer(r, "exists")
  /\ NothingStored /\ Watch

\* create: the find of its find-then-create.
CheckUser(r) ==
  /\ pc[r] = "check"
  /\ \/ Holders(Key(r)) = {} /\ Goto(r, "insert")
     \/ \E u \in Holders(Key(r)) : Holders(Key(r)) = {u} /\ Answer(r, "exists")
     \/ (\E u, v \in Holders(Key(r)) : u # v) /\ Answer(r, "multiple")
  /\ NothingStored /\ Watch

\* Mutant: the index is not unique.
AdmitsAll(id, k) == TRUE

\* The unique index lets a document with this _id carry userId k.
IndexAdmits(id, k) ==
  index = "built" => \A u \in Holders(k) : u.id = id

\* create: the create of its find-then-create; the reply may get lost.
InsertUser(r) ==
  /\ pc[r] = "insert"
  /\ IndexAdmits(r, Key(r))
  /\ users' = users \union {[id |-> r, userId |-> Key(r)]}
  /\ Answer(r, "created") \/ Answer(r, "dbError")
  /\ UNCHANGED <<index, req, gone, restarts>> /\ Watch

InsertRefused(r) ==
  /\ pc[r] = "insert"
  /\ ~IndexAdmits(r, Key(r))
  /\ Answer(r, "duplicateKey")
  /\ NothingStored /\ Watch

\* GET answers 404 when no user carries the userId.
FindUser(r) ==
  /\ pc[r] = "get"
  /\ \/ Holders(Key(r)) = {} /\ Answer(r, "notFound")
     \/ \E u \in Holders(Key(r)) : Holders(Key(r)) = {u} /\ Answer(r, "document")
     \/ (\E u, v \in Holders(Key(r)) : u # v) /\ Answer(r, "multiple")
  /\ NothingStored /\ Watch

\* Mutant: the update is an upsert.
RenameUpserts(r) ==
  /\ pc[r] = "rename"
  /\ IndexAdmits(Target(r), Key(r))
  /\ users' = (users \ Stored(Target(r)))
                \union {[id |-> Target(r), userId |-> Key(r)]}
  /\ Answer(r, "document")
  /\ UNCHANGED <<index, req, gone, restarts>> /\ Watch

\* findByIdAndUpdate with a new userId in the body.  It neither creates the
\* document nor reports that it is not there: the client gets null.
RenameUser(r) ==
  /\ pc[r] = "rename"
  /\ IndexAdmits(Target(r), Key(r)) \/ Stored(Target(r)) = {}
  /\ users' = (users \ Stored(Target(r))) \union
                {[u EXCEPT !.userId = Key(r)] : u \in Stored(Target(r))}
  /\ \/ Answer(r, IF Stored(Target(r)) = {} THEN "null" ELSE "document")
     \/ Answer(r, "dbError")
  /\ UNCHANGED <<index, req, gone, restarts>> /\ Watch

RenameRefused(r) ==
  /\ pc[r] = "rename"
  /\ ~IndexAdmits(Target(r), Key(r)) /\ Stored(Target(r)) # {}
  /\ Answer(r, "duplicateKey")
  /\ NothingStored /\ Watch

\* findByIdAndDelete; remove answers true whether or not it found anything.
RemoveUser(r) ==
  /\ pc[r] = "delete"
  /\ users' = users \ Stored(Target(r))
  /\ gone' = gone \union {u.id : u \in Stored(Target(r))}
  /\ Answer(r, "true") \/ Answer(r, "dbError")
  /\ UNCHANGED <<index, req, restarts>> /\ Watch

\* A query or a write fails before it has any effect.
DbFails(r) ==
  /\ pc[r] \notin {"idle", "done"}
  /\ Answer(r, "dbError")
  /\ NothingStored /\ Watch

BuildIndex ==
  /\ index = "building"
  /\ index' = IF \E u, v \in users : u # v /\ u.userId = v.userId
              THEN "failed" ELSE "built"
  /\ UNCHANGED <<users, req, pc, outcome, gone, held, free, restarts>>

Restart ==
  /\ restarts < MaxRestarts
  /\ restarts' = restarts + 1
  /\ pc' = [r \in Requests |-> IF pc[r] = "idle" THEN "idle" ELSE "done"]
  /\ outcome' = [r \in Requests |->
                   IF pc[r] \in {"idle", "done"} THEN outcome[r] ELSE "lost"]
  /\ index' = IF index = "failed" THEN "building" ELSE index
  /\ UNCHANGED <<users, req, gone, held, free>>

Next ==
  \/ \E r \in Requests :
       \/ PostUser(r) \/ GetUser(r) \/ PatchUser(r) \/ DeleteUser(r)
       \/ CheckUser(r) \/ InsertUser(r) \/ InsertRefused(r) \/ FindUser(r)
       \/ RenameUser(r) \/ RenameRefused(r) \/ RemoveUser(r) \/ DbFails(r)
  \/ BuildIndex
  \/ Restart

Spec == Init /\ [][Next]_vars

-----------------------------------------------------------------------------
\* Once the index exists no two users carry one userId, however creates and
\* renames to it race.
OneUserPerUserId ==
  index = "built" => \A u, v \in users : u.userId = v.userId => u = v

\* Deleting is final: no patch that was under way when the user was deleted
\* brings its _id back, so what refers to it can never come to mean another.
DeletedStaysDeleted == \A u \in users : u.id \notin gone

\* An answer about a userId was true at some moment between the request's
\* arrival and its answer: the find that precedes an insert may be stale, the
\* answer the client gets is not.
AnswersWereTrue ==
  \A r \in Requests :
    /\ outcome[r] \in {"exists", "duplicateKey", "document"} =>
         (req[r].kind \in {"create", "get"} => r \in held)
    /\ outcome[r] = "notFound" => r \in free
    /\ outcome[r] = "created" => r \in free
=============================================================================
