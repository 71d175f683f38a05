------------------------ MODULE UserDirectory_proofs ------------------------
(***************************************************************************)
(* Proofs about UserDirectory, for every set of requests and userIds and   *)
(* every number of restarts: the type invariant and the safety invariants  *)
(* the run checks.                                                         *)
(***************************************************************************)
EXTENDS UserDirectory, TLAPS

\* What the safety invariants need to be inductive: the request that created a
\* user, stored or deleted, is answered, so that it cannot insert it again; a
\* request about to insert has seen its userId free; only a request that is
\* answered has an answer; and only a patch is suspended at "rename".
CreatorsAreDone ==
  /\ \A u \in users : pc[u.id] = "done"
  /\ \A id \in gone : pc[id] = "done"

InsertSawFree == \A r \in Requests : pc[r] = "insert" => r \in free

PendingIsUnanswered ==
  \A r \in Requests : pc[r] # "done" => outcome[r] = "none"

RenamesAreRenames ==
  \A r \in Requests : pc[r] = "rename" => req[r].kind = "rename"

IInv ==
  /\ TypeOK
  /\ CreatorsAreDone
  /\ InsertSawFree
  /\ PendingIsUnanswered
  /\ RenamesAreRenames
  /\ OneUserPerUserId
  /\ DeletedStaysDeleted
  /\ AnswersWereTrue

-----------------------------------------------------------------------------
\* What Watch records: nothing is forgotten, and a request that is open in
\* this step has seen its userId held or free, as it is after the step.
LEMMA WatchRecords ==
  ASSUME IInv, Watch, UNCHANGED req,
         users' \subseteq [id : Requests, userId : UserIds]
  PROVE  /\ held \subseteq held' /\ held' \subseteq Requests
         /\ free \subseteq free' /\ free' \subseteq Requests
         /\ \A r \in Requests : pc'[r] # "idle" /\ outcome[r] = "none" =>
              /\ (\E u \in users' : u.userId = Key(r)) => r \in held'
              /\ (~\E u \in users' : u.userId = Key(r)) => r \in free'
BY DEF Watch, Key, IInv, TypeOK

\* One request r moves to point with what as its answer, whatever the step
\* does to the collection.  Everything about requests is preserved if the
\* answer is backed by what was recorded.
LEMMA MoveStep ==
  ASSUME IInv, NEW r \in Requests, UNCHANGED req,
         NEW point \in Points \ {"idle"}, NEW what \in Outcomes,
         pc' = [pc EXCEPT ![r] = point],
         outcome' = [outcome EXCEPT ![r] = what],
         held \subseteq held', free \subseteq free',
         pc[r] # "done",
         point # "done" => what = "none",
         point = "insert" => r \in free',
         point = "rename" => req[r].kind = "rename",
         what \in {"exists", "duplicateKey", "document"}
           => (req[r].kind \in {"create", "get"} => r \in held'),
         what \in {"notFound", "created"} => r \in free'
  PROVE  /\ pc' \in [Requests -> Points] /\ outcome' \in [Requests -> Outcomes]
         /\ InsertSawFree' /\ PendingIsUnanswered' /\ RenamesAreRenames'
         /\ AnswersWereTrue'
<1>1. /\ pc'[r] = point /\ outcome'[r] = what
      /\ \A q \in Requests \ {r} : pc'[q] = pc[q] /\ outcome'[q] = outcome[q]
  BY DEF IInv, TypeOK
<1>2. pc' \in [Requests -> Points] /\ outcome' \in [Requests -> Outcomes]
  BY DEF IInv, TypeOK
<1>3. InsertSawFree' /\ PendingIsUnanswered' /\ RenamesAreRenames'
  BY <1>1 DEF IInv, InsertSawFree, PendingIsUnanswered, RenamesAreRenames
<1>4. AnswersWereTrue'
  BY <1>1 DEF IInv, AnswersWereTrue
<1> QED
  BY <1>2, <1>3, <1>4

\* A step of one request that leaves the collection alone.
LEMMA QuietStep ==
  ASSUME IInv, NEW r \in Requests, NothingStored, Watch,
         NEW point \in Points \ {"idle"}, NEW what \in Outcomes,
         pc' = [pc EXCEPT ![r] = point],
         outcome' = [outcome EXCEPT ![r] = what],
         pc[r] # "done",
         point # "done" => what = "none",
         point = "insert" => Holders(Key(r)) = {},
         point = "rename" => req[r].kind = "rename",
         what \in {"exists", "duplicateKey", "document"}
           => (req[r].kind \in {"create", "get"} => Holders(Key(r)) # {}),
         what = "notFound" => Holders(Key(r)) = {},
         what # "created"
  PROVE  IInv'
<1> USE DEF NothingStored
<1>1. users' \subseteq [id : Requests, userId : UserIds]
  BY DEF IInv, TypeOK
<1>2. outcome[r] = "none" /\ pc'[r] # "idle"
  BY DEF IInv, TypeOK, PendingIsUnanswered
<1>3. /\ held \subseteq held' /\ held' \subseteq Requests
      /\ free \subseteq free' /\ free' \subseteq Requests
      /\ Holders(Key(r)) # {} => r \in held'
      /\ Holders(Key(r)) = {} => r \in free'
  BY <1>1, <1>2, WatchRecords DEF Holders
<1>4. /\ pc' \in [Requests -> Points] /\ outcome' \in [Requests -> Outcomes]
      /\ InsertSawFree' /\ PendingIsUnanswered' /\ RenamesAreRenames'
      /\ AnswersWereTrue'
  BY <1>3, MoveStep
<1>5. TypeOK'
  BY <1>3, <1>4 DEF IInv, TypeOK
<1>6. CreatorsAreDone'
  BY DEF IInv, TypeOK, CreatorsAreDone
<1>7. OneUserPerUserId' /\ DeletedStaysDeleted'
  BY DEF IInv, OneUserPerUserId, DeletedStaysDeleted
<1> QED
  BY <1>4, <1>5, <1>6, <1>7 DEF IInv

\* The two forms such a step has: it goes on to another await, or it answers.
LEMMA GoOn ==
  ASSUME IInv, NEW r \in Requests, NothingStored, Watch, pc[r] # "done",
         NEW point \in Points \ {"idle", "done"}, Goto(r, point),
         point = "insert" => Holders(Key(r)) = {},
         point = "rename" => req[r].kind = "rename"
  PROVE  IInv'
<1>1. outcome' = [outcome EXCEPT ![r] = "none"]
  BY DEF IInv, TypeOK, PendingIsUnanswered, Goto
<1>2. "none" \in Outcomes
  BY DEF Outcomes
<1>3. pc' = [pc EXCEPT ![r] = point]
  BY DEF Goto
<1> QED
  BY <1>1, <1>2, <1>3, QuietStep

LEMMA AnswerNow ==
  ASSUME IInv, NEW r \in Requests, NothingStored, Watch, pc[r] # "done",
         NEW what \in Outcomes \ {"created"}, Answer(r, what),
         what \in {"exists", "duplicateKey", "document"}
           => (req[r].kind \in {"create", "get"} => Holders(Key(r)) # {}),
         what = "notFound" => Holders(Key(r)) = {}
  PROVE  IInv'
<1>1. pc' = [pc EXCEPT ![r] = "done"] /\ outcome' = [outcome EXCEPT ![r] = what]
  BY DEF Answer
<1>2. "done" \in Points \ {"idle"}
  BY DEF Points
<1> QED
  BY <1>1, <1>2, QuietStep

-----------------------------------------------------------------------------
LEMMA ArrivalStep ==
  ASSUME IInv, NEW r \in Requests,
         PostUser(r) \/ GetUser(r) \/ PatchUser(r) \/ DeleteUser(r)
  PROVE  IInv'
<1>1. {"check", "get", "rename", "delete"} \subseteq Points \ {"idle", "done"}
  BY DEF Points
<1>2. CASE PostUser(r)
  BY <1>1, <1>2, GoOn DEF PostUser
<1>3. CASE GetUser(r)
  BY <1>1, <1>3, GoOn DEF GetUser
<1>4. CASE PatchUser(r)
  BY <1>1, <1>4, GoOn DEF PatchUser
<1>5. CASE DeleteUser(r)
  BY <1>1, <1>5, GoOn DEF DeleteUser
<1> QED
  BY <1>2, <1>3, <1>4, <1>5

LEMMA CheckUserStep ==
  ASSUME IInv, NEW r \in Requests, CheckUser(r) PROVE IInv'
<1>1. /\ pc[r] # "done" /\ NothingStored /\ Watch
      /\ "insert" \in Points \ {"idle", "done"}
      /\ {"exists", "multiple"} \subseteq Outcomes \ {"created"}
  BY DEF CheckUser, Points, Outcomes
<1>2. CASE Holders(Key(r)) = {} /\ Goto(r, "insert")
  BY <1>1, <1>2, GoOn
<1>3. CASE \E u \in Holders(Key(r)) :
              Holders(Key(r)) = {u} /\ Answer(r, "exists")
  BY <1>1, <1>3, AnswerNow
<1>4. CASE (\E u, v \in Holders(Key(r)) : u # v) /\ Answer(r, "multiple")
  BY <1>1, <1>4, AnswerNow
<1> QED
  BY <1>2, <1>3, <1>4 DEF CheckUser

LEMMA FindUserStep ==
  ASSUME IInv, NEW r \in Requests, FindUser(r) PROVE IInv'
<1>1. /\ pc[r] # "done" /\ NothingStored /\ Watch
      /\ {"notFound", "document", "multiple"} \subseteq Outcomes \ {"created"}
  BY DEF FindUser, Outcomes
<1>2. CASE Holders(Key(r)) = {} /\ Answer(r, "notFound")
  BY <1>1, <1>2, AnswerNow
<1>3. CASE \E u \in Holders(Key(r)) :
              Holders(Key(r)) = {u} /\ Answer(r, "document")
  BY <1>1, <1>3, AnswerNow
<1>4. CASE (\E u, v \in Holders(Key(r)) : u # v) /\ Answer(r, "multiple")
  BY <1>1, <1>4, AnswerNow
<1> QED
  BY <1>2, <1>3, <1>4 DEF FindUser

\* The index refuses a write only because another user holds the userId.
LEMMA RefusedStep ==
  ASSUME IInv, NEW r \in Requests, InsertRefused(r) \/ RenameRefused(r)
  PROVE  IInv'
<1>1. /\ pc[r] # "done" /\ NothingStored /\ Watch /\ Answer(r, "duplicateKey")
      /\ "duplicateKey" \in Outcomes \ {"created"}
  BY DEF InsertRefused, RenameRefused, Outcomes
<1>2. Holders(Key(r)) # {}
  BY DEF InsertRefused, RenameRefused, IndexAdmits
<1> QED
  BY <1>1, <1>2, AnswerNow

LEMMA DbFailsStep ==
  ASSUME IInv, NEW r \in Requests, DbFails(r) PROVE IInv'
BY AnswerNow DEF DbFails, Outcomes

-----------------------------------------------------------------------------
\* The only step that stores a user.  The request saw its userId free when it
\* checked; whether it still is, is for the index to say.
LEMMA InsertUserStep ==
  ASSUME IInv, NEW r \in Requests, InsertUser(r) PROVE IInv'
<1> DEFINE new == [id |-> r, userId |-> Key(r)]
<1>1. /\ pc[r] = "insert" /\ IndexAdmits(r, Key(r))
      /\ users' = users \union {new}
      /\ UNCHANGED <<index, req, gone, restarts>> /\ Watch
  BY DEF InsertUser
<1>2. PICK what \in {"created", "dbError"} : Answer(r, what)
  BY DEF InsertUser
<1>3. new \in [id : Requests, userId : UserIds]
  BY DEF IInv, TypeOK, Asked, Key
<1>4. users' \subseteq [id : Requests, userId : UserIds]
  BY <1>1, <1>3 DEF IInv, TypeOK
<1>5. /\ held \subseteq held' /\ held' \subseteq Requests
      /\ free \subseteq free' /\ free' \subseteq Requests
  BY <1>1, <1>4, WatchRecords
<1>6. r \in free
  BY <1>1 DEF IInv, InsertSawFree
<1>7. /\ pc' \in [Requests -> Points] /\ outcome' \in [Requests -> Outcomes]
      /\ InsertSawFree' /\ PendingIsUnanswered' /\ RenamesAreRenames'
      /\ AnswersWereTrue'
  BY <1>1, <1>2, <1>5, <1>6, MoveStep DEF Answer, Points, Outcomes
<1>8. TypeOK'
  BY <1>1, <1>4, <1>5, <1>7 DEF IInv, TypeOK
<1>9. CreatorsAreDone'
  BY <1>1, <1>2 DEF IInv, TypeOK, CreatorsAreDone, Answer
<1>10. OneUserPerUserId'
  <2> SUFFICES ASSUME index = "built", NEW u \in users', NEW v \in users',
                      u.userId = v.userId
               PROVE  u = v
    BY <1>1 DEF OneUserPerUserId
  <2>1. \A w \in users : w.userId = Key(r) => w = new
    BY <1>1, <1>3 DEF IInv, TypeOK, IndexAdmits, Holders
  <2> QED
    BY <1>1, <2>1 DEF IInv, OneUserPerUserId
<1>11. DeletedStaysDeleted'
  BY <1>1 DEF IInv, DeletedStaysDeleted, CreatorsAreDone
<1> QED
  BY <1>7, <1>8, <1>9, <1>10, <1>11 DEF IInv

\* A rename gives the userId to the user it found, or to nobody.
LEMMA RenameUserStep ==
  ASSUME IInv, NEW r \in Requests, RenameUser(r) PROVE IInv'
<1> DEFINE t == Target(r)
           new == [id |-> t, userId |-> Key(r)]
<1>1. /\ pc[r] = "rename"
      /\ IndexAdmits(t, Key(r)) \/ Stored(t) = {}
      /\ UNCHANGED <<index, req, gone, restarts>> /\ Watch
  BY DEF RenameUser
<1>2. PICK what \in {"null", "document", "dbError"} : Answer(r, what)
  BY DEF RenameUser
<1>3. new \in [id : Requests, userId : UserIds]
  BY DEF IInv, TypeOK, Asked, Key, Target
<1>4. \A u \in Stored(t) : [u EXCEPT !.userId = Key(r)] = new
  BY DEF IInv, TypeOK, Stored
<1>5. \A u \in users' :
        \/ u \in users /\ u.id # t
        \/ u = new /\ Stored(t) # {}
  <2>1. users' = (users \ Stored(t)) \union
                   {[u EXCEPT !.userId = Key(r)] : u \in Stored(t)}
    BY DEF RenameUser
  <2> QED
    BY <1>4, <2>1 DEF Stored
<1>6. users' \subseteq [id : Requests, userId : UserIds]
  BY <1>3, <1>5 DEF IInv, TypeOK
<1>7. /\ held \subseteq held' /\ held' \subseteq Requests
      /\ free \subseteq free' /\ free' \subseteq Requests
  BY <1>1, <1>6, WatchRecords
<1>8. req[r].kind = "rename"
  BY <1>1 DEF IInv, RenamesAreRenames
<1>9. /\ pc' \in [Requests -> Points] /\ outcome' \in [Requests -> Outcomes]
      /\ InsertSawFree' /\ PendingIsUnanswered' /\ RenamesAreRenames'
      /\ AnswersWereTrue'
  BY <1>1, <1>2, <1>7, <1>8, MoveStep DEF Answer, Points, Outcomes
<1>10. TypeOK'
  BY <1>1, <1>6, <1>7, <1>9 DEF IInv, TypeOK
<1>11. \A u \in users' : \E v \in users : v.id = u.id
  BY <1>5 DEF Stored
<1>12. CreatorsAreDone'
  BY <1>1, <1>2, <1>11 DEF IInv, TypeOK, CreatorsAreDone, Answer
<1>13. OneUserPerUserId'
  <2> SUFFICES ASSUME index = "built", NEW u \in users', NEW v \in users',
                      u.userId = v.userId
               PROVE  u = v
    BY <1>1 DEF OneUserPerUserId
  <2>1. \A w \in users : w.userId = Key(r) /\ w.id # t => Stored(t) = {}
    BY <1>1 DEF IndexAdmits, Holders
  <2> QED
    BY <1>5, <2>1 DEF IInv, OneUserPerUserId
<1>14. DeletedStaysDeleted'
  BY <1>1, <1>11 DEF IInv, DeletedStaysDeleted
<1> QED
  BY <1>9, <1>10, <1>12, <1>13, <1>14 DEF IInv

LEMMA RemoveUserStep ==
  ASSUME IInv, NEW r \in Requests, RemoveUser(r) PROVE IInv'
<1>1. /\ pc[r] = "delete"
      /\ users' = users \ Stored(Target(r))
      /\ gone' = gone \union {u.id : u \in Stored(Target(r))}
      /\ UNCHANGED <<index, req, restarts>> /\ Watch
  BY DEF RemoveUser
<1>2. PICK what \in {"true", "dbError"} : Answer(r, what)
  BY DEF RemoveUser
<1>3. /\ users' \subseteq [id : Requests, userId : UserIds]
      /\ gone' \subseteq Requests
  BY <1>1 DEF IInv, TypeOK, Stored
<1>4. /\ held \subseteq held' /\ held' \subseteq Requests
      /\ free \subseteq free' /\ free' \subseteq Requests
  BY <1>1, <1>3, WatchRecords
<1>5. /\ pc' \in [Requests -> Points] /\ outcome' \in [Requests -> Outcomes]
      /\ InsertSawFree' /\ PendingIsUnanswered' /\ RenamesAreRenames'
      /\ AnswersWereTrue'
  BY <1>1, <1>2, <1>4, MoveStep DEF Answer, Points, Outcomes
<1>6. TypeOK'
  BY <1>1, <1>3, <1>4, <1>5 DEF IInv, TypeOK
<1>7. CreatorsAreDone'
  BY <1>1, <1>2 DEF IInv, TypeOK, CreatorsAreDone, Answer, Stored
<1>8. OneUserPerUserId'
  BY <1>1 DEF IInv, OneUserPerUserId
<1>9. DeletedStaysDeleted'
  BY <1>1 DEF IInv, DeletedStaysDeleted, Stored
<1> QED
  BY <1>5, <1>6, <1>7, <1>8, <1>9 DEF IInv

\* The build gives up on a collection that holds a userId twice.
LEMMA BuildIndexStep == IInv /\ BuildIndex => IInv'
BY DEF BuildIndex, IInv, TypeOK, CreatorsAreDone, InsertSawFree,
       PendingIsUnanswered, RenamesAreRenames, OneUserPerUserId,
       DeletedStaysDeleted, AnswersWereTrue

LEMMA RestartStep == IInv /\ Restart => IInv'
<1> SUFFICES ASSUME IInv, Restart PROVE IInv'
  OBVIOUS
<1> USE DEF Restart
<1>1. \A r \in Requests :
        /\ pc'[r] \in {"idle", "done"} /\ (pc[r] = "done" => pc'[r] = "done")
        /\ outcome'[r] \in {outcome[r], "lost"}
        /\ pc'[r] # "done" => outcome'[r] = outcome[r] /\ pc[r] # "done"
  BY DEF IInv, TypeOK
<1>2. TypeOK'
  BY RestartAssumption DEF IInv, TypeOK, Points, Outcomes
<1>3. CreatorsAreDone'
  BY <1>1 DEF IInv, TypeOK, CreatorsAreDone
<1>4. InsertSawFree' /\ PendingIsUnanswered' /\ RenamesAreRenames'
  BY <1>1 DEF IInv, InsertSawFree, PendingIsUnanswered, RenamesAreRenames
<1>5. OneUserPerUserId' /\ DeletedStaysDeleted'
  BY DEF IInv, OneUserPerUserId, DeletedStaysDeleted
<1>6. AnswersWereTrue'
  BY <1>1 DEF IInv, AnswersWereTrue
<1> QED
  BY <1>2, <1>3, <1>4, <1>5, <1>6 DEF IInv

-----------------------------------------------------------------------------
LEMMA Inductive == Spec => []IInv
<1>1. Init => IInv
  BY BootAssumption, RestartAssumption
     DEF Init, IInv, TypeOK, CreatorsAreDone, InsertSawFree,
         PendingIsUnanswered, RenamesAreRenames, OneUserPerUserId,
         DeletedStaysDeleted, AnswersWereTrue, Points, Outcomes
<1>2. IInv /\ [Next]_vars => IInv'
  <2> SUFFICES ASSUME IInv, [Next]_vars PROVE IInv'
    OBVIOUS
  <2>1. ASSUME NEW r \in Requests,
               PostUser(r) \/ GetUser(r) \/ PatchUser(r) \/ DeleteUser(r)
        PROVE  IInv'
    BY <2>1, ArrivalStep
  <2>2. ASSUME NEW r \in Requests, CheckUser(r) PROVE IInv'
    BY <2>2, CheckUserStep
  <2>3. ASSUME NEW r \in Requests, InsertUser(r) PROVE IInv'
    BY <2>3, InsertUserStep
  <2>4. ASSUME NEW r \in Requests, InsertRefused(r) \/ RenameRefused(r)
        PROVE  IInv'
    BY <2>4, RefusedStep
  <2>5. ASSUME NEW r \in Requests, FindUser(r) PROVE IInv'
    BY <2>5, FindUserStep
  <2>6. ASSUME NEW r \in Requests, RenameUser(r) PROVE IInv'
    BY <2>6, RenameUserStep
  <2>7. ASSUME NEW r \in Requests, RemoveUser(r) PROVE IInv'
    BY <2>7, RemoveUserStep
  <2>8. ASSUME NEW r \in Requests, DbFails(r) PROVE IInv'
    BY <2>8, DbFailsStep
  <2>9. CASE BuildIndex
    BY <2>9, BuildIndexStep
  <2>10. CASE Restart
    BY <2>10, RestartStep
  <2>11. CASE UNCHANGED vars
    BY <2>11 DEF vars, IInv, TypeOK, CreatorsAreDone, InsertSawFree,
       PendingIsUnanswered, RenamesAreRenames, OneUserPerUserId,
       DeletedStaysDeleted, AnswersWereTrue
  <2> QED
    BY <2>1, <2>2, <2>3, <2>4, <2>5, <2>6, <2>7, <2>8, <2>9, <2>10, <2>11
       DEF Next
<1> QED
  BY <1>1, <1>2, PTL DEF Spec

\* Every step keeps every variable in its range.
THEOREM TypeCorrect == Spec => []TypeOK
<1>1. IInv => TypeOK
  BY DEF IInv
<1> QED
  BY <1>1, Inductive, PTL

\* However creates and renames to a userId race, and whatever is deleted in
\* between, one user carries it once the index on User.userId exists.
THEOREM DirectoryUnique == Spec => []OneUserPerUserId
<1>1. IInv => OneUserPerUserId
  BY DEF IInv
<1> QED
  BY <1>1, Inductive, PTL

\* No create or patch under way when a user is deleted brings its _id back.
THEOREM DeletionIsFinal == Spec => []DeletedStaysDeleted
<1>1. IInv => DeletedStaysDeleted
  BY DEF IInv
<1> QED
  BY <1>1, Inductive, PTL

\* What a create or a lookup tells its client about a userId was true at some
\* moment while the request was open.
THEOREM AnswersAreLinearizable == Spec => []AnswersWereTrue
<1>1. IInv => AnswersWereTrue
  BY DEF IInv
<1> QED
  BY <1>1, Inductive, PTL
=============================================================================
