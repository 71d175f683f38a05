--------------------------- MODULE Access_proofs ----------------------------
(***************************************************************************)
(* Proofs about Access, for any clients, catalogues, keys, routes and      *)
(* bounds.                                                                 *)
(*                                                                         *)
(* What a token grants its client was granted by the catalogue when it was *)
(* issued; the invariant dates that by allowed, and pins the last call to  *)
(* the token it was made with.                                             *)
(***************************************************************************)
EXTENDS Access, TLAPS

\* A server that is up runs on the whole of its catalogue.
MapOfFile == up => Loads(file) /\ clients = ClientMap(file)

\* A secret that was right was checked against the catalogue still loaded.
Pending(t) ==
  token[t].st = "verifying" =>
    /\ token[t].client \in Clients
    /\ token[t].key # NoKey =>
         /\ up
         /\ token[t].key \in Keys
         /\ token[t].client \in DOMAIN clients
         /\ clients[token[t].client].scopes = token[t].scopes

\* What a token grants was allowed to its client when it was issued, or later.
Backed(t) ==
  token[t].st = "issued" =>
    /\ token[t].client \in Clients /\ token[t].key \in Keys
    /\ token[t].issued <= clock
    /\ \A route \in Routes : Grants(token[t].scopes, route) =>
         allowed[<<token[t].client, route>>] >= token[t].issued

\* What the catalogue of a running server grants is allowed now, and nothing
\* later than now.
AllowedNow ==
  /\ \A p \in Clients \X Routes : allowed[p] <= clock
  /\ up => \A c \in DOMAIN clients, route \in Routes :
             Grants(clients[c].scopes, route) => allowed[<<c, route>>] = clock

\* The last call was answered by the guards as they stand.
CallOfToken ==
  call.outcome # "none" =>
    /\ call.token \in Tokens /\ call.route \in Routes
    /\ token[call.token].st = "issued"
    /\ call.outcome = "served" =>
         Valid(call.token) /\ Grants(token[call.token].scopes, call.route)
    /\ call.outcome = "unauthorized" => ~Valid(call.token)

Inv ==
  /\ TypeOK
  /\ MapOfFile
  /\ \A t \in Tokens : Pending(t) /\ Backed(t)
  /\ AllowedNow
  /\ CallOfToken

(* A catalogue that loads maps every id to the one entry with it.          *)
LEMMA MapHoldsEntries ==
  ASSUME NEW cat \in Catalogues, Loads(cat)
  PROVE  /\ DOMAIN ClientMap(cat) \subseteq Clients
         /\ ClientMap(cat) \in [DOMAIN ClientMap(cat) -> Entries]
         /\ \A i \in DOMAIN cat : /\ cat[i].client \in DOMAIN ClientMap(cat)
                                  /\ ClientMap(cat)[cat[i].client] = cat[i]
<1> DEFINE ids == {cat[i].client : i \in DOMAIN cat}
           at(c) == CHOOSE e \in {cat[i] : i \in DOMAIN cat} : e.client = c
<1>1. \A i \in DOMAIN cat : cat[i] \in Entries
  BY CatalogueAssumption
<1>2. ids \subseteq Clients
  BY <1>1 DEF Entries
<1>3. ASSUME NEW i \in DOMAIN cat
      PROVE  at(cat[i].client) = cat[i]
  BY <1>3 DEF Loads
<1>4. ASSUME NEW c \in ids
      PROVE  at(c) \in Entries
  BY <1>1, <1>3
<1>5. ClientMap(cat) = [c \in ids |-> at(c)]
  BY DEF ClientMap
<1> HIDE DEF at
<1> QED
  BY <1>2, <1>3, <1>4, <1>5

LEMMA NoClients ==
  /\ DOMAIN <<>> \subseteq Clients /\ <<>> \in [DOMAIN <<>> -> Entries]
  OBVIOUS

LEMMA BootLoads ==
  ASSUME NEW cat \in Catalogues, NEW e \in Envs, Boot(cat, e)
  PROVE  /\ file' \in Catalogues /\ env' \in Envs /\ up' \in BOOLEAN
         /\ DOMAIN clients' \subseteq Clients /\ clients' \in [DOMAIN clients' -> Entries]
         /\ MapOfFile'
<1>1. Loads(cat) \in BOOLEAN
  BY DEF Loads
<1>2. CASE Loads(cat)
  <2>1. up' = TRUE /\ clients' = ClientMap(cat) /\ file' = cat /\ env' = e
    BY <1>2 DEF Boot
  <2> QED
    BY <1>2, <2>1, MapHoldsEntries DEF MapOfFile
<1>3. CASE ~Loads(cat)
  <2>1. up' = FALSE /\ clients' = <<>> /\ file' = cat /\ env' = e
    BY <1>1, <1>3 DEF Boot
  <2> QED
    BY <2>1, NoClients DEF MapOfFile
<1> QED
  BY <1>1, <1>2, <1>3

LEMMA NoTokenIsToken ==
  ASSUME Inv, NEW n \in {"idle", "verifying", "refused", "issued"}
  PROVE  [NoToken EXCEPT !.st = n] \in
           [st : {"idle", "verifying", "refused", "issued"},
            client : Clients \union {NoEntry}, scopes : SUBSET Scopes,
            key : Keys \union {NoKey}, issued : 0 .. MaxTime]
  BY BoundAssumption DEF NoToken, Scopes

LEMMA InitInv == Init => Inv
<1> SUFFICES ASSUME Init PROVE Inv
  OBVIOUS
<1>1. file \in Catalogues /\ Loads(file) /\ up = TRUE /\ clients = ClientMap(file)
  BY DEF Init
<1>2. allowed \in [Clients \X Routes -> -1 .. MaxTime]
  BY BoundAssumption DEF Init
<1>3. call \in [token : Tokens \union {NoEntry}, route : Routes \union {NoEntry},
                outcome : {"none", "served", "unauthorized", "forbidden"}, at : 0 .. MaxTime]
  BY BoundAssumption DEF Init, NoCall
<1>4. NoToken \in [st : {"idle", "verifying", "refused", "issued"},
                   client : Clients \union {NoEntry}, scopes : SUBSET Scopes,
                   key : Keys \union {NoKey}, issued : 0 .. MaxTime]
  BY BoundAssumption DEF NoToken
<1>5. TypeOK
  BY <1>1, <1>2, <1>3, <1>4, MapHoldsEntries, BoundAssumption DEF Init, TypeOK
<1>6. MapOfFile /\ CallOfToken
  <2>1. call.outcome = "none"
    BY DEF Init, NoCall
  <2> QED
    BY <1>1, <2>1 DEF MapOfFile, CallOfToken
<1>7. \A t \in Tokens : Pending(t) /\ Backed(t)
  BY DEF Init, Pending, Backed, NoToken
<1>8. ASSUME NEW c \in DOMAIN clients, NEW route \in Routes,
             Grants(clients[c].scopes, route)
      PROVE  allowed[<<c, route>>] = clock
  <2> DEFINE p == <<c, route>>
  <2>1. p \in Clients \X Routes /\ p[1] = c /\ p[2] = route
    BY <1>5 DEF TypeOK
  <2> HIDE DEF p
  <2>2. allowed[p] = IF p[1] \in DOMAIN clients /\ Grants(clients[p[1]].scopes, p[2])
                     THEN 0 ELSE -1
    BY <2>1 DEF Init
  <2>3. allowed[p] = 0
    BY <1>8, <2>1, <2>2
  <2> QED
    BY <2>3 DEF p, Init
<1>9. AllowedNow
  <2>1. \A p \in Clients \X Routes : allowed[p] <= clock
    BY DEF Init
  <2> QED
    BY <1>8, <2>1 DEF AllowedNow
<1> QED
  BY <1>5, <1>6, <1>7, <1>9 DEF Inv

(* The steps that leave all but the tokens, or all but the call, as it is. *)
LEMMA AskStep ==
  ASSUME Inv, NEW t \in Tokens, AskToken(t)
  PROVE  Inv'
<1>1. PICK c \in Clients, secret \in Secrets :
        LET known == c \in DOMAIN clients /\ clients[c].secret = secret IN
        token' = [token EXCEPT ![t] =
                    [st |-> "verifying", client |-> c, issued |-> clock,
                     scopes |-> IF known THEN clients[c].scopes ELSE {},
                     key |-> IF known THEN env.private ELSE NoKey]]
  BY DEF AskToken
<1> DEFINE known == c \in DOMAIN clients /\ clients[c].secret = secret
           new == [st |-> "verifying", client |-> c, issued |-> clock,
                   scopes |-> IF known THEN clients[c].scopes ELSE {},
                   key |-> IF known THEN env.private ELSE NoKey]
<1>2. token' = [token EXCEPT ![t] = new]
  BY <1>1
<1>3. UNCHANGED <<clock, file, env, up, clients, call, allowed, restarts>> /\ up
      /\ token[t].st = "idle"
  BY DEF AskToken
<1>4. env.private \in Keys /\ clock \in 0 .. MaxTime
  BY DEF Inv, TypeOK, Envs
<1>5. ASSUME known
      PROVE  clients[c].scopes \in SUBSET Scopes
  BY <1>5 DEF Inv, TypeOK, Entries
<1>6. new \in [st : {"idle", "verifying", "refused", "issued"},
               client : Clients \union {NoEntry}, scopes : SUBSET Scopes,
               key : Keys \union {NoKey}, issued : 0 .. MaxTime]
  BY <1>4, <1>5
<1>7. TypeOK'
  BY <1>2, <1>3, <1>6 DEF Inv, TypeOK
<1>8. MapOfFile'
  BY <1>3 DEF Inv, MapOfFile
<1>9. ASSUME NEW s \in Tokens
      PROVE  Pending(s)' /\ Backed(s)'
  <2>1. CASE s = t
    <3>1. token'[t] = new
      BY <1>2 DEF Inv, TypeOK
    <3> QED
      BY <1>3, <1>4, <2>1, <3>1 DEF Pending, Backed
  <2>2. CASE s # t
    <3>1. token'[s] = token[s]
      BY <1>2, <2>2 DEF Inv, TypeOK
    <3> QED
      BY <1>3, <3>1 DEF Inv, Pending, Backed
  <2> QED
    BY <2>1, <2>2
<1>10. AllowedNow'
  BY <1>3 DEF Inv, AllowedNow
<1>11. CallOfToken'
  <2>1. call.outcome # "none" => token'[call.token] = token[call.token]
    BY <1>2, <1>3 DEF Inv, TypeOK, CallOfToken
  <2> QED
    BY <1>3, <2>1 DEF Inv, CallOfToken, Valid, VerifyKey
<1> QED
  BY <1>7, <1>8, <1>9, <1>10, <1>11 DEF Inv

LEMMA VerifiedStep ==
  ASSUME Inv, NEW t \in Tokens, Verified(t)
  PROVE  Inv'
<1>1. UNCHANGED <<clock, file, env, up, clients, call, allowed, restarts>>
      /\ up /\ token[t].st = "verifying"
  BY DEF Verified
<1>2. CASE token[t].key # NoKey
           /\ token' = [token EXCEPT ![t].st = "issued", ![t].issued = clock]
  <2> DEFINE new == [token[t] EXCEPT !.st = "issued", !.issued = clock]
  <2>1. token' = [token EXCEPT ![t] = new]
    BY <1>2
  <2>2. token'[t] = new /\ \A s \in Tokens : s # t => token'[s] = token[s]
    BY <2>1 DEF Inv, TypeOK
  <2>3. new \in [st : {"idle", "verifying", "refused", "issued"},
                 client : Clients \union {NoEntry}, scopes : SUBSET Scopes,
                 key : Keys \union {NoKey}, issued : 0 .. MaxTime]
    BY DEF Inv, TypeOK
  <2>4. TypeOK'
    BY <1>1, <2>1, <2>3 DEF Inv, TypeOK
  <2>5. ASSUME NEW s \in Tokens
        PROVE  Pending(s)' /\ Backed(s)'
    <3>1. CASE s = t
      <4>1. /\ new.st = "issued" /\ new.client = token[t].client /\ new.key = token[t].key
            /\ new.scopes = token[t].scopes /\ new.issued = clock
        BY DEF Inv, TypeOK
      <4>2. /\ token[t].client \in DOMAIN clients /\ token[t].client \in Clients
            /\ token[t].key \in Keys
            /\ clients[token[t].client].scopes = token[t].scopes
        BY <1>1, <1>2 DEF Inv, Pending
      <4>3. \A route \in Routes : Grants(token[t].scopes, route) =>
              allowed[<<token[t].client, route>>] = clock
        BY <1>1, <4>2 DEF Inv, AllowedNow
      <4>4. clock \in Int
        BY DEF Inv, TypeOK
      <4> HIDE DEF new
      <4> QED
        BY <1>1, <2>2, <3>1, <4>1, <4>2, <4>3, <4>4 DEF Pending, Backed
    <3>2. CASE s # t
      BY <1>1, <2>2, <3>2 DEF Inv, Pending, Backed
    <3> QED
      BY <3>1, <3>2
  <2>6. CallOfToken'
    BY <1>1, <2>2 DEF Inv, CallOfToken, Valid, VerifyKey
  <2> QED
    BY <1>1, <2>4, <2>5, <2>6 DEF Inv, MapOfFile, AllowedNow
<1>3. CASE token' = [token EXCEPT ![t] = [NoToken EXCEPT !.st = "refused"]]
  <2>1. [NoToken EXCEPT !.st = "refused"].st = "refused"
    BY DEF NoToken
  <2>2. /\ token'[t].st = "refused" /\ \A s \in Tokens : s # t => token'[s] = token[s]
    BY <1>3, <2>1 DEF Inv, TypeOK
  <2>3. TypeOK'
    BY <1>1, <1>3, NoTokenIsToken DEF Inv, TypeOK
  <2>4. ASSUME NEW s \in Tokens
        PROVE  Pending(s)' /\ Backed(s)'
    BY <1>1, <2>2 DEF Inv, Pending, Backed
  <2>5. CallOfToken'
    BY <1>1, <2>2 DEF Inv, CallOfToken, Valid, VerifyKey
  <2> QED
    BY <1>1, <2>3, <2>4, <2>5 DEF Inv, MapOfFile, AllowedNow
<1> QED
  BY <1>2, <1>3 DEF Verified

LEMMA CallStep ==
  ASSUME Inv, NEW t \in Tokens, NEW route \in Routes, Call(t, route)
  PROVE  Inv'
<1>1. UNCHANGED <<clock, file, env, up, clients, token, allowed, restarts>>
      /\ token[t].st = "issued"
  BY DEF Call
<1> DEFINE verdict == IF ~Valid(t) THEN "unauthorized"
                      ELSE IF ~Grants(token[t].scopes, route) THEN "forbidden"
                      ELSE "served"
<1>2. call' = [token |-> t, route |-> route, at |-> clock, outcome |-> verdict]
  BY DEF Call
<1>3. call'.token = t /\ call'.route = route /\ call'.outcome = verdict
  BY <1>2
<1>4. TypeOK'
  BY <1>1, <1>2 DEF Inv, TypeOK
<1>5. Valid(t)' <=> Valid(t)
  BY <1>1 DEF Valid, VerifyKey
<1>6. /\ verdict = "served" => Valid(t) /\ Grants(token[t].scopes, route)
      /\ verdict = "unauthorized" => ~Valid(t)
  OBVIOUS
<1> HIDE DEF verdict
<1>7. CallOfToken'
  BY <1>1, <1>3, <1>6 DEF CallOfToken, Valid, VerifyKey
<1> QED
  BY <1>1, <1>4, <1>7 DEF Inv, MapOfFile, AllowedNow, Pending, Backed

(* What the catalogue allows is dated now; nothing is dated back.          *)
LEMMA NotedDates ==
  ASSUME allowed \in [Clients \X Routes -> -1 .. MaxTime],
         NEW isUp, NEW map, NEW now \in 0 .. MaxTime,
         DOMAIN map \subseteq Clients,
         \A p \in Clients \X Routes : allowed[p] <= now
  PROVE  /\ Noted(isUp, map, now) \in [Clients \X Routes -> -1 .. MaxTime]
         /\ \A p \in Clients \X Routes : /\ Noted(isUp, map, now)[p] >= allowed[p]
                                         /\ Noted(isUp, map, now)[p] <= now
         /\ isUp => \A c \in DOMAIN map, route \in Routes :
              Grants(map[c].scopes, route) => Noted(isUp, map, now)[<<c, route>>] = now
<1> DEFINE value(p) == IF isUp /\ p[1] \in DOMAIN map /\ Grants(map[p[1]].scopes, p[2])
                       THEN now ELSE allowed[p]
<1>1. Noted(isUp, map, now) = [p \in Clients \X Routes |-> value(p)]
  BY DEF Noted
<1>2. ASSUME NEW p \in Clients \X Routes
      PROVE  value(p) \in -1 .. MaxTime /\ value(p) >= allowed[p] /\ value(p) <= now
  <2>1. allowed[p] \in -1 .. MaxTime /\ allowed[p] <= now /\ now \in 0 .. MaxTime
    OBVIOUS
  <2>2. value(p) = now \/ value(p) = allowed[p]
    OBVIOUS
  <2> HIDE DEF value
  <2> QED
    BY <2>1, <2>2, BoundAssumption
<1>3. ASSUME isUp, NEW c \in DOMAIN map, NEW route \in Routes,
             Grants(map[c].scopes, route)
      PROVE  <<c, route>> \in Clients \X Routes /\ value(<<c, route>>) = now
  <2>1. <<c, route>>[1] = c /\ <<c, route>>[2] = route
    OBVIOUS
  <2> QED
    BY <1>3, <2>1
<1> HIDE DEF value
<1> QED
  BY <1>1, <1>2, <1>3

LEMMA NoCallIsCall ==
  NoCall \in [token : Tokens \union {NoEntry}, route : Routes \union {NoEntry},
              outcome : {"none", "served", "unauthorized", "forbidden"}, at : 0 .. MaxTime]
  BY BoundAssumption DEF NoCall

LEMMA TickStep ==
  ASSUME Inv, Tick
  PROVE  Inv'
<1>1. /\ UNCHANGED <<file, env, up, clients, token, restarts>>
      /\ clock' = clock + 1 /\ clock' \in 0 .. MaxTime /\ clock \in 0 .. MaxTime
      /\ allowed' = Noted(up, clients, clock') /\ call' = NoCall
  BY BoundAssumption DEF Tick, Inv, TypeOK
<1>2. \A p \in Clients \X Routes : allowed[p] \in -1 .. MaxTime /\ allowed[p] <= clock'
  BY <1>1 DEF Inv, TypeOK, AllowedNow
<1>3. /\ allowed' \in [Clients \X Routes -> -1 .. MaxTime]
      /\ \A p \in Clients \X Routes : allowed'[p] >= allowed[p] /\ allowed'[p] <= clock'
      /\ up => \A c \in DOMAIN clients, route \in Routes :
           Grants(clients[c].scopes, route) => allowed'[<<c, route>>] = clock'
  BY <1>1, <1>2, NotedDates DEF Inv, TypeOK
<1>4. TypeOK'
  BY <1>1, <1>3, NoCallIsCall DEF Inv, TypeOK
<1>5. AllowedNow' /\ MapOfFile' /\ CallOfToken'
  <2>1. call'.outcome = "none"
    BY <1>1 DEF NoCall
  <2> QED
    BY <1>1, <1>3, <2>1 DEF Inv, AllowedNow, MapOfFile, CallOfToken
<1>6. ASSUME NEW t \in Tokens
      PROVE  Pending(t)' /\ Backed(t)'
  <2>1. Pending(t)'
    BY <1>1 DEF Inv, Pending
  <2>2. ASSUME token[t].st = "issued", NEW route \in Routes, Grants(token[t].scopes, route)
        PROVE  allowed'[<<token[t].client, route>>] >= token[t].issued
    <3> DEFINE p == <<token[t].client, route>>
    <3>1. p \in Clients \X Routes /\ allowed[p] >= token[t].issued
          /\ token[t].issued \in 0 .. MaxTime
      BY <2>2 DEF Inv, Backed, TypeOK
    <3> HIDE DEF p
    <3>2. allowed'[p] >= allowed[p] /\ allowed'[p] \in -1 .. MaxTime /\ allowed[p] \in -1 .. MaxTime
      BY <1>2, <1>3, <3>1
    <3>3. allowed'[p] >= token[t].issued
      BY <3>1, <3>2, BoundAssumption
    <3> QED
      BY <3>3 DEF p
  <2>3. token[t].issued \in 0 .. MaxTime
    BY DEF Inv, TypeOK
  <2>4. Backed(t)'
    BY <1>1, <2>2, <2>3 DEF Inv, Backed
  <2> QED
    BY <2>1, <2>4
<1> QED
  BY <1>4, <1>5, <1>6 DEF Inv

LEMMA DeployStep ==
  ASSUME Inv, Deploy
  PROVE  Inv'
<1>1. PICK cat \in Catalogues, e \in Envs : Boot(cat, e)
  BY DEF Deploy
<1>2. /\ restarts' = restarts + 1 /\ restarts < MaxRestarts
      /\ clock' = clock /\ call' = NoCall /\ clock \in 0 .. MaxTime
      /\ allowed' = Noted(up', clients', clock)
      /\ token' = [t \in Tokens |-> IF token[t].st = "verifying"
                                    THEN [NoToken EXCEPT !.st = "refused"] ELSE token[t]]
  BY DEF Deploy, Inv, TypeOK
<1>3. /\ file' \in Catalogues /\ env' \in Envs /\ up' \in BOOLEAN
      /\ DOMAIN clients' \subseteq Clients /\ clients' \in [DOMAIN clients' -> Entries]
      /\ MapOfFile'
  BY <1>1, BootLoads
<1>4. \A p \in Clients \X Routes : allowed[p] \in -1 .. MaxTime /\ allowed[p] <= clock
  BY DEF Inv, TypeOK, AllowedNow
<1>5. /\ allowed' \in [Clients \X Routes -> -1 .. MaxTime]
      /\ \A p \in Clients \X Routes : allowed'[p] >= allowed[p] /\ allowed'[p] <= clock
      /\ up' => \A c \in DOMAIN clients', route \in Routes :
           Grants(clients'[c].scopes, route) => allowed'[<<c, route>>] = clock
  BY <1>2, <1>3, <1>4, NotedDates DEF Inv, TypeOK
<1>6. restarts' \in 0 .. MaxRestarts
  BY <1>2, BoundAssumption DEF Inv, TypeOK
<1>7. ASSUME NEW t \in Tokens
      PROVE  \/ token'[t] = [NoToken EXCEPT !.st = "refused"]
             \/ token'[t] = token[t] /\ token[t].st # "verifying"
  BY <1>2
<1>8. [NoToken EXCEPT !.st = "refused"].st = "refused"
  BY DEF NoToken
<1>9. TypeOK'
  <2>1. \A t \in Tokens : token'[t] \in
            [st : {"idle", "verifying", "refused", "issued"},
             client : Clients \union {NoEntry}, scopes : SUBSET Scopes,
             key : Keys \union {NoKey}, issued : 0 .. MaxTime]
    BY <1>7, NoTokenIsToken DEF Inv, TypeOK
  <2>2. token' \in [Tokens -> [st : {"idle", "verifying", "refused", "issued"},
                               client : Clients \union {NoEntry}, scopes : SUBSET Scopes,
                               key : Keys \union {NoKey}, issued : 0 .. MaxTime]]
    BY <1>2, <2>1
  <2>3. call' \in [token : Tokens \union {NoEntry}, route : Routes \union {NoEntry},
                   outcome : {"none", "served", "unauthorized", "forbidden"}, at : 0 .. MaxTime]
    BY <1>2, NoCallIsCall
  <2> QED
    BY <1>2, <1>3, <1>5, <1>6, <2>2, <2>3 DEF TypeOK
<1>10. AllowedNow' /\ CallOfToken'
  <2>1. call'.outcome = "none"
    BY <1>2 DEF NoCall
  <2> QED
    BY <1>2, <1>5, <2>1 DEF AllowedNow, CallOfToken
<1>11. ASSUME NEW t \in Tokens
       PROVE  Pending(t)' /\ Backed(t)'
  <2>1. CASE token'[t].st = "refused"
    BY <2>1 DEF Pending, Backed
  <2>2. CASE token'[t] = token[t] /\ token[t].st # "verifying"
    <3>1. ASSUME token[t].st = "issued", NEW route \in Routes, Grants(token[t].scopes, route)
          PROVE  allowed'[<<token[t].client, route>>] >= token[t].issued
      <4> DEFINE p == <<token[t].client, route>>
      <4>1. p \in Clients \X Routes /\ allowed[p] >= token[t].issued
            /\ token[t].issued \in 0 .. MaxTime
        BY <3>1 DEF Inv, Backed, TypeOK
      <4> HIDE DEF p
      <4>2. allowed'[p] >= allowed[p] /\ allowed'[p] \in -1 .. MaxTime /\ allowed[p] \in -1 .. MaxTime
        BY <1>4, <1>5, <4>1
      <4>3. allowed'[p] >= token[t].issued
        BY <4>1, <4>2, BoundAssumption
      <4> QED
        BY <4>3 DEF p
    <3> QED
      BY <1>2, <2>2, <3>1 DEF Inv, Pending, Backed
  <2> QED
    BY <1>7, <1>8, <2>1, <2>2
<1> QED
  BY <1>3, <1>9, <1>10, <1>11 DEF Inv

(* What tokens grant stays dated by what catalogues have allowed.          *)
THEOREM Invariance == Spec => []Inv
<1>1. Inv /\ [Next]_vars => Inv'
  <2> SUFFICES ASSUME Inv, [Next]_vars PROVE Inv'
    OBVIOUS
  <2>1. ASSUME UNCHANGED vars
        PROVE  Inv'
    BY <2>1 DEF vars, Inv, TypeOK, MapOfFile, Pending, Backed, AllowedNow, CallOfToken,
                Valid, VerifyKey
  <2> QED
    BY <2>1, AskStep, VerifiedStep, CallStep, DeployStep, TickStep DEF Next
<1> QED
  BY <1>1, InitInv, PTL DEF Spec

(* The variables keep their types.                                         *)
THEOREM TypeCorrect == Spec => []TypeOK
  BY Invariance, PTL DEF Inv

(* A client that a deploy takes a scope from is served with it for less    *)
(* than the life of a token after that.                                    *)
THEOREM RevocationIsTimely == Spec => []RevokedInTime
<1>1. ASSUME Inv, call.outcome = "served"
      PROVE  clock < allowed[<<Client, call.route>>] + TTL
  <2> DEFINE t == call.token
             p == <<token[t].client, call.route>>
  <2>1. /\ t \in Tokens /\ p \in Clients \X Routes /\ allowed[p] >= token[t].issued
        /\ clock < token[t].issued + TTL
    BY <1>1 DEF Inv, CallOfToken, Backed, Valid
  <2> HIDE DEF t, p
  <2>2. /\ allowed[p] \in Int /\ token[t].issued \in Int
        /\ clock \in Int /\ TTL \in Int
    <3>1. allowed[p] \in -1 .. MaxTime
      BY <1>1, <2>1 DEF Inv, TypeOK
    <3>2. token[t].issued \in 0 .. MaxTime /\ clock \in 0 .. MaxTime
      BY <1>1, <2>1 DEF Inv, TypeOK
    <3> QED
      BY <3>1, <3>2, BoundAssumption
  <2>3. clock < allowed[p] + TTL
    BY <2>1, <2>2
  <2> QED
    BY <2>3 DEF t, p, Client
<1>2. Inv => RevokedInTime
  BY <1>1 DEF RevokedInTime
<1> QED
  BY Invariance, <1>2, PTL

(* A deploy that keeps the keys costs no client a token that is still good. *)
THEOREM DeploysKeepTokens == Spec => []TokensSurviveDeploys
<1>1. ASSUME Inv, call.outcome = "unauthorized"
      PROVE  \/ clock >= token[call.token].issued + TTL
             \/ token[call.token].key # env.private
             \/ env.public \notin {NoKey, env.private}
  <2>1. ~Valid(call.token)
    BY <1>1 DEF Inv, CallOfToken
  <2>2. clock \in Int /\ token[call.token].issued \in Int /\ TTL \in Int
    BY <1>1, BoundAssumption DEF Inv, CallOfToken, TypeOK
  <2> QED
    BY <2>1, <2>2 DEF Valid, VerifyKey
<1>2. Inv => TokensSurviveDeploys
  BY <1>1 DEF TokensSurviveDeploys
<1> QED
  BY Invariance, <1>2, PTL

(* The server never runs on a part of a catalogue.                         *)
THEOREM CatalogueIsWhole == Spec => []WholeCatalogue
<1>1. Inv => WholeCatalogue
  BY MapHoldsEntries DEF Inv, TypeOK, MapOfFile, WholeCatalogue
<1> QED
  BY Invariance, <1>1, PTL
=============================================================================
