------------------------------- MODULE Access -------------------------------
(***************************************************************************)
(* Who may call what: the catalogue of clients and the pair of keys that   *)
(* the server loads when it starts, the access tokens it issues to clients *)
(* (POST auth/token), and the guards in front of every other route.        *)
(*                                                                         *)
(* The server keeps no token.  What a token allows was decided when it was *)
(* issued, so a client that loses a scope, or its place in the catalogue,  *)
(* at a deploy keeps what its tokens hold until they expire.               *)
(*                                                                         *)
(* Time passes in units of which a token lives TTL.                        *)
(***************************************************************************)
EXTENDS Integers, Sequences

CONSTANTS
  Clients,      \* client ids
  Secrets,      \* the secrets clients present, and whose hashes are stored
  Catalogues,   \* the contents the catalogue file may have at a deploy:
                \* sequences of entries
  Keys,         \* RSA key pairs
  NoKey,        \* stands for a PUBLIC_KEY_PEM that is not set
  Routes,       \* the routes clients call
  Required,     \* Required[route]: the scopes of its @Scopes
  Tokens,       \* the requests for a token, and the tokens they lead to
  NoEntry,      \* stands for undefined
  TTL,          \* ACCESS_TOKEN_TTL_SECONDS
  MaxTime,      \* bound: when time stops
  MaxRestarts   \* bound: how often the server is deployed again

\* A scope is one word: the claim of a token joins them with blanks, and splitting
\* it at the blanks gives the same scopes back.
Scopes == UNION {Required[route] : route \in Routes} \union {"*"}
\* An entry is sound when validateEntry accepts it.
Entries == [client : Clients, secret : Secrets, scopes : SUBSET Scopes, sound : BOOLEAN]

ASSUME CatalogueAssumption == Catalogues \subseteq Seq(Entries)
ASSUME RequiredAssumption == \A route \in Routes : Required[route] # {}
ASSUME NoKeyAssumption == NoKey \notin Keys
ASSUME NoEntryAssumption == NoEntry \notin Entries
ASSUME BoundAssumption == TTL \in Nat \ {0} /\ MaxTime \in Nat /\ MaxRestarts \in Nat

VARIABLES
  clock,
  file,      \* the catalogue file
  env,       \* [private, public]: the keys in the environment
  up,        \* the server has started with them
  clients,   \* ClientRegistryService.clients: the sound entries by client id
  token,     \* token[t]: a request for a token, then the token
  call,      \* the last call: [token, route, outcome, at]
  allowed,   \* history: allowed[<<c, route>>] is the last time at which the
             \* catalogue of a running server let c call the route
  restarts

vars == <<clock, file, env, up, clients, token, call, allowed, restarts>>

Envs == [private : Keys, public : Keys \union {NoKey}]
NoToken == [st |-> "idle", client |-> NoEntry, scopes |-> {}, key |-> NoKey, issued |-> 0]
NoCall == [token |-> NoEntry, route |-> NoEntry, outcome |-> "none", at |-> 0]

TypeOK ==
  /\ clock \in 0 .. MaxTime
  /\ file \in Catalogues /\ env \in Envs /\ up \in BOOLEAN
  /\ DOMAIN clients \subseteq Clients /\ clients \in [DOMAIN clients -> Entries]
  /\ token \in [Tokens -> [st : {"idle", "verifying", "refused", "issued"},
                         client : Clients \union {NoEntry}, scopes : SUBSET Scopes,
                         key : Keys \union {NoKey}, issued : 0 .. MaxTime]]
  /\ call \in [token : Tokens \union {NoEntry}, route : Routes \union {NoEntry},
               outcome : {"none", "served", "unauthorized", "forbidden"}, at : 0 .. MaxTime]
  /\ allowed \in [Clients \X Routes -> -1 .. MaxTime]
  /\ restarts \in 0 .. MaxRestarts

-----------------------------------------------------------------------------
\* Mutant: ids may repeat.
LoadsRepeated(catalogue) == \A i \in DOMAIN catalogue : catalogue[i].sound

\* buildClientMap throws on an entry that is not sound and on a second entry
\* with the same id.
Loads(catalogue) ==
  /\ \A i \in DOMAIN catalogue : catalogue[i].sound
  /\ \A i, j \in DOMAIN catalogue :
       catalogue[i].client = catalogue[j].client => i = j

ClientMap(catalogue) ==
  [c \in {catalogue[i].client : i \in DOMAIN catalogue} |->
     CHOOSE e \in {catalogue[i] : i \in DOMAIN catalogue} : e.client = c]

\* Mutant: the public key is not derived.
ConfiguredKey == env.public

\* The key tokens are verified with, and that jwks.json publishes: derived
\* from the private key when the public one is not configured.
VerifyKey == IF env.public = NoKey THEN env.private ELSE env.public

\* The scopes of a client or a token satisfy those of a route.
Grants(scopes, route) == "*" \in scopes \/ Required[route] \subseteq scopes

\* What the catalogue of a running server allows at time now.
Noted(isUp, map, now) ==
  [p \in Clients \X Routes |->
     IF isUp /\ p[1] \in DOMAIN map /\ Grants(map[p[1]].scopes, p[2])
     THEN now ELSE allowed[p]]

Boot(catalogue, e) ==
  /\ file' = catalogue /\ env' = e
  /\ up' = Loads(catalogue)
  /\ clients' = IF Loads(catalogue) THEN ClientMap(catalogue) ELSE <<>>

Init ==
  /\ clock = 0
  /\ file \in {cat \in Catalogues : Loads(cat)} /\ env \in Envs
  /\ up = TRUE
  /\ clients = ClientMap(file)
  /\ token = [t \in Tokens |-> NoToken]
  /\ call = NoCall
  /\ allowed = [p \in Clients \X Routes |->
                  IF p[1] \in DOMAIN clients /\ Grants(clients[p[1]].scopes, p[2])
                  THEN 0 ELSE -1]
  /\ restarts = 0

-----------------------------------------------------------------------------
\* POST auth/token: the client is looked up, and its secret handed to argon2,
\* which works on it while other requests are served.  (For a client that is
\* not registered argon2 gets a hash nothing matches.)
AskToken(t) ==
  /\ up
  /\ token[t].st = "idle"
  /\ \E c \in Clients, secret \in Secrets :
       LET known == c \in DOMAIN clients /\ clients[c].secret = secret IN
       token' = [token EXCEPT ![t] =
                   [st |-> "verifying", client |-> c, issued |-> clock,
                    scopes |-> IF known THEN clients[c].scopes ELSE {},
                    key |-> IF known THEN env.private ELSE NoKey]]
  /\ UNCHANGED <<clock, file, env, up, clients, call, allowed, restarts>>

\* argon2 answers: validateClient rejects, or getAccessToken signs a token
\* with the client's scopes.  argon2 may also fail, which rejects too.
Verified(t) ==
  /\ up
  /\ token[t].st = "verifying"
  /\ \/ /\ token[t].key # NoKey
        /\ token' = [token EXCEPT ![t].st = "issued", ![t].issued = clock]
     \/ token' = [token EXCEPT ![t] = [NoToken EXCEPT !.st = "refused"]]
  /\ UNCHANGED <<clock, file, env, up, clients, call, allowed, restarts>>

\* Mutant: ignoreExpiration.
ValidForever(t) == token[t].key = VerifyKey

\* passport-jwt: the signature and the expiry.
Valid(t) == token[t].key = VerifyKey /\ clock < token[t].issued + TTL

\* A call with a token: JwtAuthGuard, then ScopesGuard, then the route.
Call(t, route) ==
  /\ up
  /\ token[t].st = "issued"
  /\ call' = [token |-> t, route |-> route, at |-> clock,
              outcome |-> IF ~Valid(t) THEN "unauthorized"
                          ELSE IF ~Grants(token[t].scopes, route) THEN "forbidden"
                          ELSE "served"]
  /\ UNCHANGED <<clock, file, env, up, clients, token, allowed, restarts>>

\* A deploy: the process starts again, perhaps with another catalogue and
\* other keys.  Requests in flight are cut off.
Deploy ==
  /\ restarts < MaxRestarts
  /\ restarts' = restarts + 1
  /\ \E catalogue \in Catalogues, e \in Envs : Boot(catalogue, e)
  /\ token' = [t \in Tokens |-> IF token[t].st = "verifying"
                                THEN [NoToken EXCEPT !.st = "refused"] ELSE token[t]]
  /\ allowed' = Noted(up', clients', clock)
  /\ call' = NoCall
  /\ UNCHANGED clock

Tick ==
  /\ clock < MaxTime
  /\ clock' = clock + 1
  /\ allowed' = Noted(up, clients, clock + 1)
  /\ call' = NoCall
  /\ UNCHANGED <<file, env, up, clients, token, restarts>>

Next ==
  \/ \E t \in Tokens : AskToken(t) \/ Verified(t) \/ \E route \in Routes : Call(t, route)
  \/ Deploy \/ Tick

Spec == Init /\ [][Next]_vars

-----------------------------------------------------------------------------
Client == token[call.token].client

\* A deploy that takes a scope, or a client, out of the catalogue is fully
\* effective one token lifetime later: whoever is served was allowed to by a
\* catalogue that was loaded less than that ago.
RevokedInTime ==
  call.outcome = "served" => clock < allowed[<<Client, call.route>>] + TTL

\* No token is lost by a deploy that keeps the keys: a token is turned away
\* as invalid only when its time is over, when the keys have changed since it
\* was issued, or when the two keys in the environment are not a pair.
TokensSurviveDeploys ==
  call.outcome = "unauthorized" =>
    \/ clock >= token[call.token].issued + TTL
    \/ token[call.token].key # env.private
    \/ env.public \notin {NoKey, env.private}

\* The server runs on the whole of a catalogue or not at all: a mistake in it
\* does not quietly leave a client out, or with the scopes of another entry.
WholeCatalogue ==
  up => \A i \in DOMAIN file :
          file[i].client \in DOMAIN clients /\ clients[file[i].client] = file[i]
=============================================================================
