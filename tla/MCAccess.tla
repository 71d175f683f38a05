------------------------------ MODULE MCAccess ------------------------------
(* An instance of Access for TLC.                                          *)
EXTENDS Access

CONSTANTS c1, c2

\* A read and a write route, and one that takes two scopes.
ThreeRoutes == {"search", "create", "migrate"}
ThreeScopes ==
  [search |-> {"events:read"}, create |-> {"events:write"},
   migrate |-> {"events:write", "users:write"}]

Entry(c, scopes, sound) == [client |-> c, secret |-> "s1", scopes |-> scopes, sound |-> sound]

\* A client with all scopes, with some, with none and left out; its id twice;
\* an entry that is not sound.
SixCatalogues ==
  { <<Entry(c1, {"*"}, TRUE), Entry(c2, {"events:read"}, TRUE)>>,
    <<Entry(c1, {"events:read", "events:write"}, TRUE)>>,
    <<Entry(c1, {}, TRUE), Entry(c2, {"events:write", "users:write"}, TRUE)>>,
    <<>>,
    <<Entry(c1, {"events:read"}, TRUE), Entry(c1, {"*"}, TRUE)>>,
    <<Entry(c1, {"*"}, TRUE), Entry(c2, {"*"}, FALSE)>> }
=============================================================================
