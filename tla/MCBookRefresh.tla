--------------------------- MODULE MCBookRefresh ----------------------------
(* A Goodreads book, a Storygraph book and one of Open Library.            *)
EXTENDS BookRefresh, TLC

CONSTANTS b1, b2, b3

InOrder == <<b1, b3, b2>>
OneOfEach == b1 :> "GR" @@ b2 :> "SG" @@ b3 :> "OL"
=============================================================================
