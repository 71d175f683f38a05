--------------------------- MODULE MCBookCatalog ---------------------------
(* Instances of BookCatalog for TLC.                                       *)
EXTENDS BookCatalog, TLC

CONSTANTS p1, p2

\* One page on a site without a timeout, one the service refuses.
ScrapedAndUnsupported == p1 :> "goodreads" @@ p2 :> "unsupported"

\* One page on the site with a timeout, one on a site without.
TimedAndScraped == p1 :> "openlibrary" @@ p2 :> "storygraph"

\* Every request is about the same page.
OnePage == p1 :> "openlibrary"

\* Requests differ only in what Init lets each of them ask for.
RequestSymmetry == Permutations(Requests)
=============================================================================
