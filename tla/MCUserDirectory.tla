-------------------------- MODULE MCUserDirectory --------------------------
(* Instances of UserDirectory for TLC.                                     *)
EXTENDS UserDirectory, TLC

\* Requests differ only in what Init lets each of them ask for, and nothing
\* distinguishes one userId from another.
Symmetric == Permutations(Requests) \union Permutations(UserIds)
=============================================================================
