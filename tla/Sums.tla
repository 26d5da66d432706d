--------------------------------- MODULE Sums ---------------------------------
(***************************************************************************)
(* The one way the services add amounts: over a set, in any order, since   *)
(* decimal.js and numeric add without an error.                            *)
(***************************************************************************)
EXTENDS Integers, FiniteSetsExt

\* The sum of f[x] for all x in a finite set S.
SumOver(f, S) == MapThenSumSet(LAMBDA x : f[x], S)
=============================================================================
