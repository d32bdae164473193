--------------------------- MODULE MCPublication ---------------------------
(* Instances of Publication for TLC: requests and voters are               *)
(* interchangeable.                                                        *)
EXTENDS Publication, TLC

Symmetry == Permutations(Requests) \cup Permutations(Ballots)
=============================================================================
