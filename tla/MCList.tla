------------------------------- MODULE MCList -------------------------------
(* Two heads and three entries: a list can be empty, have one entry, have    *)
(* neighbours and have an entry whose neighbours differ, and every operation *)
(* on two lists meets all the combinations.                                  *)
EXTENDS GtList, TLC

CONSTANTS h1, h2, e1, e2, e3

MCHeads == {h1, h2}
MCEntries == {e1, e2, e3}
Symmetry == Permutations(MCHeads) \cup Permutations(MCEntries)
=============================================================================
