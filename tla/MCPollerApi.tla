---------------------------- MODULE MCPollerApi ----------------------------
(* Two descriptors and two addresses for events, so that both come back in   *)
(* new combinations, and two failing calls.  Descriptors are interchangeable *)
(* here: gt_poller.c does not compute with them.                             *)
EXTENDS GtPollerApi, TLC

CONSTANTS c, g1, g2, f1, f2

MCConns == {c}
MCEvents == {g1, g2}
MCFDs == {f1, f2}
MCPollers == {gpoller}

Symmetry == Permutations(MCEvents) \cup Permutations(MCFDs)
=============================================================================
