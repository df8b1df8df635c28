----------------------------- MODULE MCNetwork -----------------------------
(* Three connections over two descriptors of one datanet thread, so that     *)
(* descriptors, events and batch entries are reused; and two connections     *)
(* over two threads.                                                         *)
EXTENDS GtNetwork, TLC

CONSTANTS c1, c2, c3, g1, g2, g3

TwoConns == {c1, c2}
ThreeConns == {c1, c2, c3}
TwoEvents == {g1, g2}
ThreeEvents == {g1, g2, g3}
TwoPollers == 0..1
OnePoller == 0..0
SharedFDs == {4, 6}
SpreadFDs == {4, 5}

Symmetry == Permutations(Conns) \cup Permutations(Events)
=============================================================================
