----------------------------- MODULE MCSpinlock -----------------------------
(* Four threads: a plain, a try and two _with_val callers with different    *)
(* values; two iterations each, so that every thread competes again after  *)
(* its first release.                                                       *)
EXTENDS GtSpinlock, TLC

MCThreads == 1..4
MCApi == 1 :> "plain" @@ 2 :> "try" @@ 3 :> "val" @@ 4 :> "val"
MCVal == 1 :> 1 @@ 2 :> 1 @@ 3 :> 7 @@ 4 :> -1
MCIterations == 2
=============================================================================
