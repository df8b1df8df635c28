----------------------------- MODULE MCSignal -----------------------------
(***************************************************************************)
(* Two threads, the main thread one of them, a custom and a core signal,   *)
(* room for two messages and two signals sent; a thread that faults writes *)
(* as many more as there is room for, so that the socketpair fills up,     *)
(* also while a handler runs on the main thread.                           *)
(***************************************************************************)
EXTENDS GtSignal

CONSTANTS main, worker

MCThreads == {main, worker}
MCCustom == {10}   \* SIGUSR1
MCCore == {11}     \* SIGSEGV
MCFaults == {11}
=============================================================================
