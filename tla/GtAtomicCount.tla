--------------------------- MODULE GtAtomicCount ---------------------------
(***************************************************************************)
(* What the users of gt_spinlock.h are promised: `g_total_count++` between *)
(* lock and unlock is one indivisible step.  Every thread has a number of  *)
(* increments left to do, and each of them adds exactly one to the total.  *)
(***************************************************************************)
EXTENDS Naturals

CONSTANTS Threads,     \* the threads of test/spinlock_test.c
          Iterations   \* increments each of them performs

VARIABLES total,       \* g_total_count
          left         \* increments a thread has not performed yet

Init == /\ total = 0
        /\ left = [t \in Threads |-> Iterations]

Increment(t) == /\ left[t] > 0
                /\ left' = [left EXCEPT ![t] = @ - 1]
                /\ total' = total + 1

Next == \E t \in Threads : Increment(t)

vars == <<total, left>>

SafeSpec == Init /\ [][Next]_vars

Spec == SafeSpec /\ WF_vars(Next)
=============================================================================
