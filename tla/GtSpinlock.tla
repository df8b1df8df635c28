----------------------------- MODULE GtSpinlock -----------------------------
(***************************************************************************)
(* The spinlock of user/core/gt_spinlock.h under the client of             *)
(* test/spinlock_test.c: every thread repeats lock; g_total_count++;       *)
(* unlock.  The increment is a load and a store, so that two threads in    *)
(* the critical section would lose an update.                              *)
(*                                                                         *)
(* A thread uses one of the three ways to take the lock the header offers: *)
(* gt_spinlock_lock ("plain"), gt_spinlock_trylock ("try") or the _with_val*)
(* pair ("val"), which writes a value of the caller's choice.  A failed    *)
(* compare-and-swap changes nothing and is retried: it is a stuttering     *)
(* step.                                                                   *)
(***************************************************************************)
EXTENDS Integers, FiniteSets

CONSTANTS Threads,     \* thread ids
          Api,         \* thread -> "plain" | "try" | "val"
          Val,         \* thread -> the value it passes to the _with_val pair
          Iterations   \* increments per thread (10000 in the test)

\* 0 is the value of a free lock: a caller of the _with_val pair that passed
\* 0 would swap 0 for 0 and exclude nobody.
ASSUME SpinlockAssumption ==
    /\ IsFiniteSet(Threads)
    /\ Api \in [Threads -> {"plain", "try", "val"}]
    /\ Val \in [Threads -> Int \ {0}]
    /\ Iterations \in Nat \ {0}

VARIABLES locked,      \* spl->locked
          total,       \* g_total_count
          pc,          \* where each thread stands in pthread_routine
          tmp,         \* the register of the increment
          iter         \* finished iterations of a thread

vars == <<locked, total, pc, tmp, iter>>

Goto(t, from, to) == pc[t] = from /\ pc' = [pc EXCEPT ![t] = to]

\* The value a thread leaves in the lock word while it holds the lock.
LockValue(t) == IF Api[t] = "val" THEN Val[t] ELSE 1

\* gt_spinlock_init in main, before any thread exists.
Init == /\ locked = 0
        /\ total = 0
        /\ pc = [t \in Threads |-> "lock"]
        /\ tmp = [t \in Threads |-> 0]
        /\ iter = [t \in Threads |-> 0]

-----------------------------------------------------------------------------
\* __sync_bool_compare_and_swap(&spl->locked, old, new), when it succeeds.
CompareAndSwap(old, new) == locked = old /\ locked' = new

\* Mutant: the word is written without the test for 0.
MUT_LockWithoutTest(t) == /\ Api[t] = "plain"
                          /\ Goto(t, "lock", "load")
                          /\ locked' = 1
                          /\ UNCHANGED <<total, tmp, iter>>

\* while(!CAS(0, 1)) GT_PAUSE()
gt_spinlock_lock(t) == /\ Api[t] = "plain"
                       /\ Goto(t, "lock", "load")
                       /\ CompareAndSwap(0, 1)
                       /\ UNCHANGED <<total, tmp, iter>>

\* Mutant: the result of the compare-and-swap is not looked at.
MUT_TryResultIgnored(t) == /\ Api[t] = "try"
                           /\ Goto(t, "lock", "load")
                           /\ locked' = IF locked = 0 THEN 1 ELSE locked
                           /\ UNCHANGED <<total, tmp, iter>>

\* A try that returns GT_FALSE is repeated by the caller.
gt_spinlock_trylock(t) == /\ Api[t] = "try"
                          /\ Goto(t, "lock", "load")
                          /\ CompareAndSwap(0, 1)
                          /\ UNCHANGED <<total, tmp, iter>>

\* Mutant: every caller writes 1 instead of its value.
MUT_WritesOne(t) == /\ Api[t] = "val"
                    /\ Goto(t, "lock", "load")
                    /\ CompareAndSwap(0, 1)
                    /\ UNCHANGED <<total, tmp, iter>>

gt_spinlock_lock_with_val(t) == /\ Api[t] = "val"
                                /\ Goto(t, "lock", "load")
                                /\ CompareAndSwap(0, Val[t])
                                /\ UNCHANGED <<total, tmp, iter>>

\* g_total_count++ , first half.
LoadCount(t) == /\ Goto(t, "load", "store")
                /\ tmp' = [tmp EXCEPT ![t] = total]
                /\ UNCHANGED <<locked, total, iter>>

\* g_total_count++ , second half.
StoreCount(t) == /\ Goto(t, "store", "unlock")
                 /\ total' = tmp[t] + 1
                 /\ UNCHANGED <<locked, tmp, iter>>

\* Mutant: <= for < in the loop.
MUT_OnceTooOften(t) ==
    /\ iter' = [iter EXCEPT ![t] = @ + 1]
    /\ Goto(t, "unlock", IF iter[t] + 1 <= Iterations THEN "lock" ELSE "done")
    /\ UNCHANGED <<total, tmp>>

\* The loop of pthread_routine: once more, or return.
EndIteration(t) ==
    /\ iter' = [iter EXCEPT ![t] = @ + 1]
    /\ Goto(t, "unlock", IF iter[t] + 1 < Iterations THEN "lock" ELSE "done")
    /\ UNCHANGED <<total, tmp>>

\* __sync_lock_release: an unconditional store of 0.
gt_spinlock_unlock(t) == /\ Api[t] # "val"
                         /\ locked' = 0
                         /\ EndIteration(t)

\* Mutant: unlocking leaves the word as it is.
MUT_KeepsValue(t) == /\ Api[t] = "val"
                     /\ CompareAndSwap(Val[t], Val[t])
                     /\ EndIteration(t)

\* while(!CAS(val, 0)) GT_PAUSE(): waits for its own value.
gt_spinlock_unlock_with_val(t) == /\ Api[t] = "val"
                                  /\ CompareAndSwap(Val[t], 0)
                                  /\ EndIteration(t)

Step(t) == \/ gt_spinlock_lock(t)
           \/ gt_spinlock_trylock(t)
           \/ gt_spinlock_lock_with_val(t)
           \/ LoadCount(t)
           \/ StoreCount(t)
           \/ gt_spinlock_unlock(t)
           \/ gt_spinlock_unlock_with_val(t)

Next == \E t \in Threads : Step(t)

SafeSpec == Init /\ [][Next]_vars

\* The kernel scheduler runs every thread again and again: weak fairness of
\* each thread, nothing about who wins a contended compare-and-swap.
Spec == SafeSpec /\ \A t \in Threads : WF_vars(Step(t))
-----------------------------------------------------------------------------
InCS(t) == pc[t] \in {"load", "store", "unlock"}

TypeOK == /\ locked \in Int
          /\ total \in Nat
          /\ pc \in [Threads -> {"lock", "load", "store", "unlock", "done"}]
          /\ tmp \in [Threads -> Nat]
          /\ iter \in [Threads -> 0..Iterations]

\* No two threads are between lock and unlock, whatever mix of plain, try and
\* _with_val callers shares the lock word.
MutualExclusion == \A t, u \in Threads : InCS(t) /\ InCS(u) => t = u

\* The lock word names its holder and is free when there is none, so the
\* compare-and-swap of gt_spinlock_unlock_with_val never has to wait.
WordNamesHolder ==
    /\ \A t \in Threads : InCS(t) => locked = LockValue(t)
    /\ (\A t \in Threads : ~InCS(t)) => locked = 0

\* Nobody stored between a thread's load of g_total_count and its store.
NoLostUpdate == \A t \in Threads : pc[t] = "store" => tmp[t] = total

\* The loop counter is in step with the program counter: a thread that is
\* not done has an iteration left.
IterationsLeft == \A t \in Threads : pc[t] # "done" => iter[t] < Iterations

\* The strengthening under which the four properties above are inductive.
IInv == /\ TypeOK
        /\ MutualExclusion
        /\ WordNamesHolder
        /\ NoLostUpdate
        /\ IterationsLeft

-----------------------------------------------------------------------------
\* The increment of an iteration takes effect when the count is stored.
Count == INSTANCE GtAtomicCount
    WITH left <- [t \in Threads |-> Iterations - iter[t] -
                                    (IF pc[t] = "unlock" THEN 1 ELSE 0)]

\* The lock makes the two halves of g_total_count++ one atomic step, and
\* every thread performs all its increments: pthread_join returns for each of
\* them and the total the test logs is threads * iterations.
AtomicIncrements == Count!Spec
=============================================================================
