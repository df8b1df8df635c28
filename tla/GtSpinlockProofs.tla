-------------------------- MODULE GtSpinlockProofs --------------------------
(***************************************************************************)
(* Mutual exclusion of gt_spinlock.h, and the atomicity of the increment   *)
(* it protects, for every set of threads, every mix of callers, every      *)
(* choice of non-zero lock values and every number of iterations.          *)
(***************************************************************************)
EXTENDS GtSpinlock, TLAPS

\* A free lock is what main leaves behind before it creates the threads.
LEMMA InitIInv == Init => IInv
  BY SpinlockAssumption
     DEF Init, IInv, TypeOK, MutualExclusion, WordNamesHolder, NoLostUpdate,
         IterationsLeft, InCS

\* Taking the lock by any of the three ways writes the taker's own non-zero
\* value over 0, which WordNamesHolder turns into "nobody was inside".
LEMMA AcquireIInv ==
  ASSUME IInv, NEW t \in Threads, Goto(t, "lock", "load"),
         CompareAndSwap(0, LockValue(t)), UNCHANGED <<total, tmp, iter>>
  PROVE  IInv'
<1>1. LockValue(t) \in Int /\ LockValue(t) # 0
  BY SpinlockAssumption DEF LockValue
<1>2. \A u \in Threads : LockValue(u) # 0
  BY SpinlockAssumption DEF LockValue
<1>3. \A u \in Threads : ~InCS(u)
  BY <1>2 DEF IInv, WordNamesHolder, CompareAndSwap
<1>4. \A u \in Threads : InCS(u)' => u = t
  BY <1>3 DEF InCS, Goto, IInv, TypeOK
<1>5. TypeOK'
  BY <1>1 DEF IInv, TypeOK, Goto, CompareAndSwap
<1>6. MutualExclusion'
  BY <1>4 DEF MutualExclusion
<1>7. WordNamesHolder'
  BY <1>4 DEF WordNamesHolder, CompareAndSwap, LockValue, Goto, InCS, IInv, TypeOK
<1>8. NoLostUpdate' /\ IterationsLeft'
  BY DEF NoLostUpdate, IterationsLeft, Goto, IInv, TypeOK
<1> QED BY <1>5, <1>6, <1>7, <1>8 DEF IInv

\* Leaving by either unlock frees the word and ends one iteration.
LEMMA ReleaseIInv ==
  ASSUME IInv, NEW t \in Threads, locked' = 0, EndIteration(t)
  PROVE  IInv'
<1>1. InCS(t) /\ iter[t] + 1 \in 0..Iterations
  BY SpinlockAssumption DEF EndIteration, Goto, InCS, IInv, IterationsLeft, TypeOK
<1>2. \A u \in Threads : ~InCS(u)'
  BY <1>1 DEF IInv, MutualExclusion, EndIteration, Goto, InCS, TypeOK
<1>3. TypeOK'
  BY <1>1 DEF IInv, TypeOK, EndIteration, Goto
<1>4. MutualExclusion' /\ WordNamesHolder' /\ NoLostUpdate'
  BY <1>2 DEF MutualExclusion, WordNamesHolder, NoLostUpdate, InCS
<1>5. IterationsLeft'
  BY <1>1, SpinlockAssumption
     DEF IInv, TypeOK, IterationsLeft, EndIteration, Goto
<1> QED BY <1>3, <1>4, <1>5 DEF IInv

\* One step of one thread preserves the inductive invariant.
LEMMA StepIInv == ASSUME IInv, NEW t \in Threads, Step(t) PROVE IInv'
<1>1. CASE gt_spinlock_lock(t)
  BY <1>1, AcquireIInv DEF gt_spinlock_lock, LockValue
<1>2. CASE gt_spinlock_trylock(t)
  BY <1>2, AcquireIInv DEF gt_spinlock_trylock, LockValue
<1>3. CASE gt_spinlock_lock_with_val(t)
  BY <1>3, AcquireIInv DEF gt_spinlock_lock_with_val, LockValue
<1>4. CASE LoadCount(t)
  <2>1. \A u \in Threads : InCS(u)' <=> InCS(u)
    BY <1>4 DEF LoadCount, Goto, InCS, IInv, TypeOK
  <2>2. MutualExclusion' /\ WordNamesHolder'
    BY <1>4, <2>1 DEF IInv, MutualExclusion, WordNamesHolder, LoadCount, LockValue
  <2>3. TypeOK' /\ NoLostUpdate' /\ IterationsLeft'
    BY <1>4 DEF IInv, TypeOK, NoLostUpdate, IterationsLeft, LoadCount, Goto
  <2> QED BY <2>2, <2>3 DEF IInv
<1>5. CASE StoreCount(t)
  <2>1. \A u \in Threads : InCS(u)' <=> InCS(u)
    BY <1>5 DEF StoreCount, Goto, InCS, IInv, TypeOK
  <2>2. MutualExclusion' /\ WordNamesHolder'
    BY <1>5, <2>1 DEF IInv, MutualExclusion, WordNamesHolder, StoreCount, LockValue
  <2>3. \A u \in Threads : pc[u] = "store" => u = t
    BY <1>5 DEF StoreCount, Goto, IInv, MutualExclusion, InCS
  <2>4. TypeOK' /\ NoLostUpdate' /\ IterationsLeft'
    BY <1>5, <2>3 DEF IInv, TypeOK, NoLostUpdate, IterationsLeft, StoreCount, Goto
  <2> QED BY <2>2, <2>4 DEF IInv
<1>6. CASE gt_spinlock_unlock(t)
  BY <1>6, ReleaseIInv DEF gt_spinlock_unlock
<1>7. CASE gt_spinlock_unlock_with_val(t)
  BY <1>7, ReleaseIInv DEF gt_spinlock_unlock_with_val, CompareAndSwap
<1> QED BY <1>1, <1>2, <1>3, <1>4, <1>5, <1>6, <1>7 DEF Step

\* The inductive invariant, for every instance of the module.
THEOREM SpinlockInvariant == SafeSpec => []IInv
<1>1. IInv /\ [Next]_vars => IInv'
  <2> SUFFICES ASSUME IInv, [Next]_vars PROVE IInv'
    OBVIOUS
  <2>1. CASE Next
    BY <2>1, StepIInv DEF Next
  <2>2. CASE UNCHANGED vars
    BY <2>2 DEF vars, IInv, TypeOK, MutualExclusion, WordNamesHolder,
                NoLostUpdate, IterationsLeft, InCS
  <2> QED BY <2>1, <2>2
<1> QED BY InitIInv, <1>1, PTL DEF SafeSpec

\* gt_spinlock_lock, gt_spinlock_trylock and gt_spinlock_lock_with_val never
\* let a second thread in, in any combination.
THEOREM SpinlockMutualExclusion == SafeSpec => []MutualExclusion
  BY SpinlockInvariant, PTL DEF IInv

\* The compare-and-swap of gt_spinlock_unlock_with_val finds the caller's
\* value at its first try.
THEOREM SpinlockWordNamesHolder == SafeSpec => []WordNamesHolder
  BY SpinlockInvariant, PTL DEF IInv

\* No update of the counter the lock protects is lost.
THEOREM SpinlockNoLostUpdate == SafeSpec => []NoLostUpdate
  BY SpinlockInvariant, PTL DEF IInv

\* The count never goes below zero and no thread of gt_spinlock_test runs past
\* its iterations, whatever their number.
THEOREM SpinlockTyped == SafeSpec => []TypeOK
  BY SpinlockInvariant, PTL DEF IInv

-----------------------------------------------------------------------------
\* Lock, increment and unlock implement the indivisible increment of
\* GtAtomicCount: the store of the count is the increment, every other step
\* is invisible.
THEOREM SpinlockAtomicIncrements == SafeSpec => Count!SafeSpec
<1> DEFINE left == [t \in Threads |-> Iterations - iter[t] -
                                      (IF pc[t] = "unlock" THEN 1 ELSE 0)]
<1>1. Init => Count!Init
  BY SpinlockAssumption DEF Init, Count!Init
<1>2. IInv /\ [Next]_vars => [Count!Next]_(Count!vars)
  <2> SUFFICES ASSUME IInv, [Next]_vars
               PROVE  Count!Next \/ (total' = total /\ left' = left)
    BY DEF Count!vars
  <2>1. ASSUME UNCHANGED vars PROVE total' = total /\ left' = left
    BY <2>1 DEF vars
  <2>2. ASSUME NEW t \in Threads, Goto(t, "lock", "load"), UNCHANGED <<total, iter>>
        PROVE  total' = total /\ left' = left
    BY <2>2 DEF Goto, IInv, TypeOK
  <2>3. ASSUME NEW t \in Threads, LoadCount(t)
        PROVE  total' = total /\ left' = left
    BY <2>3 DEF LoadCount, Goto, IInv, TypeOK
  <2>4. ASSUME NEW t \in Threads, EndIteration(t)
        PROVE  total' = total /\ left' = left
    BY <2>4, SpinlockAssumption DEF EndIteration, Goto, IInv, TypeOK
  <2>5. ASSUME NEW t \in Threads, StoreCount(t)
        PROVE  Count!Next
    <3>1. left[t] > 0
      BY <2>5, SpinlockAssumption DEF StoreCount, Goto, IInv, TypeOK, IterationsLeft
    <3>2. left' = [left EXCEPT ![t] = @ - 1]
      <4>1. left'[t] = left[t] - 1
        BY <2>5, SpinlockAssumption DEF StoreCount, Goto, IInv, TypeOK
      <4>2. \A u \in Threads \ {t} : left'[u] = left[u]
        BY <2>5 DEF StoreCount, Goto, IInv, TypeOK
      <4> HIDE DEF left
      <4>3. left' = [u \in Threads |-> left'[u]] /\ left = [u \in Threads |-> left[u]]
        BY DEF left
      <4> QED BY <4>1, <4>2, <4>3
    <3>3. total' = total + 1
      BY <2>5 DEF StoreCount, Goto, IInv, NoLostUpdate
    <3> QED BY <3>1, <3>2, <3>3 DEF Count!Next, Count!Increment
  <2> QED
    BY <2>1, <2>2, <2>3, <2>4, <2>5
       DEF Next, Step, gt_spinlock_lock, gt_spinlock_trylock,
           gt_spinlock_lock_with_val, gt_spinlock_unlock,
           gt_spinlock_unlock_with_val
<1> QED BY SpinlockInvariant, <1>1, <1>2, PTL DEF SafeSpec, Count!SafeSpec
=============================================================================
