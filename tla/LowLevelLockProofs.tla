------------------------- MODULE LowLevelLockProofs -------------------------
(* Machine-checked proofs about LowLevelLock, for any set of threads. *)
EXTENDS LowLevelLock, TLAPS

\* The initial state satisfies the inductive invariant.
LEMMA InitEstablishesIInv == Init => IInv
BY DEF Init, IInv, TypeOK, MutualExclusion, SleeperNotForgotten

\* Every atomic step of lowlevellock.h/.c and of the client preserves it.
LEMMA NextPreservesIInv == IInv /\ [Next]_vars => IInv'
<1> SUFFICES ASSUME IInv, [Next]_vars PROVE IInv'
  OBVIOUS
<1> USE DEF IInv, TypeOK, MutualExclusion, SleeperNotForgotten, Goto, Client,
            MayCall
<1>1. CASE \E t \in Threads : LllLock(t)
  BY <1>1 DEF LllLock
<1>2. CASE \E t \in Threads : LllCondLock(t)
  BY <1>2 DEF LllCondLock
<1>3. CASE \E t \in Threads : Clocklock(t)
  BY <1>3 DEF Clocklock
<1>4. CASE \E t \in Threads : LllTrylock(t)
  BY <1>4 DEF LllTrylock
<1>5. CASE \E t \in Threads : WaitLoad(t)
  BY <1>5 DEF WaitLoad
<1>6. CASE \E t \in Threads : WaitExchange(t)
  BY <1>6 DEF WaitExchange
<1>7. CASE \E t \in Threads : FutexWait(t)
  BY <1>7 DEF FutexWait
<1>8. CASE \E t \in Threads : LllLockWake(t)
  BY <1>8 DEF LllLockWake
<1>9. CASE \E t \in Threads : LllUnlock(t)
  BY <1>9 DEF LllUnlock
<1>10. CASE \E t \in Threads : SpuriousWake(t)
  BY <1>10 DEF SpuriousWake
<1>11. CASE \E t \in Threads : TimeOut(t)
  BY <1>11 DEF TimeOut
<1>12. CASE \E t \in Threads : DropReference(t)
  BY <1>12 DEF DropReference
<1>13. CASE \E t \in Threads : Destroy(t)
  BY <1>13 DEF Destroy
<1>14. CASE Reuse
  BY <1>14 DEF Reuse
<1>15. CASE UNCHANGED vars
  BY <1>15 DEF vars
<1> QED
  BY <1>1, <1>2, <1>3, <1>4, <1>5, <1>6, <1>7, <1>8, <1>9, <1>10, <1>11,
     <1>12, <1>13, <1>14, <1>15 DEF Next, Call, Run

\* The inductive invariant holds in every reachable state.
THEOREM SpecInvariant == Spec => []IInv
BY InitEstablishesIInv, NextPreservesIInv, PTL DEF Spec

\* Between a successful lll_lock, lll_trylock or clocklock and its lll_unlock a
\* thread is alone, whatever the number of threads and however often the
\* memory of the lock is reused.
THEOREM MutualExclusionHolds == Spec => []MutualExclusion
<1>1. IInv => MutualExclusion
  BY DEF IInv
<1> QED
  BY <1>1, SpecInvariant, PTL

\* The unlock never leaves a sleeper behind without a wake-up to come.
THEOREM NoSleeperForgotten == Spec => []SleeperNotForgotten
<1>1. IInv => SleeperNotForgotten
  BY DEF IInv
<1> QED
  BY <1>1, SpecInvariant, PTL

\* The mutex destruction requirement quoted at __lll_unlock.
THEOREM DestroyedLockUntouched == Spec => []NoAccessAfterDestroy
<1>1. IInv => NoAccessAfterDestroy
  BY DEF IInv, NoAccessAfterDestroy, Touching
<1> QED
  BY <1>1, SpecInvariant, PTL

\* Every step of the low-level lock is a step of the abstract lock or leaves
\* the abstract lock alone.
LEMMA StepRefines == IInv /\ [Next]_vars => [L!Next]_(L!vars)
<1> SUFFICES ASSUME IInv, [Next]_vars PROVE [L!Next]_(L!vars)
  OBVIOUS
<1> DEFINE H == {t \in Threads : pc[t] = "held"}
           W == {t \in Threads : pc[t] \in Waiting}
<1> SUFFICES \/ \E t \in Threads :
                  \/ /\ t \notin W \cup H
                     /\ W' = W \cup {t}
                     /\ H' = H
                  \/ /\ H = {}
                     /\ H' = {t}
                     /\ W' = W \ {t}
                  \/ /\ t \in W
                     /\ W' = W \ {t}
                     /\ H' = H
                  \/ /\ t \in H
                     /\ H' = H \ {t}
                     /\ W' = W
             \/ H' = H /\ W' = W
  BY DEF L!Next, L!vars, L!Request, L!Acquire, L!GiveUp, L!Release
<1> USE DEF IInv, TypeOK, MutualExclusion, Goto, Client, MayCall, Waiting
<1>1. CASE \E t \in Threads : LllLock(t)
  BY <1>1 DEF LllLock
<1>2. CASE \E t \in Threads : LllCondLock(t)
  BY <1>2 DEF LllCondLock
<1>3. CASE \E t \in Threads : Clocklock(t)
  BY <1>3 DEF Clocklock
<1>4. CASE \E t \in Threads : LllTrylock(t)
  BY <1>4 DEF LllTrylock
<1>5. CASE \E t \in Threads : WaitLoad(t)
  BY <1>5 DEF WaitLoad
<1>6. CASE \E t \in Threads : WaitExchange(t)
  BY <1>6 DEF WaitExchange
<1>7. CASE \E t \in Threads : FutexWait(t)
  BY <1>7 DEF FutexWait
<1>8. CASE \E t \in Threads : LllLockWake(t)
  BY <1>8 DEF LllLockWake
<1>9. CASE \E t \in Threads : LllUnlock(t)
  BY <1>9 DEF LllUnlock
<1>10. CASE \E t \in Threads : SpuriousWake(t)
  BY <1>10 DEF SpuriousWake
<1>11. CASE \E t \in Threads : TimeOut(t)
  BY <1>11 DEF TimeOut
<1>12. CASE \E t \in Threads : DropReference(t)
  BY <1>12 DEF DropReference
<1>13. CASE \E t \in Threads : Destroy(t)
  BY <1>13 DEF Destroy
<1>14. CASE Reuse
  BY <1>14 DEF Reuse
<1>15. CASE UNCHANGED vars
  BY <1>15 DEF vars
<1> QED
  BY <1>1, <1>2, <1>3, <1>4, <1>5, <1>6, <1>7, <1>8, <1>9, <1>10, <1>11,
     <1>12, <1>13, <1>14, <1>15 DEF Next, Call, Run

\* The safety part of the refinement: the low-level lock implements Lock.
THEOREM LowLevelLockImplementsLock == Spec => L!Safety
<1>1. Init => L!Init
  BY DEF Init, L!Init, Waiting
<1> QED
  BY <1>1, StepRefines, SpecInvariant, PTL DEF Spec, L!Safety
=============================================================================
