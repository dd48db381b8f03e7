----------------------------- MODULE OnceProofs -----------------------------
(* Machine-checked proofs about Once, for any set of threads and any bounds. *)
EXTENDS Once, TLAPS

\* The inductive invariant.  A thread in init_routine is what INPROGRESS with
\* the current generation stands for, and a thread at the compare-and-swap
\* has not read DONE, so that it cannot replace DONE.
IInv ==
  /\ OneInitializer
  /\ \A t \in Threads : pc[t] = "init" => once_control = newval
  /\ \A t \in Threads : pc[t] = "cas" => ~IsDone(val[t])

\* The flag bits of the values that are stored in once_control.
LEMMA Flags ==
  /\ ~IsDone(0)
  /\ IsDone(DONE)
  /\ \A n \in Nat : LET v == n * FORK_GEN_INCR + INPROGRESS IN IsInProgress(v) /\ ~IsDone(v)
BY DEF IsDone, IsInProgress, DONE, FORK_GEN_INCR, INPROGRESS

\* A new generation is one of those that the type invariant allows.
LEMMA NextGeneration ==
  ASSUME generation \in {n * FORK_GEN_INCR : n \in 0 .. MaxForks},
         generation < MaxForks * FORK_GEN_INCR
  PROVE  generation + FORK_GEN_INCR \in {n * FORK_GEN_INCR : n \in 0 .. MaxForks}
<1>1. PICK n \in 0 .. MaxForks : generation = n * FORK_GEN_INCR
  OBVIOUS
<1>2. n + 1 \in 0 .. MaxForks /\ (n + 1) * FORK_GEN_INCR = generation + FORK_GEN_INCR
  BY <1>1, OnceAssumption DEF FORK_GEN_INCR
<1> QED
  BY <1>2

\* What the compare-and-swap stores is never DONE and is of the right type.
LEMMA NewvalInProgress ==
  ASSUME TypeOK
  PROVE  newval \in Controls /\ IsInProgress(newval) /\ ~IsDone(newval)
<1>1. PICK n \in 0 .. MaxForks : generation = n * FORK_GEN_INCR
  BY DEF TypeOK
<1>2. newval = n * FORK_GEN_INCR + INPROGRESS
  BY <1>1 DEF newval
<1> QED
  BY <1>2, Flags, OnceAssumption DEF Controls

\* Every step of __pthread_once_slow, a cancellation and a fork from outside
\* init_routine preserve the inductive invariant.
LEMMA NextPreservesIInv ==
  ASSUME ~ForkInInit, IInv, [Next]_vars
  PROVE  IInv'
<1> USE DEF IInv, OneInitializer, TypeOK, Goto, Load
<1>0. newval \in Controls /\ IsInProgress(newval) /\ ~IsDone(newval) /\ ~IsDone(0) /\ IsDone(DONE)
  BY NewvalInProgress, Flags
<1>1. ASSUME NEW t \in Threads, OnceCall(t) PROVE IInv'
  BY <1>1 DEF OnceCall, newval
<1>2. ASSUME NEW t \in Threads, SlowLoad(t) PROVE IInv'
  BY <1>2 DEF SlowLoad, newval
<1>3. ASSUME NEW t \in Threads, SlowCas(t) PROVE IInv'
  BY <1>0, <1>3 DEF SlowCas, newval
<1>4. ASSUME NEW t \in Threads, FutexWait(t) PROVE IInv'
  BY <1>4 DEF FutexWait, newval
<1>5. ASSUME NEW t \in Threads, SpuriousWake(t) PROVE IInv'
  BY <1>5 DEF SpuriousWake, newval
<1>6. ASSUME NEW t \in Threads, InitReturns(t) PROVE IInv'
  BY <1>0, <1>6 DEF InitReturns, newval, Controls
<1>7. ASSUME NEW t \in Threads, InitCancelled(t) PROVE IInv'
  BY <1>0, <1>7, OnceAssumption DEF InitCancelled, newval, Controls
<1>8. ASSUME NEW t \in Threads, Wake(t) PROVE IInv'
  BY <1>8 DEF Wake, WakeAll, newval
<1>9. ASSUME NEW t \in Threads, Fork(t) PROVE IInv'
  BY <1>9, NextGeneration DEF Fork, newval
<1>10. CASE UNCHANGED vars
  BY <1>10 DEF vars, newval
<1> QED
  BY <1>1, <1>2, <1>3, <1>4, <1>5, <1>6, <1>7, <1>8, <1>9, <1>10 DEF Next, Run, Done

\* No two threads of a process run init_routine, and none does after it has
\* returned once, provided that init_routine itself does not call fork.
THEOREM OneInitializerHolds ==
  ASSUME ~ForkInInit
  PROVE  Spec => []OneInitializer
<1>1. Init => IInv
  <2>1. 0 \in 0 .. MaxForks /\ 0 \in 0 .. MaxCancels /\ 0 = 0 * FORK_GEN_INCR
    BY OnceAssumption DEF FORK_GEN_INCR
  <2> QED
    BY <2>1 DEF Init, IInv, OneInitializer, TypeOK, Controls
<1>2. IInv /\ [Next]_vars => IInv'
  BY NextPreservesIInv
<1>3. IInv => OneInitializer
  BY DEF IInv
<1> QED
  BY <1>1, <1>2, <1>3, PTL DEF Spec
=============================================================================
