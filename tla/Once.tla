-------------------------------- MODULE Once --------------------------------
(***************************************************************************)
(* pthread_once (nptl/pthread_once.c) with cancellation of the initialiser *)
(* and with fork (sysdeps/nptl/fork.h).  The model follows one process and *)
(* then its child: a fork keeps the forking thread and the memory, removes *)
(* the other threads, whose slots stand for threads the child creates      *)
(* later, and starts a new fork generation.                                *)
(***************************************************************************)
EXTENDS Integers

CONSTANTS Threads,
          MaxForks,    \* bound on forks; the 30-bit generation does not wrap
          MaxCancels,  \* bound on cancelled initialisers
          ForkInInit   \* may init_routine itself call fork?

ASSUME OnceAssumption ==
  MaxForks \in Nat /\ MaxCancels \in Nat /\ ForkInInit \in BOOLEAN

VARIABLES once_control,
          generation,  \* __fork_generation
          pc,
          val,         \* each thread's copy of once_control
          cancels,     \* cancellations so far
          inited       \* history: init_routine has returned

vars == <<once_control, generation, pc, val, cancels, inited>>

INPROGRESS == 1
DONE == 2
FORK_GEN_INCR == 4

IsDone(v) == (v \div DONE) % 2 = 1
IsInProgress(v) == v % 2 = 1

newval == generation + INPROGRESS

Goto(t, place) == pc' = [pc EXCEPT ![t] = place]

Load(t) == val' = [val EXCEPT ![t] = once_control]

\* Woken, or the word had changed: back to the load of the outer loop.
WakeAll(t, place) ==
  pc' = [s \in Threads |-> IF s = t THEN place
                           ELSE IF pc[s] = "blocked" THEN "load" ELSE pc[s]]

Init ==
  /\ once_control = 0
  /\ generation = 0
  /\ pc = [t \in Threads |-> "idle"]
  /\ val = [t \in Threads |-> 0]
  /\ cancels = 0
  /\ inited = FALSE

-----------------------------------------------------------------------------
\* The fast path; a load of DONE returns.
OnceCall(t) ==
  /\ pc[t] = "idle"
  /\ ~IsDone(once_control)
  /\ Goto(t, "load")
  /\ UNCHANGED <<once_control, generation, val, cancels, inited>>

\* __pthread_once_slow: load, and return if the initialisation is done.
SlowLoad(t) ==
  /\ pc[t] = "load"
  /\ Load(t)
  /\ Goto(t, IF IsDone(once_control) THEN "idle" ELSE "cas")
  /\ UNCHANGED <<once_control, generation, cancels, inited>>

\* Mutant of SlowCas: after a failure, tries again without the test for DONE.
CasRetriesBlindly(t) ==
  /\ pc[t] = "cas"
  /\ IF once_control = val[t]
       THEN /\ once_control' = newval
            /\ Goto(t, IF IsInProgress(val[t]) /\ val[t] = newval THEN "wait" ELSE "init")
            /\ UNCHANGED val
       ELSE Load(t) /\ Goto(t, "cas") /\ UNCHANGED once_control
  /\ UNCHANGED <<generation, cancels, inited>>

\* Store newval; then wait if somebody of this generation was there first.
SlowCas(t) ==
  /\ pc[t] = "cas"
  /\ IF once_control = val[t]
       THEN /\ once_control' = newval
            /\ Goto(t, IF IsInProgress(val[t]) /\ val[t] = newval THEN "wait" ELSE "init")
            /\ UNCHANGED val
       ELSE /\ Load(t)
            /\ Goto(t, IF IsDone(once_control) THEN "idle" ELSE "cas")
            /\ UNCHANGED once_control
  /\ UNCHANGED <<generation, cancels, inited>>

\* Mutant of FutexWait: a wait that fails is made again with the old value.
FutexWaitAgain(t) ==
  /\ pc[t] = "wait"
  /\ Goto(t, IF once_control = newval THEN "blocked" ELSE "wait")
  /\ UNCHANGED <<once_control, generation, val, cancels, inited>>

\* futex_wait (once_control, newval): sleep unless the word has changed.
FutexWait(t) ==
  /\ pc[t] = "wait"
  /\ Goto(t, IF once_control = newval THEN "blocked" ELSE "load")
  /\ UNCHANGED <<once_control, generation, val, cancels, inited>>

SpuriousWake(t) ==
  /\ pc[t] = "blocked"
  /\ Goto(t, "load")
  /\ UNCHANGED <<once_control, generation, val, cancels, inited>>

\* init_routine returns; DONE is stored.
InitReturns(t) ==
  /\ pc[t] = "init"
  /\ once_control' = DONE
  /\ Goto(t, "wake")
  /\ inited' = TRUE
  /\ UNCHANGED <<generation, val, cancels>>

\* init_routine is cancelled: clear_once_control stores 0.
InitCancelled(t) ==
  /\ pc[t] = "init"
  /\ cancels < MaxCancels
  /\ cancels' = cancels + 1
  /\ once_control' = 0
  /\ Goto(t, "wake")
  /\ UNCHANGED <<generation, val, inited>>

\* futex_wake (once_control, INT_MAX) of both paths.
Wake(t) ==
  /\ pc[t] = "wake"
  /\ WakeAll(t, "idle")
  /\ UNCHANGED <<once_control, generation, val, cancels, inited>>

\* fork, seen in the child.
Fork(t) ==
  /\ pc[t] \in {"idle"} \cup (IF ForkInInit THEN {"init"} ELSE {})
  /\ generation < MaxForks * FORK_GEN_INCR
  /\ generation' = generation + FORK_GEN_INCR
  /\ pc' = [s \in Threads |-> IF s = t THEN pc[t] ELSE "idle"]
  /\ UNCHANGED <<once_control, val, cancels, inited>>

-----------------------------------------------------------------------------
\* An initialised process in which nobody is inside pthread_once.
Done ==
  /\ IsDone(once_control)
  /\ \A t \in Threads : pc[t] = "idle"
  /\ UNCHANGED vars

Run(t) ==
  SlowLoad(t) \/ SlowCas(t) \/ FutexWait(t) \/ InitReturns(t) \/ Wake(t)

Next ==
  \/ \E t \in Threads :
       \/ OnceCall(t) \/ Run(t) \/ SpuriousWake(t) \/ InitCancelled(t) \/ Fork(t)
  \/ Done

\* Threads run and init_routine terminates.
Fairness == \A t \in Threads : WF_vars(Run(t))

Spec == Init /\ [][Next]_vars /\ Fairness

-----------------------------------------------------------------------------
Controls ==
  {0, DONE} \cup {n * FORK_GEN_INCR + INPROGRESS : n \in 0 .. MaxForks}

\* Types: once_control is 0, DONE, or INPROGRESS with the fork generation of this
\* process or of one before it.
TypeOK ==
  /\ once_control \in Controls
  /\ generation \in {n * FORK_GEN_INCR : n \in 0 .. MaxForks}
  /\ pc \in [Threads -> {"idle", "load", "cas", "wait", "blocked", "init", "wake"}]
  /\ val \in [Threads -> Controls]
  /\ cancels \in 0 .. MaxCancels
  /\ inited \in BOOLEAN

\* The comment of __pthread_once_slow: "the first thread to do so via a CAS on
\* once_control runs init_routine, other threads block".  No two threads of a
\* process are in init_routine, and once it has returned it is never entered
\* again: DONE stays, in the child of a fork as well.
OneInitializer ==
  /\ TypeOK
  /\ \A s, t \in Threads : pc[s] = "init" /\ pc[t] = "init" => s = t
  /\ inited => IsDone(once_control) /\ \A t \in Threads : pc[t] # "init"

\* Every call returns, through cancelled initialisers, forks in the middle of
\* an initialisation and spurious wake-ups.
CallsReturn == \A t \in Threads : pc[t] # "idle" ~> pc[t] = "idle"

=============================================================================
