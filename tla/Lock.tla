-------------------------------- MODULE Lock --------------------------------
(***************************************************************************)
(* What a mutual-exclusion lock promises: at most one holder, and while    *)
(* the lock is free and somebody waits for it, somebody gets it.  The      *)
(* low-level lock of nptl is shown to implement this specification.        *)
(***************************************************************************)
CONSTANT Threads

VARIABLES holders,  \* the set of threads that hold the lock
          waiting   \* the threads inside a blocking acquisition

vars == <<holders, waiting>>

Init ==
  /\ holders = {}
  /\ waiting = {}

\* A blocking acquisition did not succeed at once.
Request(t) ==
  /\ t \notin waiting \cup holders
  /\ waiting' = waiting \cup {t}
  /\ UNCHANGED holders

Acquire(t) ==
  /\ holders = {}
  /\ holders' = {t}
  /\ waiting' = waiting \ {t}

\* A timed acquisition gives up.
GiveUp(t) ==
  /\ t \in waiting
  /\ waiting' = waiting \ {t}
  /\ UNCHANGED holders

Release(t) ==
  /\ t \in holders
  /\ holders' = holders \ {t}
  /\ UNCHANGED waiting

Next == \E t \in Threads : Request(t) \/ Acquire(t) \/ GiveUp(t) \/ Release(t)

AcquireByWaiter == \E t \in waiting : Acquire(t)

Safety == Init /\ [][Next]_vars

Spec == Safety /\ WF_vars(AcquireByWaiter)
=============================================================================
