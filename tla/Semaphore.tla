------------------------------ MODULE Semaphore ------------------------------
(***************************************************************************)
(* What a POSIX semaphore promises: sem_post adds a token up to a maximum, *)
(* a successful sem_wait takes exactly one, and while there is a token and *)
(* somebody waits, somebody takes it.                                      *)
(***************************************************************************)
EXTENDS Integers

CONSTANTS Threads, SEM_VALUE_MAX

VARIABLES value,   \* available tokens
          waiting  \* threads inside a blocking sem_wait

vars == <<value, waiting>>

Init ==
  /\ value = 0
  /\ waiting = {}

Post ==
  /\ value < SEM_VALUE_MAX
  /\ value' = value + 1
  /\ UNCHANGED waiting

Enter(t) ==
  /\ t \notin waiting
  /\ waiting' = waiting \cup {t}
  /\ UNCHANGED value

Take(t) ==
  /\ t \in waiting
  /\ value > 0
  /\ value' = value - 1
  /\ waiting' = waiting \ {t}

\* sem_wait returns -1, or its thread is cancelled.
Leave(t) ==
  /\ t \in waiting
  /\ waiting' = waiting \ {t}
  /\ UNCHANGED value

Next == Post \/ \E t \in Threads : Enter(t) \/ Take(t) \/ Leave(t)

TakeByWaiter == \E t \in Threads : Take(t)

Safety == Init /\ [][Next]_vars

Spec == Safety /\ WF_vars(TakeByWaiter)
=============================================================================
