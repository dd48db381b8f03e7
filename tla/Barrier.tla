------------------------------ MODULE Barrier ------------------------------
(***************************************************************************)
(* pthread_barrier_wait and pthread_barrier_destroy                        *)
(* (nptl/pthread_barrier_wait.c, nptl/pthread_barrier_destroy.c), one      *)
(* action per atomic access or system call.  BARRIER_IN_THRESHOLD is a     *)
(* parameter, so that the reset of the counters happens in small models.   *)
(*                                                                         *)
(* More threads than count may use the barrier.  The client makes          *)
(* MaxRounds * count calls in all; as soon as one call of the last round   *)
(* has returned, its thread destroys the barrier.                          *)
(***************************************************************************)
EXTENDS Integers, FiniteSets

CONSTANTS Threads, count, BARRIER_IN_THRESHOLD, MaxRounds

\* pthread_barrier_init refuses the other values of count.
ASSUME BarrierAssumption ==
  /\ count \in Nat \ {0}
  /\ BARRIER_IN_THRESHOLD \in Nat
  /\ count < BARRIER_IN_THRESHOLD
  /\ MaxRounds \in Nat \ {0}

VARIABLES in, out, current_round,  \* the barrier
          pc,
          i,         \* each thread's position, or in as it last read it
          cr,        \* each thread's copy of current_round
          calls,     \* calls of pthread_barrier_wait that are left
          entered,   \* history: threads that got a position in a round
          round,     \* history: the round of each thread's current or last call
          serial,    \* history: SERIAL_THREAD results per round
          returned,  \* history: calls that returned per round
          alive      \* pthread_barrier_destroy has not returned

bar == <<in, out, current_round>>
client == <<calls, entered, round, serial, returned, alive>>
vars == <<bar, pc, i, cr, client>>

Rounds == 0 .. MaxRounds - 1

max_in_before_reset ==
  BARRIER_IN_THRESHOLD - (BARRIER_IN_THRESHOLD % count)

\* Places at which the next step accesses the barrier.
Touching == {"enter", "inwait", "inload", "load", "cas", "roundwake", "roundwait",
             "roundload", "leave", "reset1", "reset2", "reset3",
             "destroy", "destroyadd", "destroywait", "destroyload"}

Blocked == {"inblocked", "roundblocked", "destroyblocked"}

Goto(t, place) == pc' = [pc EXCEPT ![t] = place]

Init ==
  /\ in = 0 /\ out = 0 /\ current_round = 0
  /\ pc = [t \in Threads |-> "idle"]
  /\ i = [t \in Threads |-> 0]
  /\ cr = [t \in Threads |-> 0]
  /\ calls = MaxRounds * count
  /\ entered = 0
  /\ round = [t \in Threads |-> 0]
  /\ serial = [r \in Rounds |-> 0]
  /\ returned = [r \in Rounds |-> 0]
  /\ alive = TRUE

\* Mutant of Return: the serial thread is the one whose position is the round
\* it saw completed.
ReturnByRoundSeen(t) ==
  /\ serial' = [serial EXCEPT ![round[t]] = @ + (IF i[t] = cr[t] THEN 1 ELSE 0)]
  /\ returned' = [returned EXCEPT ![round[t]] = @ + 1]
  /\ Goto(t, "idle")
  /\ UNCHANGED <<calls, entered, round, alive>>

\* The call returns "i % count == 0 ? PTHREAD_BARRIER_SERIAL_THREAD : 0".  The
\* thread that saw the last round complete may go on to destroy the barrier.
Return(t) ==
  /\ serial' = [serial EXCEPT ![round[t]] = @ + (IF i[t] % count = 0 THEN 1 ELSE 0)]
  /\ returned' = [returned EXCEPT ![round[t]] = @ + 1]
  /\ Goto(t, IF round[t] = MaxRounds - 1 /\ returned[round[t]] = 0
               THEN "destroy" ELSE "idle")
  /\ UNCHANGED <<calls, entered, round, alive>>

-----------------------------------------------------------------------------
WaitCall(t) ==
  /\ pc[t] = "idle"
  /\ calls > 0
  /\ calls' = calls - 1
  /\ Goto(t, "enter")
  /\ UNCHANGED <<bar, i, cr, entered, round, serial, returned, alive>>

\* reset_restart: take a position; past the threshold it is not one.
Enter(t) ==
  /\ pc[t] = "enter"
  /\ in' = in + 1
  /\ i' = [i EXCEPT ![t] = in + 1]
  /\ IF in + 1 > max_in_before_reset
       THEN Goto(t, "inwait") /\ UNCHANGED <<entered, round>>
       ELSE /\ Goto(t, "load")
            /\ entered' = entered + 1
            /\ round' = [round EXCEPT ![t] = entered \div count]
  /\ UNCHANGED <<out, current_round, cr, calls, serial, returned, alive>>

\* A post-reset thread waits until in has been reset.
InWait(t) ==
  /\ pc[t] = "inwait"
  /\ Goto(t, IF in = i[t] THEN "inblocked" ELSE "inload")
  /\ UNCHANGED <<bar, i, cr, client>>

InLoad(t) ==
  /\ pc[t] = "inload"
  /\ i' = [i EXCEPT ![t] = in]
  /\ Goto(t, IF in > max_in_before_reset THEN "inwait" ELSE "enter")
  /\ UNCHANGED <<bar, cr, client>>

\* The place after current_round was read: finish rounds, wait, or leave.
RoundPlace(t) ==
  IF current_round + count <= i[t] THEN "cas"
  ELSE IF i[t] > current_round THEN "roundwait" ELSE "leave"

LoadRound(t) ==
  /\ pc[t] = "load"
  /\ cr' = [cr EXCEPT ![t] = current_round]
  /\ Goto(t, RoundPlace(t))
  /\ UNCHANGED <<bar, i, client>>

\* Complete previous rounds and the current one as far as our position allows.
FinishRound(t) ==
  LET newcr == i[t] - (i[t] % count) IN
  /\ pc[t] = "cas"
  /\ IF current_round = cr[t]
       THEN /\ current_round' = newcr
            /\ cr' = [cr EXCEPT ![t] = newcr]
            /\ Goto(t, "roundwake")
       ELSE /\ cr' = [cr EXCEPT ![t] = current_round]
            /\ Goto(t, RoundPlace(t))
            /\ UNCHANGED current_round
  /\ UNCHANGED <<in, out, i, client>>

\* futex_wake (&bar->current_round, INT_MAX); then leave, or wait for our round.
RoundWake(t) ==
  /\ pc[t] = "roundwake"
  /\ pc' = [s \in Threads |->
              CASE s = t -> IF i[t] <= cr[t] THEN "leave" ELSE "roundwait"
                [] pc[s] = "roundblocked" -> "roundload"
                [] OTHER -> pc[s]]
  /\ UNCHANGED <<bar, i, cr, client>>

RoundWait(t) ==
  /\ pc[t] = "roundwait"
  /\ Goto(t, IF current_round = cr[t] THEN "roundblocked" ELSE "roundload")
  /\ UNCHANGED <<bar, i, cr, client>>

\* Mutant of RoundLoad: any wake-up counts as the end of the round.
RoundLoadTrustsWake(t) ==
  /\ pc[t] = "roundload"
  /\ Goto(t, "leave")
  /\ UNCHANGED <<bar, i, cr, client>>

RoundLoad(t) ==
  /\ pc[t] = "roundload"
  /\ cr' = [cr EXCEPT ![t] = current_round]
  /\ Goto(t, IF i[t] > current_round THEN "roundwait" ELSE "leave")
  /\ UNCHANGED <<bar, i, client>>

\* Mutant of Leave: the reset comes one thread too early.
LeaveResetsEarly(t) ==
  /\ pc[t] = "leave"
  /\ out' = out + 1
  /\ IF out + 2 = max_in_before_reset
       THEN Goto(t, "reset1") /\ UNCHANGED client
       ELSE Return(t)
  /\ UNCHANGED <<in, current_round, i, cr>>

\* ready_to_leave: confirm; the last pre-reset thread resets the barrier.
Leave(t) ==
  /\ pc[t] = "leave"
  /\ out' = out + 1
  /\ IF out + 1 = max_in_before_reset
       THEN Goto(t, "reset1") /\ UNCHANGED client
       ELSE Return(t)
  /\ UNCHANGED <<in, current_round, i, cr>>

ResetRound(t) ==
  /\ pc[t] = "reset1"
  /\ current_round' = 0
  /\ Goto(t, "reset2")
  /\ UNCHANGED <<in, out, i, cr, client>>

ResetOut(t) ==
  /\ pc[t] = "reset2"
  /\ out' = 0
  /\ Goto(t, "reset3")
  /\ UNCHANGED <<in, current_round, i, cr, client>>

ResetIn(t) ==
  /\ pc[t] = "reset3"
  /\ in' = 0
  /\ Goto(t, "inwake")
  /\ UNCHANGED <<out, current_round, i, cr, client>>

\* Mutant of InWake: wakes nobody who waits for the reset.
InWakesNobody(t) ==
  /\ pc[t] = "inwake"
  /\ Return(t)
  /\ UNCHANGED <<bar, i, cr>>

\* futex_wake (&bar->in, INT_MAX), with shared loaded before the reset of in.
InWake(t) ==
  /\ pc[t] = "inwake"
  /\ serial' = [serial EXCEPT ![round[t]] = @ + (IF i[t] % count = 0 THEN 1 ELSE 0)]
  /\ returned' = [returned EXCEPT ![round[t]] = @ + 1]
  /\ pc' = [s \in Threads |->
              CASE s = t -> IF round[t] = MaxRounds - 1 /\ returned[round[t]] = 0
                              THEN "destroy" ELSE "idle"
                [] pc[s] = "inblocked" -> "inload"
                [] pc[s] = "destroyblocked" -> "destroyload"
                [] OTHER -> pc[s]]
  /\ UNCHANGED <<bar, i, cr, calls, entered, round, alive>>

-----------------------------------------------------------------------------
\* pthread_barrier_destroy.
DestroyLoad(t) ==
  /\ pc[t] = "destroy"
  /\ i' = [i EXCEPT ![t] = in]
  /\ Goto(t, "destroyadd")
  /\ UNCHANGED <<bar, cr, client>>

\* Mutant of DestroyAdd: does not wait for threads that are still leaving.
DestroyDoesNotWait(t) ==
  /\ pc[t] = "destroyadd"
  /\ Goto(t, "idle")
  /\ alive' = FALSE
  /\ UNCHANGED <<bar, i, cr, calls, entered, round, serial, returned>>

\* Pretend that the threshold has been reached.
DestroyAdd(t) ==
  /\ pc[t] = "destroyadd"
  /\ out' = out + max_in_before_reset - i[t]
  /\ IF out < i[t]
       THEN Goto(t, "destroywait") /\ UNCHANGED alive
       ELSE Goto(t, "idle") /\ alive' = FALSE
  /\ UNCHANGED <<in, current_round, i, cr, calls, entered, round, serial, returned>>

DestroyWait(t) ==
  /\ pc[t] = "destroywait"
  /\ Goto(t, IF in = i[t] THEN "destroyblocked" ELSE "destroyload")
  /\ UNCHANGED <<bar, i, cr, client>>

DestroyReload(t) ==
  /\ pc[t] = "destroyload"
  /\ i' = [i EXCEPT ![t] = in]
  /\ IF in = 0 THEN Goto(t, "idle") /\ alive' = FALSE
               ELSE Goto(t, "destroywait") /\ UNCHANGED alive
  /\ UNCHANGED <<bar, cr, calls, entered, round, serial, returned>>

SpuriousWake(t) ==
  /\ pc[t] \in Blocked
  /\ Goto(t, CASE pc[t] = "inblocked" -> "inload"
               [] pc[t] = "roundblocked" -> "roundload"
               [] pc[t] = "destroyblocked" -> "destroyload")
  /\ UNCHANGED <<bar, i, cr, client>>

\* The barrier is gone and everybody has returned.
Done ==
  /\ ~alive
  /\ \A t \in Threads : pc[t] = "idle"
  /\ UNCHANGED vars

-----------------------------------------------------------------------------
Run(t) ==
  \/ Enter(t) \/ InWait(t) \/ InLoad(t) \/ LoadRound(t) \/ FinishRound(t)
  \/ RoundWake(t) \/ RoundWait(t) \/ RoundLoad(t) \/ Leave(t)
  \/ ResetRound(t) \/ ResetOut(t) \/ ResetIn(t) \/ InWake(t)
  \/ DestroyLoad(t) \/ DestroyAdd(t) \/ DestroyWait(t) \/ DestroyReload(t)

Next ==
  \/ \E t \in Threads : WaitCall(t) \/ Run(t) \/ SpuriousWake(t)
  \/ Done

\* A thread inside a call is scheduled; nobody has to call.
Fairness == \A t \in Threads : WF_vars(Run(t))

Spec == Init /\ [][Next]_vars /\ Fairness

-----------------------------------------------------------------------------
Positions == 0 .. max_in_before_reset + Cardinality(Threads)

\* Types: in passes the threshold by at most one entry per thread, so that the
\* unsigned word does not overflow.
TypeOK ==
  /\ in \in Positions /\ out \in Positions /\ current_round \in Positions
  /\ pc \in [Threads -> Touching \cup Blocked \cup {"idle", "inwake"}]
  /\ i \in [Threads -> Positions] /\ cr \in [Threads -> Positions]
  /\ calls \in 0 .. MaxRounds * count /\ entered \in 0 .. MaxRounds * count
  /\ round \in [Threads -> Rounds]
  /\ serial \in [Rounds -> 0 .. count] /\ returned \in [Rounds -> 0 .. count]
  /\ alive \in BOOLEAN

\* A thread that is past the waiting loop of pthread_barrier_wait belongs to a
\* round that all count threads have entered, across resets of the counters.
NobodyLeavesEarly ==
  /\ TypeOK
  /\ \A t \in Threads :
       pc[t] \in {"leave", "reset1", "reset2", "reset3", "inwake"}
         => entered >= (round[t] + 1) * count

\* When all calls of a round have returned, exactly one of them returned
\* PTHREAD_BARRIER_SERIAL_THREAD.
OneSerialThreadPerRound ==
  \A r \in Rounds : serial[r] <= 1 /\ (returned[r] = count => serial[r] = 1)

\* The comment in pthread_barrier_wait: while the last pre-reset thread resets
\* the barrier, all other threads accessing it are post-reset threads
\* "incrementing or spinning on IN", or wait in pthread_barrier_destroy.
ResetIsAlone ==
  \A s, t \in Threads :
    pc[s] \in {"reset1", "reset2", "reset3"} /\ s # t
      => pc[t] \in {"idle", "enter", "inwait", "inblocked", "inload", "inwake", "destroy",
                    "destroyadd", "destroywait", "destroyblocked", "destroyload"}

\* After pthread_barrier_destroy has returned no thread is about to access the
\* barrier, although destroy may run concurrently with threads that leave.
NoAccessAfterDestroy ==
  ~alive => \A t \in Threads : pc[t] \notin Touching \cup Blocked

\* The comment in pthread_barrier_wait: "When destroying the barrier, we wait for
\* a reset to happen."  No reset is going on when pthread_barrier_destroy has
\* returned.
DestroyWaitsForReset ==
  ~alive => \A t \in Threads : pc[t] \notin {"reset1", "reset2", "reset3"}

\* Every thread of a round that is complete returns from its call, and
\* pthread_barrier_destroy does not wait for ever.
CallsReturn ==
  /\ \A r \in Rounds : entered >= (r + 1) * count ~> returned[r] = count
  /\ (\E t \in Threads : pc[t] = "destroy") ~> ~alive
=============================================================================
