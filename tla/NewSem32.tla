------------------------------ MODULE NewSem32 ------------------------------
(***************************************************************************)
(* The semaphore of nptl for machines without 64-bit atomics: the tokens   *)
(* share a word with one bit that says "there may be waiters", and         *)
(* nwaiters is a word of its own (the #else branches of nptl/sem_post.c    *)
(* and nptl/sem_waitcommon.c).  A leaving waiter clears the bit on a guess *)
(* and repairs a wrong guess afterwards.                                   *)
(*                                                                         *)
(* The client is that of NewSem64: MaxPosts tokens, then destruction and   *)
(* reuse as soon as POSIX allows it.                                       *)
(***************************************************************************)
EXTENDS Integers, FiniteSets

CONSTANTS Threads, SEM_VALUE_MAX, MaxPosts

ASSUME Sem32Assumption ==
  /\ IsFiniteSet(Threads)
  /\ SEM_VALUE_MAX \in Nat \ {0}
  /\ MaxPosts \in Nat

VARIABLES value,     \* [v |-> tokens, b |-> the SEM_NWAITERS_MASK bit]
          nwaiters,
          pc,
          v,         \* each thread's copy of value
          guess,     \* wguess = 1 in __sem_wait_32_finish
          got,       \* the thread inside sem_wait has a token
          waiting, posting, posts, taken, alive   \* the client, as in NewSem64

vars == <<value, nwaiters, pc, v, guess, got, waiting, posting, posts, taken, alive>>

Touching == {"fast", "try", "enter", "load", "setbit", "wait", "reload", "cas",
             "guess", "unset", "dec", "repair", "wakev", "post"}

Client == <<waiting, posting, posts, taken, alive>>

Unread == [v |-> 0, b |-> FALSE]

\* The copy of value is kept only where it is used again.
Goto(t, place) ==
  /\ pc' = [pc EXCEPT ![t] = place]
  /\ v' = [v EXCEPT ![t] = IF place \in {"fast", "try", "setbit", "cas", "wakev", "post"}
                            THEN value ELSE Unread]

Init ==
  /\ value = Unread
  /\ nwaiters = 0
  /\ pc = [t \in Threads |-> "idle"]
  /\ v = [t \in Threads |-> Unread]
  /\ guess = [t \in Threads |-> FALSE]
  /\ got = [t \in Threads |-> FALSE]
  /\ waiting = {} /\ posting = {}
  /\ posts = MaxPosts
  /\ taken = 0
  /\ alive = TRUE

\* sem_wait or sem_trywait returns; ok is whether with a token.
Return(t, ok) ==
  /\ Goto(t, "idle")
  /\ waiting' = waiting \ {t}
  /\ taken' = IF ok THEN taken + 1 ELSE taken
  /\ got' = [got EXCEPT ![t] = FALSE]
  /\ guess' = [guess EXCEPT ![t] = FALSE]
  /\ UNCHANGED <<posting, posts, alive>>

-----------------------------------------------------------------------------
\* __new_sem_wait_fast: the load.
SemWait(t) ==
  /\ pc[t] = "idle" /\ alive
  /\ waiting' = waiting \cup {t}
  /\ Goto(t, IF value.v = 0 THEN "enter" ELSE "fast")
  /\ UNCHANGED <<value, nwaiters, guess, got, posting, posts, taken, alive>>

SemTrywait(t) ==
  /\ pc[t] = "idle" /\ alive
  /\ value.v # 0
  /\ waiting' = waiting \cup {t}
  /\ Goto(t, "try")
  /\ UNCHANGED <<value, nwaiters, guess, got, posting, posts, taken, alive>>

\* The weak compare-and-swap of the fast path, definitive_result = 0.
WaitFast(t) ==
  /\ pc[t] = "fast"
  /\ \/ /\ value = v[t]
        /\ value' = [value EXCEPT !.v = @ - 1]
        /\ Return(t, TRUE)
     \/ /\ Goto(t, "enter")
        /\ UNCHANGED <<value, guess, got, Client>>
  /\ UNCHANGED nwaiters

\* definitive_result = 1.
TryFast(t) ==
  /\ pc[t] = "try"
  /\ \/ /\ value = v[t]
        /\ value' = [value EXCEPT !.v = @ - 1]
        /\ Return(t, TRUE)
     \/ /\ value # v[t]
        /\ IF value.v = 0 THEN Return(t, FALSE)
                          ELSE Goto(t, "try") /\ UNCHANGED <<guess, got, Client>>
        /\ UNCHANGED value
  /\ UNCHANGED nwaiters

\* Register as a waiter.
SlowEnter(t) ==
  /\ pc[t] = "enter"
  /\ nwaiters' = nwaiters + 1
  /\ Goto(t, "load")
  /\ UNCHANGED <<value, guess, got, Client>>

\* The head of the inner loop, with the word just loaded.
LoopPlace == IF ~value.b THEN "setbit" ELSE IF value.v = 0 THEN "wait" ELSE "cas"

SlowLoad(t) ==
  /\ pc[t] = "load"
  /\ Goto(t, LoopPlace)
  /\ UNCHANGED <<value, nwaiters, guess, got, Client>>

\* Set the bit.  On success v keeps the old word, without the bit.
SetBit(t) ==
  /\ pc[t] = "setbit"
  /\ IF value = v[t]
       THEN /\ value' = [value EXCEPT !.b = TRUE]
            /\ Goto(t, IF value.v = 0 THEN "wait" ELSE "cas")
       ELSE /\ Goto(t, LoopPlace)
            /\ UNCHANGED value
  /\ UNCHANGED <<nwaiters, guess, got, Client>>

\* do_futex_wait: sleep if the word is exactly SEM_NWAITERS_MASK.
FutexWait(t) ==
  /\ pc[t] = "wait"
  /\ Goto(t, IF value.v = 0 /\ value.b THEN "blocked" ELSE "reload")
  /\ UNCHANGED <<value, nwaiters, guess, got, Client>>

SpuriousWake(t) ==
  /\ pc[t] = "blocked"
  /\ Goto(t, "reload")
  /\ UNCHANGED <<value, nwaiters, guess, got, Client>>

\* ETIMEDOUT or EINTR, or a cancellation that runs __sem_wait_cleanup: both go
\* to __sem_wait_32_finish without a token.
WaitFails(t) ==
  /\ pc[t] \in {"wait", "blocked"}
  /\ Goto(t, "guess")
  /\ UNCHANGED <<value, nwaiters, guess, got, Client>>

Reload(t) ==
  /\ pc[t] = "reload"
  /\ Goto(t, IF value.v = 0 THEN LoopPlace ELSE "cas")
  /\ UNCHANGED <<value, nwaiters, guess, got, Client>>

SlowTake(t) ==
  /\ pc[t] = "cas"
  /\ IF value = v[t]
       THEN /\ value' = [value EXCEPT !.v = @ - 1]
            /\ got' = [got EXCEPT ![t] = TRUE]
            /\ Goto(t, "guess")
       ELSE /\ Goto(t, LoopPlace)
            /\ UNCHANGED <<value, got>>
  /\ UNCHANGED <<nwaiters, guess, Client>>

\* __sem_wait_32_finish: wguess.
FinishGuess(t) ==
  /\ pc[t] = "guess"
  /\ guess' = [guess EXCEPT ![t] = (nwaiters = 1)]
  /\ Goto(t, IF nwaiters = 1 THEN "unset" ELSE "dec")
  /\ UNCHANGED <<value, nwaiters, got, Client>>

\* Clear the bit on the guess that this is the last waiter.
FinishUnset(t) ==
  /\ pc[t] = "unset"
  /\ value' = [value EXCEPT !.b = FALSE]
  /\ Goto(t, "dec")
  /\ UNCHANGED <<nwaiters, guess, got, Client>>

\* Mutant of FinishDecrement: a wrong guess is not noticed.
DecrementTrustsGuess(t) ==
  /\ pc[t] = "dec"
  /\ nwaiters' = nwaiters - 1
  /\ Return(t, got[t])
  /\ UNCHANGED value

\* Stop being a waiter, and see whether the guess was wrong.
FinishDecrement(t) ==
  /\ pc[t] = "dec"
  /\ nwaiters' = nwaiters - 1
  /\ IF nwaiters > 1 /\ guess[t]
       THEN Goto(t, "repair") /\ UNCHANGED <<guess, got, Client>>
       ELSE Return(t, got[t])
  /\ UNCHANGED value

\* Mutant of FinishRepair: sets the bit and wakes nobody.
RepairNoWake(t) ==
  /\ pc[t] = "repair"
  /\ value' = [value EXCEPT !.b = TRUE]
  /\ Return(t, got[t])
  /\ UNCHANGED nwaiters

\* Set the bit again, and wake as many waiters as there are tokens.
FinishRepair(t) ==
  /\ pc[t] = "repair"
  /\ value' = [value EXCEPT !.b = TRUE]
  /\ IF value.v > 0 THEN Goto(t, "wakev") /\ UNCHANGED <<guess, got, Client>>
                    ELSE Return(t, got[t])
  /\ UNCHANGED nwaiters

\* futex_wake (&sem->value, v) wakes v sleepers, or all when there are fewer.
FinishWake(t) ==
  LET sleepers == {s \in Threads : pc[s] = "blocked"} IN
  /\ pc[t] = "wakev"
  /\ \E woken \in SUBSET sleepers :
       /\ \/ Cardinality(woken) = v[t].v
          \/ Cardinality(sleepers) < v[t].v /\ woken = sleepers
       /\ pc' = [s \in Threads |-> IF s = t THEN "idle"
                                   ELSE IF s \in woken THEN "reload" ELSE pc[s]]
  /\ v' = [v EXCEPT ![t] = Unread]
  /\ waiting' = waiting \ {t}
  /\ taken' = IF got[t] THEN taken + 1 ELSE taken
  /\ got' = [got EXCEPT ![t] = FALSE]
  /\ guess' = [guess EXCEPT ![t] = FALSE]
  /\ UNCHANGED <<value, nwaiters, posting, posts, alive>>

-----------------------------------------------------------------------------
\* __new_sem_post; EOVERFLOW changes nothing.
SemPost(t) ==
  /\ pc[t] = "idle" /\ alive
  /\ posts > 0
  /\ value.v # SEM_VALUE_MAX
  /\ Goto(t, "post")
  /\ posting' = posting \cup {t}
  /\ posts' = posts - 1
  /\ UNCHANGED <<value, nwaiters, guess, got, waiting, taken, alive>>

PostCas(t) ==
  /\ pc[t] = "post"
  /\ \/ /\ value = v[t]
        /\ value' = [value EXCEPT !.v = @ + 1]
        /\ posting' = posting \ {t}
        /\ Goto(t, IF value.b THEN "wake" ELSE "idle")
        /\ UNCHANGED posts
     \/ /\ value # v[t]
        /\ IF value.v = SEM_VALUE_MAX
             THEN /\ Goto(t, "idle")
                  /\ posting' = posting \ {t}
                  /\ posts' = posts + 1
             ELSE Goto(t, "post") /\ UNCHANGED <<posting, posts>>
        /\ UNCHANGED value
  /\ UNCHANGED <<nwaiters, guess, got, waiting, taken, alive>>

\* Mutant of PostWake: looks at the semaphore again after the wake.
PostWakeThenLooks(t) ==
  /\ pc[t] = "wake"
  /\ \/ \E s \in Threads :
          /\ pc[s] = "blocked"
          /\ pc' = [pc EXCEPT ![t] = "enter", ![s] = "reload"]
     \/ /\ \A s \in Threads : pc[s] # "blocked"
        /\ Goto(t, "enter")
  /\ UNCHANGED <<value, nwaiters, guess, got, v, Client>>

PostWake(t) ==
  /\ pc[t] = "wake"
  /\ \/ \E s \in Threads :
          /\ pc[s] = "blocked"
          /\ pc' = [pc EXCEPT ![t] = "idle", ![s] = "reload"]
     \/ /\ \A s \in Threads : pc[s] # "blocked"
        /\ pc' = [pc EXCEPT ![t] = "idle"]
  /\ UNCHANGED <<value, nwaiters, v, guess, got, Client>>

Destroy ==
  /\ alive
  /\ taken = MaxPosts
  /\ waiting = {} /\ posting = {}
  /\ alive' = FALSE
  /\ UNCHANGED <<value, nwaiters, pc, v, guess, got, waiting, posting, posts, taken>>

Reuse ==
  /\ ~alive
  /\ alive' = TRUE
  /\ value' = Unread
  /\ nwaiters' = 0
  /\ posts' = MaxPosts
  /\ taken' = 0
  /\ UNCHANGED <<pc, v, guess, got, waiting, posting>>

Run(t) ==
  \/ WaitFast(t) \/ TryFast(t) \/ SlowEnter(t) \/ SlowLoad(t) \/ SetBit(t)
  \/ FutexWait(t) \/ Reload(t) \/ SlowTake(t) \/ FinishGuess(t)
  \/ FinishUnset(t) \/ FinishDecrement(t) \/ FinishRepair(t) \/ FinishWake(t)
  \/ PostCas(t) \/ PostWake(t)

Next ==
  \/ \E t \in Threads :
       \/ SemWait(t) \/ SemTrywait(t) \/ SemPost(t) \/ Run(t)
       \/ SpuriousWake(t) \/ WaitFails(t)
  \/ Destroy
  \/ Reuse

Fairness == \A t \in Threads : WF_vars(Run(t))

Spec == Init /\ [][Next]_vars /\ Fairness

-----------------------------------------------------------------------------
Word == [v : 0 .. SEM_VALUE_MAX, b : BOOLEAN]

\* Types: in particular sem_post never takes the value past SEM_VALUE_MAX.
TypeOK ==
  /\ value \in Word
  /\ nwaiters \in 0 .. Cardinality(Threads)
  /\ pc \in [Threads -> Touching \cup {"idle", "blocked", "wake"}]
  /\ v \in [Threads -> Word]
  /\ guess \in [Threads -> BOOLEAN] /\ got \in [Threads -> BOOLEAN]
  /\ waiting \in SUBSET Threads /\ posting \in SUBSET Threads
  /\ posts \in 0 .. MaxPosts /\ taken \in 0 .. MaxPosts
  /\ alive \in BOOLEAN

\* The bit may be missing while a waiter sleeps, as the comment in
\* __new_sem_wait_slow64 says, but only while the waiter that cleared it is
\* still on its way to notice and repair the wrong guess.
MissingBitIsRepaired ==
  /\ TypeOK
  /\ (~value.b /\ \E t \in Threads : pc[t] = "blocked")
       => \E t \in Threads : \/ pc[t] = "repair"
                             \/ pc[t] = "dec" /\ guess[t] /\ nwaiters > 1

\* The destruction requirement of sem_waitcommon.c, with the finishing waiter's
\* accesses after it has its token.
NoAccessAfterDestroy ==
  ~alive => \A t \in Threads : pc[t] \notin Touching

\* A thread that has its token but is still finishing no longer waits for one.
S == INSTANCE Semaphore WITH value <- value.v,
                             waiting <- {t \in waiting : ~got[t]}

\* The 32-bit semaphore implements the same abstract semaphore.
ImplementsSemaphore == S!Spec
=============================================================================
