---------------------------- MODULE LowLevelLock ----------------------------
(***************************************************************************)
(* The three-state futex lock of nptl (sysdeps/nptl/lowlevellock.h,        *)
(* nptl/lowlevellock.c, __futex_clocklock64 in futex-internal.h), one      *)
(* action per atomic access to the futex word or per system call.          *)
(*                                                                         *)
(* The client is the one the comment at __lll_unlock has in mind: every    *)
(* thread has a reference to the object the lock lives in, drops it inside *)
(* a critical section, and the thread that dropped the last one frees the  *)
(* memory as soon as its own unlock has returned.  The memory is then      *)
(* reused for another lock.                                                *)
(***************************************************************************)
EXTENDS Integers

CONSTANT Threads

VARIABLES futex,   \* the lock word: 0 free, 1 taken, 2 taken, maybe waiters
          pc,      \* where each thread is; "blocked" is asleep in the kernel
          timed,   \* the current acquisition is __futex_clocklock64
          refs,    \* threads that still have a reference to the lock's object
          last,    \* the thread that dropped the last reference, as a set
          alive    \* the memory of the lock has not been freed

vars == <<futex, pc, timed, refs, last, alive>>

\* Places at which the next step of a thread accesses the lock word.
Touching == {"load", "xchg", "wait", "held"}

Waiting == {"load", "xchg", "wait", "blocked"}

Goto(t, place) == pc' = [pc EXCEPT ![t] = place]

Client == <<refs, last, alive>>

Init ==
  /\ futex = 0
  /\ pc = [t \in Threads |-> "idle"]
  /\ timed = [t \in Threads |-> FALSE]
  /\ refs = Threads
  /\ last = {}
  /\ alive = TRUE

MayCall(t) == pc[t] = "idle" /\ alive /\ t \in refs

-----------------------------------------------------------------------------
\* __lll_lock: compare-and-swap 0 to 1, else __lll_lock_wait.
LllLock(t) ==
  /\ MayCall(t)
  /\ IF futex = 0 THEN futex' = 1 /\ Goto(t, "held")
                  ELSE futex' = futex /\ Goto(t, "load")
  /\ timed' = [timed EXCEPT ![t] = FALSE]
  /\ UNCHANGED Client

\* __lll_cond_lock: exchange with 2, else __lll_lock_wait.
LllCondLock(t) ==
  /\ MayCall(t)
  /\ futex' = 2
  /\ Goto(t, IF futex = 0 THEN "held" ELSE "load")
  /\ timed' = [timed EXCEPT ![t] = FALSE]
  /\ UNCHANGED Client

\* __futex_clocklock64: as __lll_lock, without the first load of the wait loop.
Clocklock(t) ==
  /\ MayCall(t)
  /\ IF futex = 0 THEN futex' = 1 /\ Goto(t, "held")
                  ELSE futex' = futex /\ Goto(t, "xchg")
  /\ timed' = [timed EXCEPT ![t] = TRUE]
  /\ UNCHANGED Client

\* Mutant of LllTrylock: reads the word and does not store.
TrylockOnlyLooks(t) ==
  /\ MayCall(t)
  /\ futex = 0
  /\ Goto(t, "held")
  /\ UNCHANGED <<futex, timed, Client>>

\* __lll_trylock and lll_cond_trylock, when they succeed; a failed call
\* changes nothing.
LllTrylock(t) ==
  /\ MayCall(t)
  /\ futex = 0
  /\ futex' \in {1, 2}
  /\ Goto(t, "held")
  /\ UNCHANGED <<timed, Client>>

\* Mutant of WaitLoad: a load of 0 is taken for an acquisition.
WaitLoadTakesFreeLock(t) ==
  /\ pc[t] = "load"
  /\ Goto(t, IF futex = 2 THEN "wait" ELSE IF futex = 0 THEN "held" ELSE "xchg")
  /\ UNCHANGED <<futex, timed, Client>>

\* __lll_lock_wait: "if (atomic_load_relaxed (futex) == 2) goto futex".
WaitLoad(t) ==
  /\ pc[t] = "load"
  /\ Goto(t, IF futex = 2 THEN "wait" ELSE "xchg")
  /\ UNCHANGED <<futex, timed, Client>>

\* Mutant of WaitExchange: a woken thread takes the lock without waiters.
WaitExchangeForgetsWaiters(t) ==
  /\ pc[t] = "xchg"
  /\ futex' = IF futex = 0 THEN 1 ELSE 2
  /\ Goto(t, IF futex = 0 THEN "held" ELSE "wait")
  /\ UNCHANGED <<timed, Client>>

\* "while (atomic_exchange_acquire (futex, 2) != 0)".
WaitExchange(t) ==
  /\ pc[t] = "xchg"
  /\ futex' = 2
  /\ Goto(t, IF futex = 0 THEN "held" ELSE "wait")
  /\ UNCHANGED <<timed, Client>>

\* futex_wait (futex, 2): sleep if the word still is 2, else EAGAIN.
FutexWait(t) ==
  /\ pc[t] = "wait"
  /\ Goto(t, IF futex = 2 THEN "blocked" ELSE "xchg")
  /\ UNCHANGED <<futex, timed, Client>>

\* The kernel returns 0 or EINTR although nobody woke this thread.
SpuriousWake(t) ==
  /\ pc[t] = "blocked"
  /\ Goto(t, "xchg")
  /\ UNCHANGED <<futex, timed, Client>>

\* __futex_abstimed_wait64 returns ETIMEDOUT.
TimeOut(t) ==
  /\ timed[t]
  /\ pc[t] \in {"wait", "blocked"}
  /\ Goto(t, "idle")
  /\ UNCHANGED <<futex, timed, Client>>

\* Mutant of LllUnlock: no wake-up for a contended lock.
UnlockNoWake(t) ==
  /\ pc[t] = "held"
  /\ futex' = 0
  /\ Goto(t, IF futex > 2 THEN "wake" ELSE "idle")
  /\ UNCHANGED <<timed, Client>>

\* __lll_unlock: exchange with 0; wake one thread if the old value was > 1.
LllUnlock(t) ==
  /\ pc[t] = "held"
  /\ futex' = 0
  /\ Goto(t, IF futex > 1 THEN "wake" ELSE "idle")
  /\ UNCHANGED <<timed, Client>>

\* Mutant of LllLockWake: looks at the word again after the wake.
WakeThenLooks(t) ==
  /\ pc[t] = "wake"
  /\ \/ \E s \in Threads :
          /\ pc[s] = "blocked"
          /\ pc' = [pc EXCEPT ![t] = "load", ![s] = "xchg"]
     \/ /\ \A s \in Threads : pc[s] # "blocked"
        /\ Goto(t, "load")
  /\ UNCHANGED <<futex, timed, Client>>

\* __lll_lock_wake: futex_wake (futex, 1).  Which waiter wakes is up to the
\* kernel.  The system call takes the address only, alive or not.
LllLockWake(t) ==
  /\ pc[t] = "wake"
  /\ \/ \E s \in Threads :
          /\ pc[s] = "blocked"
          /\ pc' = [pc EXCEPT ![t] = "idle", ![s] = "xchg"]
     \/ /\ \A s \in Threads : pc[s] # "blocked"
        /\ Goto(t, "idle")
  /\ UNCHANGED <<futex, timed, Client>>

-----------------------------------------------------------------------------
\* The client, in its critical section, drops its reference.
DropReference(t) ==
  /\ pc[t] = "held"
  /\ t \in refs
  /\ refs' = refs \ {t}
  /\ last' = IF refs = {t} THEN {t} ELSE last
  /\ UNCHANGED <<futex, pc, timed, alive>>

\* The thread that dropped the last reference frees the object.
Destroy(t) ==
  /\ alive
  /\ t \in last
  /\ pc[t] = "idle"
  /\ alive' = FALSE
  /\ UNCHANGED <<futex, pc, timed, refs, last>>

\* The memory becomes a new, initialised lock.
Reuse ==
  /\ ~alive
  /\ alive' = TRUE
  /\ futex' = 0
  /\ refs' = Threads
  /\ last' = {}
  /\ UNCHANGED <<pc, timed>>

-----------------------------------------------------------------------------
Call(t) == LllLock(t) \/ LllCondLock(t) \/ Clocklock(t) \/ LllTrylock(t)

\* Steps a scheduled thread takes without waiting for anything.
Run(t) == WaitLoad(t) \/ WaitExchange(t) \/ FutexWait(t) \/ LllLockWake(t)

Next ==
  \/ \E t \in Threads :
       \/ Call(t) \/ Run(t) \/ LllUnlock(t) \/ SpuriousWake(t) \/ TimeOut(t)
       \/ DropReference(t) \/ Destroy(t)
  \/ Reuse

\* A runnable thread is eventually scheduled.  Nothing obliges a holder to
\* unlock, a caller to call again or the kernel to wake a thread spuriously.
Fairness == \A t \in Threads : WF_vars(Run(t))

Spec == Init /\ [][Next]_vars /\ Fairness

-----------------------------------------------------------------------------
\* Types: the lock word only ever holds the three states of lowlevellock.h.
TypeOK ==
  /\ futex \in {0, 1, 2}
  /\ pc \in [Threads -> {"idle", "load", "xchg", "wait", "blocked", "held", "wake"}]
  /\ timed \in [Threads -> BOOLEAN]
  /\ refs \in SUBSET Threads
  /\ last \in SUBSET Threads
  /\ alive \in BOOLEAN

\* At most one thread is between a successful acquisition and its unlock.
MutualExclusion ==
  \A s, t \in Threads : pc[s] = "held" /\ pc[t] = "held" => s = t

\* No lost wake-up: while a thread sleeps, either the word is 2, so that the
\* holder's unlock will issue a wake, or a wake is on its way, or a woken
\* thread is about to put the 2 back.
SleeperNotForgotten ==
  (\E t \in Threads : pc[t] = "blocked")
    => \/ futex = 2 /\ \E t \in Threads : pc[t] = "held"
       \/ \E t \in Threads : pc[t] \in {"wake", "xchg"}

\* The mutex destruction requirement stated at __lll_unlock: once the object
\* has been freed, no thread is about to access the lock word.
NoAccessAfterDestroy ==
  ~alive => \A t \in Threads : pc[t] \notin Touching

\* The strengthening that makes the three invariants above inductive: the word
\* is nonzero exactly while there is a holder, a thread without a reference is
\* past its last acquisition, and the last dropper is the only possible holder.
IInv ==
  /\ TypeOK
  /\ MutualExclusion
  /\ futex # 0 <=> \E t \in Threads : pc[t] = "held"
  /\ SleeperNotForgotten
  /\ \A t \in Threads \ refs : pc[t] \in {"idle", "held", "wake"}
  /\ \A t \in last :
       /\ refs = {}
       /\ last = {t}
       /\ \A s \in Threads : pc[s] = "held" => s = t
  /\ ~alive => refs = {} /\ \A t \in Threads : pc[t] \in {"idle", "wake"}

\* The low-level lock is a lock.
L == INSTANCE Lock WITH holders <- {t \in Threads : pc[t] = "held"},
                        waiting <- {t \in Threads : pc[t] \in Waiting}

ImplementsLock == L!Spec
=============================================================================
