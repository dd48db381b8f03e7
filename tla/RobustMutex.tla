----------------------------- MODULE RobustMutex -----------------------------
(***************************************************************************)
(* A robust, non-PI mutex (nptl/pthread_mutex_lock.c,                      *)
(* pthread_mutex_timedlock.c, pthread_mutex_trylock.c,                     *)
(* pthread_mutex_unlock.c, pthread_mutex_consistent.c, the robust list of  *)
(* nptl/descr.h).  A thread, of whatever process, may be killed before any *)
(* step; the kernel then looks at the robust list and at list_op_pending   *)
(* of the thread and hands the mutex on with FUTEX_OWNER_DIED.             *)
(*                                                                         *)
(* One action per access of the lock word, of the owner field and of the   *)
(* two things the kernel looks at.  The program unlocks what it has locked *)
(* and does not relock a mutex of the normal kind except by trylock.       *)
(***************************************************************************)
EXTENDS Integers, FiniteSets, TLC

CONSTANTS Threads,
          NoThread,        \* 0 in the lock word and in the owner field
          Inconsistent,    \* PTHREAD_MUTEX_INCONSISTENT
          NotRecoverable,  \* PTHREAD_MUTEX_NOTRECOVERABLE
          Kinds,           \* the kinds of mutex looked at
          Ops,             \* the ways to lock the program uses
          MaxCount,        \* the count of a recursive lock that cannot be incremented
          MaxDeaths        \* bound on the threads that die

ASSUME RobustAssumption ==
  /\ {NoThread, Inconsistent, NotRecoverable} \cap Threads = {}
  /\ NoThread \notin {Inconsistent, NotRecoverable} /\ Inconsistent # NotRecoverable
  /\ Kinds \subseteq {"normal", "errorcheck", "recursive"}
  /\ Ops \subseteq {"lock", "timedlock", "trylock"}
  /\ MaxCount \in Nat \ {0} /\ MaxDeaths \in Nat

VARIABLES kind,         \* __kind
          lock,         \* __lock: the TID, FUTEX_WAITERS, FUTEX_OWNER_DIED
          owner,        \* __owner
          count,        \* __count
          robust_list,  \* the threads whose robust list holds the mutex
          op_pending,   \* the threads whose list_op_pending points to it
          pc,
          op,           \* "lock", "timedlock" or "trylock"
          oldval,
          assume_other_futex_waiters,  \* the threads that have it set
          newowner,
          held,         \* what a thread was told: "no", "yes" or "ownerdead"
          dirty,        \* history: a holder died and nobody has repaired the data
          leaked,       \* history: a trylock kept a mutex that is not recoverable
          unwoken,      \* history: a wake-up that a sleeper needed was not made
          deaths

vars == <<kind, lock, owner, count, robust_list, op_pending, pc, op, oldval,
          assume_other_futex_waiters, newowner, held, dirty, leaked, unwoken, deaths>>

Fixed == <<kind, dirty, leaked, unwoken, deaths>>

Word(t, waiters, died) == [tid |-> t, waiters |-> waiters, died |-> died]
Free == Word(NoThread, FALSE, FALSE)

Asleep == {t \in Threads : pc[t] = "asleep"}

Goto(t, place) == pc' = [pc EXCEPT ![t] = place]

\* FUTEX_WAKE of one thread, or of none if none sleeps; t goes on to place.
Wake(t, place) ==
  IF Asleep \ {t} = {} THEN Goto(t, place)
  ELSE \E s \in Asleep \ {t} : pc' = [pc EXCEPT ![t] = place, ![s] = "load"]

\* Back to the program, from a call that leaves t with the mutex as h says.
Return(t, h) ==
  /\ Goto(t, "program")
  /\ op' = [op EXCEPT ![t] = "lock"]
  /\ oldval' = [oldval EXCEPT ![t] = Free]
  /\ assume_other_futex_waiters' = assume_other_futex_waiters \ {t}
  /\ newowner' = [newowner EXCEPT ![t] = NoThread]
  /\ held' = [held EXCEPT ![t] = h]

Init ==
  /\ kind \in Kinds
  /\ lock = Free /\ owner = NoThread /\ count = 0
  /\ robust_list = {} /\ op_pending = {}
  /\ pc = [t \in Threads |-> "program"]
  /\ op = [t \in Threads |-> "lock"]
  /\ oldval = [t \in Threads |-> Free]
  /\ assume_other_futex_waiters = {}
  /\ newowner = [t \in Threads |-> NoThread]
  /\ held = [t \in Threads |-> "no"]
  /\ dirty = FALSE /\ leaked = FALSE /\ unwoken = FALSE /\ deaths = 0

-----------------------------------------------------------------------------
\* The three ways to lock.

Call(t) ==
  /\ pc[t] = "program"
  /\ \E o \in Ops :
       /\ kind = "normal" /\ held[t] # "no" => o = "trylock"
       /\ op' = [op EXCEPT ![t] = o]
  /\ op_pending' = op_pending \cup {t}
  /\ Goto(t, "load")
  /\ UNCHANGED <<lock, owner, count, robust_list, oldval, assume_other_futex_waiters, newowner,
                 held, Fixed>>

Load(t) ==
  /\ pc[t] = "load"
  /\ oldval' = [oldval EXCEPT ![t] = lock]
  /\ Goto(t, "loop")
  /\ UNCHANGED <<lock, owner, count, robust_list, op_pending, op, assume_other_futex_waiters,
                 newowner, held, Fixed>>

\* A compare-and-exchange of the lock word from oldval: on success the lock is
\* new and t goes to place, else it sees the value found and starts over.
Cas(t, new, place) ==
  IF lock = oldval[t]
    THEN /\ lock' = new
         /\ oldval' = [oldval EXCEPT ![t] = new]
         /\ Goto(t, place)
    ELSE /\ oldval' = [oldval EXCEPT ![t] = lock]
         /\ UNCHANGED <<lock, pc>>

\* Mutant of TakeFree: the flag of other waiters is not kept.
TakeFreeAlone(t) ==
  /\ pc[t] = "loop" /\ op[t] # "trylock" /\ oldval[t] = Free
  /\ Cas(t, Word(t, FALSE, FALSE), "acquired")
  /\ UNCHANGED <<owner, count, robust_list, op_pending, op, assume_other_futex_waiters, newowner,
                 held, Fixed>>

\* Mutant of TakeFree: a store in place of the compare-and-exchange.
TakeFreeStore(t) ==
  /\ pc[t] = "loop" /\ op[t] # "trylock" /\ oldval[t] = Free
  /\ lock' = Word(t, t \in assume_other_futex_waiters, FALSE)
  /\ oldval' = [oldval EXCEPT ![t] = lock']
  /\ Goto(t, "acquired")
  /\ UNCHANGED <<owner, count, robust_list, op_pending, op, assume_other_futex_waiters, newowner,
                 held, Fixed>>

\* The mutex is free.
TakeFree(t) ==
  /\ pc[t] = "loop" /\ op[t] # "trylock" /\ oldval[t] = Free
  /\ Cas(t, Word(t, t \in assume_other_futex_waiters, FALSE), "acquired")
  /\ UNCHANGED <<owner, count, robust_list, op_pending, op, assume_other_futex_waiters, newowner,
                 held, Fixed>>

\* The previous owner died.
TakeOver(t) ==
  /\ pc[t] = "loop" /\ oldval[t].died
  /\ Cas(t, Word(t, oldval[t].waiters \/ t \in assume_other_futex_waiters, FALSE), "inconsistent")
  /\ UNCHANGED <<owner, count, robust_list, op_pending, op, assume_other_futex_waiters, newowner,
                 held, Fixed>>

\* The caller has the mutex already; a mutex of the normal kind is just busy.
Relock(t) ==
  /\ pc[t] = "loop" /\ ~oldval[t].died
  /\ oldval[t].tid = t /\ kind # "normal"
  /\ count' = IF kind = "recursive" /\ count < MaxCount THEN count + 1 ELSE count
  /\ op_pending' = op_pending \ {t}
  /\ Return(t, IF kind = "recursive" /\ count < MaxCount /\ held[t] = "no" THEN "yes" ELSE held[t])
  /\ UNCHANGED <<lock, owner, robust_list, Fixed>>

MustBlock(t) ==
  /\ pc[t] = "loop" /\ op[t] # "trylock"
  /\ oldval[t] # Free /\ ~oldval[t].died
  /\ ~(oldval[t].tid = t /\ kind # "normal")

\* Set FUTEX_WAITERS, unless it is set already.
SetWaiters(t) ==
  /\ MustBlock(t)
  /\ IF oldval[t].waiters
       THEN Goto(t, "wait") /\ UNCHANGED <<lock, oldval>>
       ELSE Cas(t, [oldval[t] EXCEPT !.waiters = TRUE], "wait")
  /\ UNCHANGED <<owner, count, robust_list, op_pending, op, assume_other_futex_waiters, newowner,
                 held, Fixed>>

FutexWait(t) ==
  /\ pc[t] = "wait"
  /\ assume_other_futex_waiters' = assume_other_futex_waiters \cup {t}
  /\ Goto(t, IF lock = oldval[t] THEN "asleep" ELSE "load")
  /\ UNCHANGED <<lock, owner, count, robust_list, op_pending, op, oldval, newowner, held, Fixed>>

\* A signal handler has run.
SpuriousWake(t) ==
  /\ pc[t] = "asleep"
  /\ Goto(t, "load")
  /\ UNCHANGED <<lock, owner, count, robust_list, op_pending, op, oldval,
                 assume_other_futex_waiters, newowner, held, Fixed>>

\* pthread_mutex_timedlock gives up: the time is invalid or long past, which it
\* looks at before it first blocks, or the wait times out.
TimedOut(t) ==
  /\ op[t] = "timedlock"
  /\ pc[t] = "asleep" \/ (MustBlock(t) /\ t \notin assume_other_futex_waiters)
  /\ Return(t, held[t])
  /\ UNCHANGED <<lock, owner, count, robust_list, op_pending, Fixed>>

\* trylock: the compare-and-exchange from 0, and what it finds.
TryTake(t) ==
  /\ pc[t] = "loop" /\ op[t] = "trylock"
  /\ ~oldval[t].died /\ ~(oldval[t].tid = t /\ kind # "normal")
  /\ \/ /\ lock = Free
        /\ lock' = Word(t, FALSE, FALSE)
        /\ Goto(t, "acquired")
        /\ UNCHANGED <<op_pending, count, op, oldval, assume_other_futex_waiters, newowner, held>>
     \/ /\ lock # Free /\ ~lock.died
        /\ op_pending' = op_pending \ {t}
        /\ Return(t, held[t])
        /\ UNCHANGED <<lock, count>>
     \/ /\ lock.died
        /\ IF owner = NotRecoverable
             THEN count' = 0 /\ Goto(t, "clear") /\ UNCHANGED oldval
             ELSE oldval' = [oldval EXCEPT ![t] = lock] /\ UNCHANGED <<pc, count>>
        /\ UNCHANGED <<lock, op_pending, op, assume_other_futex_waiters, newowner, held>>
  /\ UNCHANGED <<owner, robust_list, Fixed>>

-----------------------------------------------------------------------------
\* After the lock word is ours.

\* Is the mutex still consistent?  A trylock of one that is not recoverable
\* compares the old value, 0, with its TID and does not unlock.
Acquired(t) ==
  /\ pc[t] = "acquired"
  /\ count' = IF owner = NotRecoverable THEN 0 ELSE 1
  /\ Goto(t, IF owner # NotRecoverable THEN "enqueue"
             ELSE IF op[t] = "trylock" THEN "clear" ELSE "unrecoverable")
  /\ leaked' = (leaked \/ (owner = NotRecoverable /\ op[t] = "trylock"))
  /\ UNCHANGED <<kind, lock, owner, robust_list, op_pending, op, oldval,
                 assume_other_futex_waiters, newowner, held, dirty, unwoken, deaths>>

\* lll_unlock, which wakes if the old value, as an int, is greater than one:
\* FUTEX_WAITERS is its sign bit.
UnlockUnrecoverable(t) ==
  /\ pc[t] = "unrecoverable"
  /\ lock' = Free
  /\ Goto(t, IF lock.waiters THEN "clear" ELSE "unrecoverablewake")
  /\ unwoken' = (unwoken \/ (lock.waiters /\ Asleep # {}))
  /\ UNCHANGED <<owner, count, robust_list, op_pending, op, oldval, assume_other_futex_waiters,
                 newowner, held, kind, dirty, leaked, deaths>>

UnrecoverableWake(t) ==
  /\ pc[t] = "unrecoverablewake"
  /\ Wake(t, "clear")
  /\ UNCHANGED <<lock, owner, count, robust_list, op_pending, op, oldval,
                 assume_other_futex_waiters, newowner, held, Fixed>>

\* Taken over from a dead owner: inconsistent until marked otherwise.
MarkInconsistent(t) ==
  /\ pc[t] = "inconsistent"
  /\ owner' = Inconsistent /\ count' = 1
  /\ Goto(t, "enqueuedead")
  /\ UNCHANGED <<lock, robust_list, op_pending, op, oldval, assume_other_futex_waiters, newowner,
                 held, Fixed>>

\* Mutant of Enqueue: list_op_pending is cleared first.
ClearThenEnqueue(t) ==
  /\ pc[t] \in {"enqueue", "enqueuedead"}
  /\ op_pending' = op_pending \ {t}
  /\ Goto(t, IF pc[t] = "enqueue" THEN "clearok" ELSE "cleardead")
  /\ UNCHANGED <<lock, owner, count, robust_list, op, oldval, assume_other_futex_waiters,
                 newowner, held, Fixed>>

\* ENQUEUE_MUTEX
Enqueue(t) ==
  /\ pc[t] \in {"enqueue", "enqueuedead"}
  /\ robust_list' = robust_list \cup {t}
  /\ Goto(t, IF pc[t] = "enqueue" THEN "clearok" ELSE "cleardead")
  /\ UNCHANGED <<lock, owner, count, op_pending, op, oldval, assume_other_futex_waiters,
                 newowner, held, Fixed>>

\* Clear list_op_pending, the last thing before all returns but one.
ClearPending(t) ==
  /\ pc[t] \in {"clear", "clearok", "cleardead"}
  /\ op_pending' = op_pending \ {t}
  /\ CASE pc[t] = "clear" -> Return(t, "no")
       [] pc[t] = "cleardead" -> Return(t, "ownerdead")
       [] pc[t] = "clearok" ->
            /\ Goto(t, "setowner")
            /\ UNCHANGED <<op, oldval, assume_other_futex_waiters, newowner, held>>
  /\ UNCHANGED <<lock, owner, count, robust_list, Fixed>>

\* Record the ownership.
SetOwner(t) ==
  /\ pc[t] = "setowner"
  /\ owner' = t
  /\ Return(t, "yes")
  /\ UNCHANGED <<lock, count, robust_list, op_pending, Fixed>>

-----------------------------------------------------------------------------
\* The program has repaired the data and calls pthread_mutex_consistent.
Consistent(t) ==
  /\ pc[t] = "program" /\ held[t] = "ownerdead"
  /\ owner = Inconsistent
  /\ owner' = t
  /\ held' = [held EXCEPT ![t] = "yes"]
  /\ dirty' = FALSE
  /\ UNCHANGED <<kind, lock, count, robust_list, op_pending, pc, op, oldval,
                 assume_other_futex_waiters, newowner, leaked, unwoken, deaths>>

\* Mutant of Unlock: a mutex that was not repaired is released all the same.
UnlockAnyhow(t) ==
  /\ pc[t] = "program" /\ held[t] # "no"
  /\ count' = IF kind = "recursive" THEN count - 1 ELSE count
  /\ IF kind = "recursive" /\ count > 1
       THEN UNCHANGED <<op_pending, newowner, held, pc>>
       ELSE /\ newowner' = [newowner EXCEPT ![t] = NoThread]
            /\ op_pending' = op_pending \cup {t}
            /\ held' = [held EXCEPT ![t] = "no"]
            /\ Goto(t, "dequeue")
  /\ UNCHANGED <<lock, owner, robust_list, op, oldval, assume_other_futex_waiters, Fixed>>

\* pthread_mutex_unlock: a mutex that was not repaired becomes unrecoverable.
Unlock(t) ==
  /\ pc[t] = "program" /\ held[t] # "no"
  /\ kind = "recursive" => owner \in {Inconsistent, t}
  /\ count' = IF kind = "recursive" THEN count - 1 ELSE count
  /\ IF kind = "recursive" /\ count > 1
       THEN UNCHANGED <<op_pending, newowner, held, pc>>
       ELSE /\ newowner' = [newowner EXCEPT ![t] = IF owner = Inconsistent THEN NotRecoverable
                                                                          ELSE NoThread]
            /\ op_pending' = op_pending \cup {t}
            /\ held' = [held EXCEPT ![t] = "no"]
            /\ Goto(t, "dequeue")
  /\ UNCHANGED <<lock, owner, robust_list, op, oldval, assume_other_futex_waiters, Fixed>>

\* DEQUEUE_MUTEX
Dequeue(t) ==
  /\ pc[t] = "dequeue"
  /\ robust_list' = robust_list \ {t}
  /\ Goto(t, "resetowner")
  /\ UNCHANGED <<lock, owner, count, op_pending, op, oldval, assume_other_futex_waiters,
                 newowner, held, Fixed>>

ResetOwner(t) ==
  /\ pc[t] = "resetowner"
  /\ owner' = newowner[t]
  /\ Goto(t, "release")
  /\ UNCHANGED <<lock, count, robust_list, op_pending, op, oldval, assume_other_futex_waiters,
                 newowner, held, Fixed>>

Release(t) ==
  /\ pc[t] = "release"
  /\ lock' = Free
  /\ Goto(t, IF lock.waiters THEN "wake" ELSE "clear")
  /\ UNCHANGED <<owner, count, robust_list, op_pending, op, oldval, assume_other_futex_waiters,
                 newowner, held, Fixed>>

ReleaseWake(t) ==
  /\ pc[t] = "wake"
  /\ Wake(t, "clear")
  /\ UNCHANGED <<lock, owner, count, robust_list, op_pending, op, oldval,
                 assume_other_futex_waiters, newowner, held, Fixed>>

-----------------------------------------------------------------------------
\* The end of a thread, and what the kernel does about its robust mutexes: a
\* mutex it has is handed on, and so is a wake-up it may have owed or received
\* if the lock word is 0; with another owner in it, it is not.
Die(t) ==
  /\ pc[t] # "dead" /\ deaths < MaxDeaths
  /\ deaths' = deaths + 1
  /\ dirty' = (dirty \/ held[t] # "no")
  /\ robust_list' = robust_list \ {t} /\ op_pending' = op_pending \ {t}
  /\ \/ /\ t \in robust_list \cup op_pending /\ lock.tid = t
        /\ lock' = Word(NoThread, lock.waiters, TRUE)
        /\ IF lock.waiters THEN Wake(t, "dead") ELSE Goto(t, "dead")
        /\ UNCHANGED unwoken
     \/ /\ t \in op_pending /\ lock.tid = NoThread
        /\ Wake(t, "dead")
        /\ UNCHANGED <<lock, unwoken>>
     \/ /\ ~(t \in robust_list \cup op_pending /\ lock.tid = t)
        /\ ~(t \in op_pending /\ lock.tid = NoThread)
        /\ Goto(t, "dead")
        /\ unwoken' = (unwoken \/ (~lock.waiters /\ (pc[t] = "wake" \/ t \in assume_other_futex_waiters)))
        /\ UNCHANGED lock
  /\ op' = [op EXCEPT ![t] = "lock"]
  /\ oldval' = [oldval EXCEPT ![t] = Free]
  /\ assume_other_futex_waiters' = assume_other_futex_waiters \ {t}
  /\ newowner' = [newowner EXCEPT ![t] = NoThread]
  /\ held' = [held EXCEPT ![t] = "no"]
  /\ UNCHANGED <<kind, owner, count, leaked>>

-----------------------------------------------------------------------------
Run(t) ==
  \/ Load(t) \/ TakeFree(t) \/ TakeOver(t) \/ Relock(t) \/ SetWaiters(t) \/ FutexWait(t)
  \/ TryTake(t) \/ Acquired(t) \/ UnlockUnrecoverable(t) \/ UnrecoverableWake(t)
  \/ MarkInconsistent(t) \/ Enqueue(t) \/ ClearPending(t) \/ SetOwner(t)
  \/ Dequeue(t) \/ ResetOwner(t) \/ Release(t) \/ ReleaseWake(t)

Next ==
  \E t \in Threads :
    Run(t) \/ Call(t) \/ Consistent(t) \/ Unlock(t) \/ TimedOut(t) \/ SpuriousWake(t) \/ Die(t)

\* A thread in the library is scheduled.
Spec == Init /\ [][Next]_vars /\ \A t \in Threads : WF_vars(Run(t))

-----------------------------------------------------------------------------
\* The threads are interchangeable.
Symmetry == Permutations(Threads)

Places ==
  {"program", "load", "loop", "wait", "asleep", "acquired", "unrecoverable",
   "unrecoverablewake", "inconsistent", "enqueue", "enqueuedead", "clear", "clearok",
   "cleardead", "setowner", "dequeue", "resetowner", "release", "wake", "dead"}

Words == [tid : Threads \cup {NoThread}, waiters : BOOLEAN, died : BOOLEAN]

\* Types; the flag FUTEX_OWNER_DIED never stands beside a TID, since the
\* kernel clears the TID and the next owner the flag.
TypeOK ==
  /\ kind \in Kinds /\ count \in 0 .. MaxCount
  /\ lock \in Words /\ oldval \in [Threads -> Words]
  /\ pc \in [Threads -> Places]
  /\ lock.died => lock.tid = NoThread
  /\ \A t \in Threads : oldval[t].died => oldval[t].tid = NoThread
  /\ owner \in Threads \cup {NoThread, Inconsistent, NotRecoverable}
  /\ newowner \in [Threads -> {NoThread, NotRecoverable}]
  /\ robust_list \subseteq Threads /\ op_pending \subseteq Threads
  /\ assume_other_futex_waiters \subseteq Threads
  /\ op \in [Threads -> {"lock", "timedlock", "trylock"}]
  /\ held \in [Threads -> {"no", "yes", "ownerdead"}]
  /\ dirty \in BOOLEAN /\ leaked \in BOOLEAN /\ unwoken \in BOOLEAN /\ deaths \in 0 .. MaxDeaths

\* At most one thread has the mutex, and it is the one the lock word names,
\* whatever holders died on the way.
MutualExclusion ==
  /\ TypeOK
  /\ \A t \in Threads : held[t] # "no" => lock.tid = t

\* Wherever it dies, the kernel finds the mutex a thread has: it is in the
\* robust list or is the pending operation, from before the lock word is
\* taken until after it is given back.
HolderIsFound ==
  ~leaked => \A t \in Threads : lock.tid = t => t \in robust_list \cup op_pending

\* A thread that locks with result 0 never finds data that a dead holder left
\* behind: until pthread_mutex_consistent is called everybody gets EOWNERDEAD,
\* and ENOTRECOVERABLE once somebody has unlocked without it.
InconsistencyIsReported ==
  ~leaked => \A t \in Threads : held[t] = "yes" => ~dirty

\* A sleeper is never forgotten: the owner knows of it from FUTEX_WAITERS, or
\* a wake-up is on its way, or a thread that has been awakened will set the
\* flag again.  A thread that dies at any of these points passes it on,
\* unless the mutex has got another owner that knows of no waiters, and the
\* lll_unlock of an unrecoverable mutex with waiters does not (unwoken).
SleeperHasWaker ==
  Asleep # {} /\ ~unwoken =>
    \/ lock.tid # NoThread /\ lock.waiters
    \/ \E t \in Threads :
         \/ pc[t] = "wake"
         \/ t \in assume_other_futex_waiters /\ pc[t] \in {"load", "loop", "wait"}

\* A mutex that has become unrecoverable lets all its waiters go.
AllWaitersAwake ==
  \A t \in Threads : (pc[t] = "asleep" /\ owner = NotRecoverable) ~> (pc[t] # "asleep")
=============================================================================
