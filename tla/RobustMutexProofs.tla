------------------------- MODULE RobustMutexProofs --------------------------
(* Machine-checked proofs about RobustMutex, for any set of threads, any     *)
(* number of deaths and every kind of mutex.                                 *)
EXTENDS RobustMutex, TLAPS

\* Where a thread has the lock word and the program does not know yet, or any
\* more.
Owning == {"acquired", "unrecoverable", "inconsistent", "enqueue", "enqueuedead", "clearok",
           "cleardead", "setowner", "dequeue", "resetowner", "release"}

Trying == {"load", "loop", "wait", "asleep"}

\* The lock word names the thread that has the mutex, and a thread that has it
\* is in the program or finds out that it has it.
WordNamesOwner ==
  /\ lock.tid = NoThread => lock = Free \/ lock.died
  /\ \A t \in Threads :
       /\ pc[t] \in Owning \/ held[t] # "no" => lock.tid = t
       /\ ~leaked /\ lock.tid = t => pc[t] \in Owning \/ held[t] # "no"
       /\ held[t] # "no" => /\ pc[t] \in {"program", "load", "loop"}
                            /\ pc[t] # "program" /\ kind = "normal" => op[t] = "trylock"
       /\ pc[t] = "wake" => lock.tid # t

\* A copy of the lock word tells a thread correctly whether it is the owner.
CopyIsGood ==
  \A t \in Threads :
    /\ oldval[t].tid = NoThread => oldval[t] = Free \/ oldval[t].died
    /\ pc[t] \in Trying \ {"load"} =>
         /\ oldval[t].tid = t <=> lock.tid = t
         /\ lock.tid = t /\ oldval[t].waiters => lock.waiters
    /\ pc[t] = "wait" => oldval[t].waiters /\ oldval[t].tid # NoThread
    /\ pc[t] \in {"wait", "asleep"} /\ kind # "normal" => oldval[t].tid # t

\* Who has slept knows that others may sleep.
SleptKnows ==
  \A t \in Threads :
    /\ pc[t] = "asleep" => t \in assume_other_futex_waiters
    /\ pc[t] \in {"wait", "asleep"} => op[t] # "trylock"
    /\ pc[t] = "program" \/ op[t] = "trylock" => t \notin assume_other_futex_waiters
    /\ t \in assume_other_futex_waiters /\ pc[t] \in Trying /\ lock.tid = t =>
         kind = "normal" /\ lock.waiters

\* The recursion counter of a mutex that is held is positive.
CountPositive ==
  \A t \in Threads :
    held[t] # "no" \/ pc[t] \in {"enqueue", "enqueuedead", "clearok", "cleardead", "setowner"}
      => count >= 1

\* What the kernel would find of a thread.
KernelFinds ==
  \A t \in Threads :
    /\ pc[t] \notin {"program", "dead", "setowner"} => t \in op_pending
    /\ ~leaked /\ (pc[t] \in {"clearok", "cleardead", "setowner"} \/ held[t] # "no") =>
         t \in robust_list

\* Inconsistent data is known to be: from the lock word, or from the owner field
\* and from what the thread that has the mutex is about to do.
DirtyIsKnown ==
  /\ \A t \in Threads : pc[t] = "unrecoverable" => owner = NotRecoverable
  /\ ~leaked /\ owner = NotRecoverable =>
       \A t \in Threads :
         /\ pc[t] \notin {"enqueue", "enqueuedead", "clearok", "cleardead", "setowner",
                          "dequeue", "resetowner"}
         /\ held[t] = "no"
  /\ ~leaked /\ dirty =>
       \/ lock.died
       \/ owner = NotRecoverable
       \/ \E t \in Threads :
            /\ lock.tid = t
            /\ \/ pc[t] = "inconsistent"
               \/ /\ owner = Inconsistent
                  /\ \/ pc[t] \in {"enqueuedead", "cleardead"}
                     \/ held[t] = "ownerdead"
                     \/ pc[t] \in {"dequeue", "resetowner"} /\ newowner[t] = NotRecoverable

\* The inductive invariant.
IInv ==
  /\ TypeOK
  /\ WordNamesOwner
  /\ CopyIsGood
  /\ SleptKnows
  /\ CountPositive
  /\ KernelFinds
  /\ DirtyIsKnown
  /\ SleeperHasWaker
-----------------------------------------------------------------------------
\* The lock words that the code makes.
LEMMA WordIsWord ==
  ASSUME NEW t \in Threads \cup {NoThread}, NEW waiters \in BOOLEAN, NEW died \in BOOLEAN
  PROVE  /\ Word(t, waiters, died) \in Words
         /\ Word(t, waiters, died).tid = t
         /\ Word(t, waiters, died).waiters = waiters
         /\ Word(t, waiters, died).died = died
BY DEF Word, Words

\* The flag is set in a word that is made from membership in a set.
LEMMA FlagIsWord ==
  ASSUME NEW t \in Threads, NEW S
  PROVE  /\ Word(t, t \in S, FALSE) \in Words
         /\ Word(t, t \in S, FALSE).tid = t
         /\ Word(t, t \in S, FALSE).waiters <=> t \in S
         /\ ~Word(t, t \in S, FALSE).died
<1>1. (t \in S) \in BOOLEAN
  BY SMT
<1>2. Word(t, t \in S, FALSE) \in Words
  BY <1>1, WordIsWord, Zenon
<1>3. Word(t, t \in S, FALSE).tid = t /\ (Word(t, t \in S, FALSE).waiters <=> t \in S)
  BY Zenon DEF Word
<1>4. ~Word(t, t \in S, FALSE).died
  BY Zenon DEF Word
<1> QED
  BY <1>2, <1>3, <1>4, Zenon

\* The one word without TID, waiters and dead owner.
LEMMA FreeIsWord ==
  /\ Free \in Words /\ Free.tid = NoThread /\ ~Free.waiters /\ ~Free.died
  /\ NoThread \notin Threads
BY WordIsWord, RobustAssumption, Zenon DEF Free

-----------------------------------------------------------------------------
\* The cases of a step, with the compare-and-exchanges and wake-ups resolved.

Kept == <<owner, count, robust_list, op_pending, op, assume_other_futex_waiters, newowner, held,
          Fixed>>

\* A compare-and-exchange that fails only corrects the copy of the lock word.
Reload(t) ==
  /\ pc[t] = "loop"
  /\ oldval' = [oldval EXCEPT ![t] = lock]
  /\ UNCHANGED <<lock, pc, Kept>>

\* One that succeeds changes the lock word; the copy is the same.
Swapped(t, place) ==
  /\ pc[t] = "loop"
  /\ lock' \in Words /\ ~lock'.died
  /\ oldval' = [oldval EXCEPT ![t] = lock']
  /\ Goto(t, place)
  /\ UNCHANGED Kept

GotFree(t) ==
  /\ Swapped(t, "acquired")
  /\ lock = Free
  /\ lock'.tid = t /\ (lock'.waiters <=> t \in assume_other_futex_waiters)

GotOver(t) ==
  /\ Swapped(t, "inconsistent")
  /\ lock.died
  /\ lock'.tid = t /\ (lock'.waiters <=> lock.waiters \/ t \in assume_other_futex_waiters)

FlagSet(t) ==
  /\ Swapped(t, "wait")
  /\ op[t] # "trylock"
  /\ oldval[t] = lock /\ lock.tid # NoThread /\ ~(lock.tid = t /\ kind # "normal")
  /\ lock'.tid = lock.tid /\ lock'.waiters

FlagFound(t) ==
  /\ MustBlock(t) /\ oldval[t].waiters
  /\ Goto(t, "wait")
  /\ UNCHANGED <<lock, oldval, Kept>>

TryGot(t) ==
  /\ pc[t] = "loop" /\ op[t] = "trylock"
  /\ lock = Free
  /\ lock' \in Words /\ lock'.tid = t /\ ~lock'.waiters /\ ~lock'.died
  /\ Goto(t, "acquired")
  /\ UNCHANGED <<oldval, Kept>>

TryBusy(t) ==
  /\ pc[t] = "loop" /\ op[t] = "trylock"
  /\ op_pending' = op_pending \ {t}
  /\ Return(t, held[t])
  /\ UNCHANGED <<lock, owner, count, robust_list, Fixed>>

TryUnrecoverable(t) ==
  /\ pc[t] = "loop" /\ op[t] = "trylock"
  /\ lock.died
  /\ count' = 0
  /\ Goto(t, "clear")
  /\ UNCHANGED <<lock, owner, robust_list, op_pending, op, oldval, assume_other_futex_waiters,
                 newowner, held, Fixed>>

ClearAnd(t, place) ==
  /\ pc[t] = place
  /\ op_pending' = op_pending \ {t}
  /\ UNCHANGED <<lock, owner, count, robust_list, Fixed>>

ClearNo(t) == ClearAnd(t, "clear") /\ Return(t, "no")
ClearDead(t) == ClearAnd(t, "cleardead") /\ Return(t, "ownerdead")
ClearOk(t) ==
  /\ ClearAnd(t, "clearok")
  /\ Goto(t, "setowner")
  /\ UNCHANGED <<op, oldval, assume_other_futex_waiters, newowner, held>>

\* One sleeper, if there is one, goes on, and t goes to place.
Woken(t, place) ==
  /\ pc' \in [Threads -> Places] /\ pc'[t] = place
  /\ \A u \in Threads \ {t} : pc'[u] = pc[u] \/ (pc[u] = "asleep" /\ pc'[u] = "load")
  /\ \/ \A u \in Threads : pc'[u] # "asleep"
     \/ \E s \in Threads \ {t} : pc[s] = "asleep" /\ pc'[s] = "load"

WakeOther(t) ==
  /\ pc[t] \in {"wake", "unrecoverablewake"}
  /\ Woken(t, "clear")
  /\ UNCHANGED <<lock, oldval, Kept>>

Dead(t) ==
  /\ deaths' \in 0 .. MaxDeaths
  /\ dirty' \in BOOLEAN /\ (dirty' <=> dirty \/ held[t] # "no")
  /\ robust_list' = robust_list \ {t} /\ op_pending' = op_pending \ {t}
  /\ op' = [op EXCEPT ![t] = "lock"]
  /\ oldval' = [oldval EXCEPT ![t] = Free]
  /\ assume_other_futex_waiters' = assume_other_futex_waiters \ {t}
  /\ newowner' = [newowner EXCEPT ![t] = NoThread]
  /\ held' = [held EXCEPT ![t] = "no"]
  /\ UNCHANGED <<kind, owner, count, leaked>>

Orphaned(t) ==
  /\ lock.tid = t
  /\ lock' \in Words /\ lock'.tid = NoThread /\ lock'.died /\ unwoken' = unwoken

DieNoWaiters(t) == Dead(t) /\ Orphaned(t) /\ ~lock.waiters /\ Goto(t, "dead")
DieOwner(t) == Dead(t) /\ Orphaned(t) /\ Woken(t, "dead")
DiePending(t) ==
  /\ Dead(t) /\ lock.tid = NoThread
  /\ Woken(t, "dead")
  /\ UNCHANGED <<lock, unwoken>>
DieOther(t) ==
  /\ Dead(t)
  /\ ~(t \in robust_list \cup op_pending /\ lock.tid = t)
  /\ ~(t \in op_pending /\ lock.tid = NoThread)
  /\ Goto(t, "dead")
  /\ unwoken' \in BOOLEAN
  /\ unwoken' <=> unwoken \/ (~lock.waiters /\ (pc[t] = "wake" \/ t \in assume_other_futex_waiters))
  /\ lock' = lock

Cases(t) ==
  \/ Reload(t) \/ GotFree(t) \/ GotOver(t) \/ FlagSet(t) \/ FlagFound(t) \/ TryGot(t) \/ TryBusy(t)
  \/ TryUnrecoverable(t) \/ ClearNo(t) \/ ClearDead(t) \/ ClearOk(t) \/ WakeOther(t)
  \/ DieNoWaiters(t) \/ DieOwner(t) \/ DiePending(t) \/ DieOther(t)
  \/ Load(t) \/ Relock(t) \/ FutexWait(t) \/ Acquired(t) \/ UnlockUnrecoverable(t)
  \/ MarkInconsistent(t) \/ Enqueue(t) \/ SetOwner(t) \/ Dequeue(t) \/ ResetOwner(t) \/ Release(t)
  \/ Call(t) \/ Consistent(t) \/ Unlock(t) \/ TimedOut(t) \/ SpuriousWake(t)

\* These are all the cases.
LEMMA StepCases ==
  ASSUME TypeOK, CopyIsGood, NEW t \in Threads,
         Run(t) \/ Call(t) \/ Consistent(t) \/ Unlock(t) \/ TimedOut(t) \/ SpuriousWake(t) \/ Die(t)
  PROVE  Cases(t)
<1>0. /\ oldval[t] \in Words /\ lock \in Words
      /\ oldval[t].waiters \in BOOLEAN /\ lock.waiters \in BOOLEAN
      /\ (t \in assume_other_futex_waiters) \in BOOLEAN
      /\ (oldval[t].waiters \/ t \in assume_other_futex_waiters) \in BOOLEAN
  BY DEF TypeOK, Words
<1>1. TakeFree(t) => Reload(t) \/ GotFree(t)
  <2> DEFINE new == Word(t, t \in assume_other_futex_waiters, FALSE)
  <2>1. /\ new \in Words /\ new.tid = t /\ ~new.died
        /\ new.waiters <=> t \in assume_other_futex_waiters
    BY FlagIsWord, Zenon
  <2> HIDE DEF new
  <2> QED
    BY <2>1, Zenon DEF TakeFree, Cas, Reload, GotFree, Swapped, Kept, Goto, new
<1>2. TakeOver(t) => Reload(t) \/ GotOver(t)
  <2> DEFINE new == Word(t, oldval[t].waiters \/ t \in assume_other_futex_waiters, FALSE)
  <2>1. /\ new \in Words /\ new.tid = t /\ ~new.died
        /\ new.waiters <=> oldval[t].waiters \/ t \in assume_other_futex_waiters
    BY <1>0, WordIsWord, Zenon
  <2> HIDE DEF new
  <2> QED
    BY <2>1, Zenon DEF TakeOver, Cas, Reload, GotOver, Swapped, Kept, Goto, new
<1>3. SetWaiters(t) => Reload(t) \/ FlagSet(t) \/ FlagFound(t)
  <2>1. CASE oldval[t].waiters
    BY <2>1 DEF SetWaiters, FlagFound, Kept
  <2>2. CASE ~oldval[t].waiters /\ lock # oldval[t]
    BY <2>2 DEF SetWaiters, Cas, Reload, Kept, MustBlock
  <2>3. CASE ~oldval[t].waiters /\ lock = oldval[t]
    <3> DEFINE new == [oldval[t] EXCEPT !.waiters = TRUE]
    <3>1. new \in Words /\ new.tid = lock.tid /\ new.waiters /\ new.died = lock.died
      BY <1>0, <2>3, Zenon DEF Words
    <3> HIDE DEF new
    <3>2. ASSUME MustBlock(t) PROVE lock.tid # NoThread /\ ~lock.died
      BY <2>3, <3>2 DEF MustBlock, CopyIsGood
    <3> QED
      BY <2>3, <3>1, <3>2, Zenon DEF SetWaiters, Cas, FlagSet, Swapped, Kept, MustBlock, Goto, new
  <2> QED
    BY <2>1, <2>2, <2>3
<1>4. TryTake(t) => Reload(t) \/ TryGot(t) \/ TryBusy(t) \/ TryUnrecoverable(t)
  <2>1. LET new == Word(t, FALSE, FALSE)
        IN  new \in Words /\ new.tid = t /\ ~new.waiters /\ ~new.died
    BY WordIsWord, Zenon
  <2> QED
    BY <2>1, Zenon DEF TryTake, Reload, TryGot, TryBusy, TryUnrecoverable, Kept, Goto
<1>5. ClearPending(t) => ClearNo(t) \/ ClearDead(t) \/ ClearOk(t)
  <2>1. CASE pc[t] = "clear"
    BY <2>1 DEF ClearPending, ClearNo, ClearAnd
  <2>2. CASE pc[t] = "cleardead"
    BY <2>2 DEF ClearPending, ClearDead, ClearAnd
  <2>3. CASE pc[t] = "clearok"
    BY <2>3 DEF ClearPending, ClearOk, ClearAnd
  <2> QED
    BY <2>1, <2>2, <2>3, Zenon DEF ClearPending
<1>6. ASSUME NEW place \in Places \ {"asleep"}, Wake(t, place) PROVE Woken(t, place)
  <2>1. "load" \in Places
    BY DEF Places
  <2>2. CASE Asleep \ {t} = {}
    BY <1>6, <2>2 DEF TypeOK, Wake, Goto, Asleep, Woken
  <2>3. CASE Asleep \ {t} # {}
    <3>1. PICK s \in Asleep \ {t} : pc' = [pc EXCEPT ![t] = place, ![s] = "load"]
      BY <1>6, <2>3 DEF Wake
    <3> QED
      BY <1>6, <2>1, <3>1 DEF TypeOK, Asleep, Woken
  <2> QED
    BY <2>2, <2>3
<1>7. UnrecoverableWake(t) \/ ReleaseWake(t) => WakeOther(t)
  BY <1>6 DEF UnrecoverableWake, ReleaseWake, WakeOther, Kept, Places
<1>8. Die(t) => DieNoWaiters(t) \/ DieOwner(t) \/ DiePending(t) \/ DieOther(t)
  <2> SUFFICES ASSUME Die(t) PROVE DieNoWaiters(t) \/ DieOwner(t) \/ DiePending(t) \/ DieOther(t)
    OBVIOUS
  <2>1. Dead(t)
    <3>1. deaths' \in 0 .. MaxDeaths /\ dirty' \in BOOLEAN
      BY RobustAssumption DEF Die, TypeOK
    <3> QED
      BY <3>1, Zenon DEF Die, Dead
  <2>2. LET new == Word(NoThread, lock.waiters, TRUE)
        IN  new \in Words /\ new.tid = NoThread /\ new.died
    BY <1>0, WordIsWord, Zenon
  <2>3. "dead" \in Places \ {"asleep"}
    BY DEF Places
  <2>4. CASE t \in robust_list \cup op_pending /\ lock.tid = t
    <3>1. Orphaned(t)
      BY <2>2, <2>4, FreeIsWord, Zenon DEF Die, Orphaned
    <3>2. CASE lock.waiters
      BY <1>6, <2>1, <2>3, <2>4, <3>1, <3>2, FreeIsWord, Zenon DEF Die, DieOwner
    <3>3. CASE ~lock.waiters
      BY <2>1, <2>4, <3>1, <3>3, FreeIsWord, Zenon DEF Die, DieNoWaiters
    <3> QED
      BY <3>2, <3>3
  <2>5. CASE t \in op_pending /\ lock.tid = NoThread
    BY <1>6, <2>1, <2>3, <2>5, FreeIsWord, Zenon DEF Die, DiePending
  <2>6. CASE /\ ~(t \in robust_list \cup op_pending /\ lock.tid = t)
             /\ ~(t \in op_pending /\ lock.tid = NoThread)
    BY <2>1, <2>6, Zenon DEF Die, DieOther, TypeOK
  <2> QED
    BY <2>4, <2>5, <2>6
<1> QED
  BY <1>1, <1>2, <1>3, <1>4, <1>5, <1>7, <1>8 DEF Run, Cases

\* The types, and that FUTEX_OWNER_DIED stands beside no TID, are preserved.
LEMMA TypeOKStep ==
  ASSUME TypeOK, CountPositive, NEW t \in Threads, Cases(t)
  PROVE  TypeOK'
<1>1. CASE Reload(t) \/ GotFree(t) \/ GotOver(t) \/ FlagSet(t) \/ FlagFound(t) \/ TryGot(t) \/
           TryBusy(t) \/ TryUnrecoverable(t)
  BY <1>1, FreeIsWord, RobustAssumption DEF TypeOK, CountPositive, Places, Fixed, Kept, Goto,
         Reload, GotFree, Swapped, GotOver, FlagSet, FlagFound, MustBlock, TryGot, TryBusy, Return,
         TryUnrecoverable
<1>2. CASE ClearNo(t) \/ ClearDead(t) \/ ClearOk(t) \/ WakeOther(t)
  BY <1>2, FreeIsWord, RobustAssumption DEF TypeOK, CountPositive, Places, Fixed, Kept, Goto,
         ClearNo, ClearAnd, Return, ClearDead, ClearOk, WakeOther, Woken
<1>3. CASE DieNoWaiters(t) \/ DieOwner(t) \/ DiePending(t) \/ DieOther(t)
  BY <1>3, FreeIsWord, RobustAssumption DEF TypeOK, CountPositive, Places, Fixed, Goto,
         DieNoWaiters, Dead, Orphaned, DieOwner, Woken, DiePending, DieOther
<1>4. CASE Load(t) \/ FutexWait(t) \/ MarkInconsistent(t) \/ Enqueue(t) \/ SetOwner(t)
  BY <1>4, FreeIsWord, RobustAssumption DEF TypeOK, CountPositive, Places, Fixed, Goto, Load,
         FutexWait, MarkInconsistent, Enqueue, SetOwner, Return
<1>5. CASE Relock(t)
  BY <1>5, FreeIsWord, RobustAssumption DEF TypeOK, CountPositive, Places, Fixed, Goto, Relock,
         Return
<1>6. CASE Acquired(t)
  BY <1>6, FreeIsWord, RobustAssumption DEF TypeOK, CountPositive, Places, Fixed, Goto,
         Acquired
<1>7. CASE UnlockUnrecoverable(t)
  BY <1>7, FreeIsWord, RobustAssumption DEF TypeOK, CountPositive, Places, Fixed, Goto,
         UnlockUnrecoverable
<1>8. CASE Dequeue(t) \/ ResetOwner(t) \/ Release(t) \/ Call(t)
  BY <1>8, FreeIsWord, RobustAssumption DEF TypeOK, CountPositive, Places, Fixed, Goto,
         Dequeue, ResetOwner, Release, Call
<1>9. CASE Consistent(t)
  BY <1>9, Zenon DEF TypeOK, CountPositive, Places, Fixed, Goto, Consistent
<1>10. CASE TimedOut(t) \/ SpuriousWake(t)
  BY <1>10, FreeIsWord, RobustAssumption DEF TypeOK, CountPositive, Places, Fixed, Goto,
         TimedOut, Return, MustBlock, SpuriousWake
<1>11. CASE Unlock(t)
  BY <1>11, FreeIsWord, RobustAssumption DEF TypeOK, CountPositive, Places, Fixed, Goto, Unlock
<1> QED
  BY <1>1, <1>2, <1>3, <1>4, <1>5, <1>6, <1>7, <1>8, <1>9, <1>10, <1>11 DEF Cases

\* The lock word changes with the ownership.
LEMMA WordNamesOwnerStep ==
  ASSUME TypeOK, WordNamesOwner, CopyIsGood, KernelFinds, NEW t \in Threads, Cases(t)
  PROVE  WordNamesOwner'
<1>1. CASE Reload(t) \/ GotFree(t) \/ GotOver(t) \/ FlagSet(t) \/ FlagFound(t) \/ TryGot(t) \/
           TryBusy(t) \/ TryUnrecoverable(t)
  BY <1>1, FreeIsWord, RobustAssumption DEF TypeOK, WordNamesOwner, CopyIsGood, KernelFinds,
         Owning, Trying, Fixed, Kept, Goto, Reload, GotFree, Swapped, GotOver, FlagSet, FlagFound,
         MustBlock, TryGot, TryBusy, Return, TryUnrecoverable
<1>2. CASE ClearNo(t) \/ ClearDead(t) \/ ClearOk(t) \/ WakeOther(t)
  BY <1>2 DEF TypeOK, WordNamesOwner, CopyIsGood, KernelFinds, Owning, Trying, Fixed, Kept,
         Goto, ClearNo, ClearAnd, Return, ClearDead, ClearOk, WakeOther, Woken
<1>3. CASE DieNoWaiters(t) \/ DieOwner(t) \/ DiePending(t) \/ DieOther(t)
  BY <1>3, FreeIsWord, RobustAssumption DEF TypeOK, WordNamesOwner, CopyIsGood, KernelFinds,
         Owning, Trying, Fixed, Goto, DieNoWaiters, Dead, Orphaned, DieOwner, Woken, DiePending,
         DieOther
<1>4. CASE Load(t) \/ Relock(t) \/ FutexWait(t) \/ MarkInconsistent(t) \/ Enqueue(t) \/
           SetOwner(t)
  BY <1>4 DEF TypeOK, WordNamesOwner, CopyIsGood, KernelFinds, Owning, Trying, Fixed, Goto,
         Load, Relock, Return, FutexWait, MarkInconsistent, Enqueue, SetOwner
<1>5. CASE Acquired(t)
  <2>1. CASE owner = NotRecoverable /\ op[t] = "trylock"
    <3>1. leaked'
      BY <1>5, <2>1, Zenon DEF Acquired
    <3> QED
      BY <1>5, <2>1, <3>1 DEF TypeOK, WordNamesOwner, Owning, Goto, Acquired
  <2>2. CASE ~(owner = NotRecoverable /\ op[t] = "trylock")
    BY <1>5, <2>2 DEF TypeOK, WordNamesOwner, Owning, Goto, Acquired
  <2> QED
    BY <2>1, <2>2
<1>6. CASE UnlockUnrecoverable(t)
  BY <1>6, FreeIsWord, RobustAssumption DEF TypeOK, WordNamesOwner, CopyIsGood, KernelFinds,
         Owning, Trying, Fixed, Goto, UnlockUnrecoverable
<1>7. CASE Dequeue(t) \/ ResetOwner(t) \/ Release(t) \/ Call(t) \/ Consistent(t) \/ Unlock(t)
            \/ TimedOut(t) \/ SpuriousWake(t)
  BY <1>7, FreeIsWord, RobustAssumption DEF TypeOK, WordNamesOwner, CopyIsGood, KernelFinds,
         Owning, Trying, Fixed, Goto, Dequeue, ResetOwner, Release, Call, Consistent, Unlock, TimedOut,
         Return, MustBlock, SpuriousWake
<1> QED
  BY <1>1, <1>2, <1>3, <1>4, <1>5, <1>6, <1>7 DEF Cases

\* Nobody but a thread itself changes whether the lock word names it.
LEMMA CopyIsGoodStep ==
  ASSUME TypeOK, WordNamesOwner, CopyIsGood, NEW t \in Threads, Cases(t)
  PROVE  CopyIsGood'
<1>1. CASE Reload(t) \/ GotFree(t) \/ GotOver(t) \/ FlagSet(t) \/ FlagFound(t) \/ TryGot(t) \/
           TryBusy(t) \/ TryUnrecoverable(t)
  BY <1>1, FreeIsWord, RobustAssumption DEF TypeOK, WordNamesOwner, CopyIsGood, Owning, Trying,
         Fixed, Kept, Goto, Reload, GotFree, Swapped, GotOver, FlagSet, FlagFound, MustBlock, TryGot,
         TryBusy, Return, TryUnrecoverable
<1>2. CASE ClearNo(t) \/ ClearDead(t) \/ ClearOk(t) \/ WakeOther(t)
  BY <1>2 DEF TypeOK, WordNamesOwner, CopyIsGood, Owning, Trying, Fixed, Kept, Goto, ClearNo,
         ClearAnd, Return, ClearDead, ClearOk, WakeOther, Woken
<1>3. CASE DieNoWaiters(t) \/ DieOwner(t) \/ DiePending(t) \/ DieOther(t)
  BY <1>3, FreeIsWord, RobustAssumption DEF TypeOK, WordNamesOwner, CopyIsGood, Owning, Trying,
         Fixed, Goto, DieNoWaiters, Dead, Orphaned, DieOwner, Woken, DiePending, DieOther
<1>4. CASE Load(t) \/ Relock(t) \/ FutexWait(t) \/ MarkInconsistent(t) \/ Enqueue(t) \/
           SetOwner(t)
  BY <1>4 DEF TypeOK, WordNamesOwner, CopyIsGood, Owning, Trying, Fixed, Goto, Load, Relock,
         Return, FutexWait, MarkInconsistent, Enqueue, SetOwner
<1>5. CASE Acquired(t)
  BY <1>5 DEF TypeOK, WordNamesOwner, CopyIsGood, Owning, Trying, Fixed, Goto, Acquired
<1>6. CASE UnlockUnrecoverable(t)
  BY <1>6, FreeIsWord, RobustAssumption DEF TypeOK, WordNamesOwner, CopyIsGood, Owning, Trying,
         Fixed, Goto, UnlockUnrecoverable
<1>7. CASE Dequeue(t) \/ ResetOwner(t) \/ Release(t) \/ Call(t) \/ Consistent(t) \/ Unlock(t)
            \/ TimedOut(t) \/ SpuriousWake(t)
  BY <1>7, FreeIsWord, RobustAssumption DEF TypeOK, WordNamesOwner, CopyIsGood, Owning, Trying,
         Fixed, Goto, Dequeue, ResetOwner, Release, Call, Consistent, Unlock, TimedOut, Return,
         MustBlock, SpuriousWake
<1> QED
  BY <1>1, <1>2, <1>3, <1>4, <1>5, <1>6, <1>7 DEF Cases

\* A thread remembers that it slept until it returns.
LEMMA SleptKnowsStep ==
  ASSUME TypeOK, WordNamesOwner, CopyIsGood, SleptKnows, NEW t \in Threads, Cases(t)
  PROVE  SleptKnows'
<1>1. CASE Reload(t) \/ GotFree(t) \/ GotOver(t) \/ FlagSet(t) \/ FlagFound(t) \/ TryGot(t) \/
           TryBusy(t) \/ TryUnrecoverable(t)
  BY <1>1 DEF TypeOK, WordNamesOwner, CopyIsGood, SleptKnows, Trying, Fixed, Kept, Goto,
         Reload, GotFree, Swapped, GotOver, FlagSet, FlagFound, MustBlock, TryGot, TryBusy, Return,
         TryUnrecoverable
<1>2. CASE ClearNo(t) \/ ClearDead(t) \/ ClearOk(t) \/ WakeOther(t)
  BY <1>2 DEF TypeOK, WordNamesOwner, CopyIsGood, SleptKnows, Trying, Fixed, Kept, Goto,
         ClearNo, ClearAnd, Return, ClearDead, ClearOk, WakeOther, Woken
<1>3. CASE DieNoWaiters(t) \/ DieOwner(t) \/ DiePending(t) \/ DieOther(t)
  BY <1>3, FreeIsWord, RobustAssumption DEF TypeOK, WordNamesOwner, CopyIsGood, SleptKnows,
         Trying, Fixed, Goto, DieNoWaiters, Dead, Orphaned, DieOwner, Woken, DiePending, DieOther
<1>4. CASE Load(t) \/ Relock(t) \/ FutexWait(t) \/ MarkInconsistent(t) \/ Enqueue(t) \/
           SetOwner(t)
  BY <1>4 DEF TypeOK, WordNamesOwner, CopyIsGood, SleptKnows, Trying, Fixed, Goto, Load,
         Relock, Return, FutexWait, MarkInconsistent, Enqueue, SetOwner
<1>5. CASE Acquired(t)
  BY <1>5 DEF TypeOK, WordNamesOwner, CopyIsGood, SleptKnows, Trying, Fixed, Goto, Acquired
<1>6. CASE UnlockUnrecoverable(t)
  BY <1>6, FreeIsWord, RobustAssumption DEF TypeOK, WordNamesOwner, CopyIsGood, SleptKnows,
         Trying, Fixed, Goto, UnlockUnrecoverable
<1>7. CASE Dequeue(t) \/ ResetOwner(t) \/ Release(t) \/ Call(t) \/ Consistent(t) \/ Unlock(t)
            \/ TimedOut(t) \/ SpuriousWake(t)
  BY <1>7, FreeIsWord, RobustAssumption DEF TypeOK, WordNamesOwner, CopyIsGood, SleptKnows,
         Trying, Fixed, Goto, Dequeue, ResetOwner, Release, Call, Consistent, Unlock, TimedOut, Return,
         MustBlock, SpuriousWake
<1> QED
  BY <1>1, <1>2, <1>3, <1>4, <1>5, <1>6, <1>7 DEF Cases

\* Only the owner changes the count.
LEMMA CountPositiveStep ==
  ASSUME TypeOK, WordNamesOwner, CountPositive, NEW t \in Threads, Cases(t)
  PROVE  CountPositive'
<1>1. CASE Reload(t) \/ GotFree(t) \/ GotOver(t) \/ FlagSet(t) \/ FlagFound(t) \/ TryGot(t) \/
           TryBusy(t) \/ TryUnrecoverable(t)
  BY <1>1, FreeIsWord, RobustAssumption DEF TypeOK, WordNamesOwner, CountPositive, Owning,
         Fixed, Kept, Goto, Reload, GotFree, Swapped, GotOver, FlagSet, FlagFound, MustBlock, TryGot,
         TryBusy, Return, TryUnrecoverable
<1>2. CASE ClearNo(t) \/ ClearDead(t) \/ ClearOk(t) \/ WakeOther(t)
  BY <1>2 DEF TypeOK, WordNamesOwner, CountPositive, Owning, Fixed, Kept, Goto, ClearNo,
         ClearAnd, Return, ClearDead, ClearOk, WakeOther, Woken
<1>3. CASE DieNoWaiters(t) \/ DieOwner(t) \/ DiePending(t) \/ DieOther(t)
  BY <1>3 DEF TypeOK, WordNamesOwner, CountPositive, Owning, Fixed, Goto, DieNoWaiters, Dead,
         Orphaned, DieOwner, Woken, DiePending, DieOther
<1>4. CASE Load(t) \/ Relock(t) \/ FutexWait(t) \/ MarkInconsistent(t) \/ Enqueue(t) \/
           SetOwner(t)
  BY <1>4 DEF TypeOK, WordNamesOwner, CountPositive, Owning, Fixed, Goto, Load, Relock, Return,
         FutexWait, MarkInconsistent, Enqueue, SetOwner
<1>5. CASE Acquired(t)
  BY <1>5 DEF TypeOK, WordNamesOwner, CountPositive, Owning, Fixed, Goto, Acquired
<1>6. CASE UnlockUnrecoverable(t)
  BY <1>6 DEF TypeOK, WordNamesOwner, CountPositive, Owning, Fixed, Goto, UnlockUnrecoverable
<1>7. CASE Dequeue(t) \/ ResetOwner(t) \/ Release(t) \/ Call(t) \/ Consistent(t) \/ Unlock(t)
            \/ TimedOut(t) \/ SpuriousWake(t)
  BY <1>7 DEF TypeOK, WordNamesOwner, CountPositive, Owning, Fixed, Goto, Dequeue, ResetOwner,
         Release, Call, Consistent, Unlock, TimedOut, Return, MustBlock, SpuriousWake
<1> QED
  BY <1>1, <1>2, <1>3, <1>4, <1>5, <1>6, <1>7 DEF Cases

\* list_op_pending covers the changes of the robust list.
LEMMA KernelFindsStep ==
  ASSUME TypeOK, WordNamesOwner, CopyIsGood, KernelFinds, NEW t \in Threads, Cases(t)
  PROVE  KernelFinds'
<1>1. CASE Reload(t) \/ GotFree(t) \/ GotOver(t) \/ FlagSet(t) \/ FlagFound(t) \/ TryGot(t) \/
           TryBusy(t) \/ TryUnrecoverable(t)
  BY <1>1 DEF TypeOK, WordNamesOwner, CopyIsGood, KernelFinds, Owning, Trying, Fixed, Kept,
         Goto, Reload, GotFree, Swapped, GotOver, FlagSet, FlagFound, MustBlock, TryGot, TryBusy,
         Return, TryUnrecoverable
<1>2. CASE ClearNo(t) \/ ClearDead(t) \/ ClearOk(t) \/ WakeOther(t)
  BY <1>2 DEF TypeOK, WordNamesOwner, CopyIsGood, KernelFinds, Owning, Trying, Fixed, Kept,
         Goto, ClearNo, ClearAnd, Return, ClearDead, ClearOk, WakeOther, Woken
<1>3. CASE DieNoWaiters(t) \/ DieOwner(t) \/ DiePending(t) \/ DieOther(t)
  BY <1>3 DEF TypeOK, WordNamesOwner, CopyIsGood, KernelFinds, Owning, Trying, Fixed, Goto,
         DieNoWaiters, Dead, Orphaned, DieOwner, Woken, DiePending, DieOther
<1>4. CASE Load(t) \/ Relock(t) \/ FutexWait(t) \/ MarkInconsistent(t) \/ Enqueue(t) \/
           SetOwner(t)
  BY <1>4 DEF TypeOK, WordNamesOwner, CopyIsGood, KernelFinds, Owning, Trying, Fixed, Goto,
         Load, Relock, Return, FutexWait, MarkInconsistent, Enqueue, SetOwner
<1>5. CASE Acquired(t)
  BY <1>5 DEF TypeOK, WordNamesOwner, CopyIsGood, KernelFinds, Owning, Trying, Fixed, Goto,
         Acquired
<1>6. CASE UnlockUnrecoverable(t)
  BY <1>6 DEF TypeOK, WordNamesOwner, CopyIsGood, KernelFinds, Owning, Trying, Fixed, Goto,
         UnlockUnrecoverable
<1>7. CASE Dequeue(t) \/ ResetOwner(t) \/ Release(t) \/ Call(t) \/ Consistent(t) \/ Unlock(t)
            \/ TimedOut(t) \/ SpuriousWake(t)
  BY <1>7 DEF TypeOK, WordNamesOwner, CopyIsGood, KernelFinds, Owning, Trying, Fixed, Goto,
         Dequeue, ResetOwner, Release, Call, Consistent, Unlock, TimedOut, Return, MustBlock,
         SpuriousWake
<1> QED
  BY <1>1, <1>2, <1>3, <1>4, <1>5, <1>6, <1>7 DEF Cases

\* What tells of inconsistent data is handed on before it is given up.
LEMMA DirtyIsKnownStep ==
  ASSUME TypeOK, WordNamesOwner, CopyIsGood, KernelFinds, DirtyIsKnown, NEW t \in Threads, Cases(t)
  PROVE  DirtyIsKnown'
<1>1. CASE Reload(t) \/ GotFree(t) \/ GotOver(t) \/ FlagSet(t) \/ FlagFound(t) \/ TryGot(t) \/
           TryBusy(t) \/ TryUnrecoverable(t)
  BY <1>1, FreeIsWord, RobustAssumption DEF TypeOK, WordNamesOwner, CopyIsGood, KernelFinds,
         DirtyIsKnown, Owning, Trying, Fixed, Kept, Goto, Reload, GotFree, Swapped, GotOver, FlagSet,
         FlagFound, MustBlock, TryGot, TryBusy, Return, TryUnrecoverable
<1>2. CASE ClearNo(t) \/ ClearDead(t) \/ ClearOk(t) \/ WakeOther(t)
  BY <1>2 DEF TypeOK, WordNamesOwner, CopyIsGood, KernelFinds, DirtyIsKnown, Owning, Trying,
         Fixed, Kept, Goto, ClearNo, ClearAnd, Return, ClearDead, ClearOk, WakeOther, Woken
<1>3. CASE DieNoWaiters(t) \/ DieOwner(t) \/ DiePending(t) \/ DieOther(t)
  BY <1>3, FreeIsWord, RobustAssumption DEF TypeOK, WordNamesOwner, CopyIsGood, KernelFinds,
         DirtyIsKnown, Owning, Trying, Fixed, Goto, DieNoWaiters, Dead, Orphaned, DieOwner, Woken,
         DiePending, DieOther
<1>4. CASE Load(t) \/ Relock(t) \/ FutexWait(t) \/ MarkInconsistent(t) \/ Enqueue(t) \/
           SetOwner(t)
  BY <1>4, FreeIsWord, RobustAssumption DEF TypeOK, WordNamesOwner, CopyIsGood, KernelFinds,
         DirtyIsKnown, Owning, Trying, Fixed, Goto, Load, Relock, Return, FutexWait, MarkInconsistent,
         Enqueue, SetOwner
<1>5. CASE Acquired(t)
  BY <1>5 DEF TypeOK, WordNamesOwner, CopyIsGood, KernelFinds, DirtyIsKnown, Owning, Trying,
         Fixed, Goto, Acquired
<1>6. CASE UnlockUnrecoverable(t)
  BY <1>6 DEF TypeOK, WordNamesOwner, CopyIsGood, KernelFinds, DirtyIsKnown, Owning, Trying,
         Fixed, Goto, UnlockUnrecoverable
<1>7. CASE Dequeue(t) \/ ResetOwner(t) \/ Release(t) \/ Call(t) \/ Consistent(t) \/ Unlock(t)
            \/ TimedOut(t) \/ SpuriousWake(t)
  BY <1>7, FreeIsWord, RobustAssumption DEF TypeOK, WordNamesOwner, CopyIsGood, KernelFinds,
         DirtyIsKnown, Owning, Trying, Fixed, Goto, Dequeue, ResetOwner, Release, Call, Consistent,
         Unlock, TimedOut, Return, MustBlock, SpuriousWake
<1> QED
  BY <1>1, <1>2, <1>3, <1>4, <1>5, <1>6, <1>7 DEF Cases

\* A wake-up that a sleeper needs is handed on before it is given up.
LEMMA SleeperHasWakerStep ==
  ASSUME TypeOK, WordNamesOwner, CopyIsGood, KernelFinds, SleptKnows, SleeperHasWaker, NEW t \in Threads, Cases(t)
  PROVE  SleeperHasWaker'
<1>1. CASE Reload(t) \/ GotFree(t) \/ GotOver(t) \/ FlagSet(t) \/ FlagFound(t) \/ TryGot(t) \/
           TryBusy(t) \/ TryUnrecoverable(t)
  BY <1>1, FreeIsWord, RobustAssumption DEF TypeOK, WordNamesOwner, CopyIsGood, KernelFinds,
         SleptKnows, SleeperHasWaker, Owning, Trying, Asleep, Fixed, Kept, Goto, Reload, GotFree,
         Swapped, GotOver, FlagSet, FlagFound, MustBlock, TryGot, TryBusy, Return, TryUnrecoverable
<1>2. CASE ClearNo(t) \/ ClearDead(t) \/ ClearOk(t) \/ WakeOther(t)
  BY <1>2 DEF TypeOK, WordNamesOwner, CopyIsGood, KernelFinds, SleptKnows, SleeperHasWaker,
         Owning, Trying, Asleep, Fixed, Kept, Goto, ClearNo, ClearAnd, Return, ClearDead, ClearOk,
         WakeOther, Woken
<1>3. CASE DieNoWaiters(t) \/ DieOwner(t) \/ DiePending(t) \/ DieOther(t)
  BY <1>3 DEF TypeOK, WordNamesOwner, CopyIsGood, KernelFinds, SleptKnows, SleeperHasWaker,
         Owning, Trying, Asleep, Fixed, Goto, DieNoWaiters, Dead, Orphaned, DieOwner, Woken, DiePending,
         DieOther
<1>4. CASE Load(t) \/ Relock(t) \/ FutexWait(t) \/ MarkInconsistent(t) \/ Enqueue(t) \/
           SetOwner(t)
  BY <1>4 DEF TypeOK, WordNamesOwner, CopyIsGood, KernelFinds, SleptKnows, SleeperHasWaker,
         Owning, Trying, Asleep, Fixed, Goto, Load, Relock, Return, FutexWait, MarkInconsistent,
         Enqueue, SetOwner
<1>5. CASE Acquired(t)
  BY <1>5 DEF TypeOK, WordNamesOwner, CopyIsGood, KernelFinds, SleptKnows, SleeperHasWaker,
         Owning, Trying, Asleep, Fixed, Goto, Acquired
<1>6. CASE UnlockUnrecoverable(t)
  <2>1. CASE lock.waiters /\ Asleep # {}
    <3>1. unwoken'
      BY <1>6, <2>1, Zenon DEF UnlockUnrecoverable
    <3> QED
      BY <3>1 DEF SleeperHasWaker
  <2>2. CASE ~(lock.waiters /\ Asleep # {})
    <3>1. Asleep' \subseteq Asleep /\ unwoken' = unwoken
      BY <1>6, <2>2 DEF UnlockUnrecoverable, TypeOK, Asleep, Goto
    <3> QED
      BY <1>6, <2>2, <3>1 DEF TypeOK, SleeperHasWaker, Goto, UnlockUnrecoverable
  <2> QED
    BY <2>1, <2>2
<1>7. CASE Dequeue(t) \/ ResetOwner(t) \/ Release(t) \/ Call(t) \/ Consistent(t) \/ Unlock(t)
            \/ TimedOut(t) \/ SpuriousWake(t)
  BY <1>7 DEF TypeOK, WordNamesOwner, CopyIsGood, KernelFinds, SleptKnows, SleeperHasWaker,
         Owning, Trying, Asleep, Fixed, Goto, Dequeue, ResetOwner, Release, Call, Consistent, Unlock,
         TimedOut, Return, MustBlock, SpuriousWake
<1> QED
  BY <1>1, <1>2, <1>3, <1>4, <1>5, <1>6, <1>7 DEF Cases

\* Every step of every thread preserves the inductive invariant.
LEMMA NextPreservesIInv ==
  ASSUME IInv, [Next]_vars
  PROVE  IInv'
<1>1. CASE UNCHANGED vars
  <2>1. TypeOK' /\ WordNamesOwner' /\ CopyIsGood'
    BY <1>1 DEF vars, IInv, TypeOK, WordNamesOwner, CopyIsGood
  <2>2. SleptKnows' /\ CountPositive' /\ KernelFinds'
    BY <1>1, Zenon DEF vars, IInv, SleptKnows, CountPositive, KernelFinds
  <2>3. DirtyIsKnown' /\ SleeperHasWaker'
    BY <1>1, Zenon DEF vars, IInv, DirtyIsKnown, SleeperHasWaker, Asleep
  <2> QED
    BY <2>1, <2>2, <2>3 DEF IInv
<1>2. CASE Next
  <2>1. PICK t \in Threads : Cases(t)
    BY <1>2, StepCases DEF Next, IInv
  <2> QED
    BY <2>1, TypeOKStep, WordNamesOwnerStep, CopyIsGoodStep, SleptKnowsStep, CountPositiveStep,
       KernelFindsStep, DirtyIsKnownStep, SleeperHasWakerStep DEF IInv
<1> QED
  BY <1>1, <1>2

\* The inductive invariant always holds.
LEMMA InductiveInvariant ==
  Spec => []IInv
<1>1. Init => IInv
  <2> SUFFICES ASSUME Init PROVE IInv
    OBVIOUS
  <2>1. TypeOK
    <3>1. 0 \in 0 .. MaxCount /\ 0 \in 0 .. MaxDeaths /\ "program" \in Places
      BY RobustAssumption DEF Places
    <3> QED
      BY <3>1, FreeIsWord, Zenon DEF Init, TypeOK
  <2>2. WordNamesOwner /\ CopyIsGood /\ SleptKnows
    BY FreeIsWord DEF Init, WordNamesOwner, CopyIsGood, SleptKnows, Owning, Trying
  <2>3. CountPositive /\ KernelFinds
    BY DEF Init, CountPositive, KernelFinds
  <2>4. DirtyIsKnown /\ SleeperHasWaker
    BY RobustAssumption DEF Init, DirtyIsKnown, SleeperHasWaker, Asleep
  <2> QED
    BY <2>1, <2>2, <2>3, <2>4 DEF IInv
<1>2. IInv /\ [Next]_vars => IInv'
  BY NextPreservesIInv
<1> QED
  BY <1>1, <1>2, PTL DEF Spec

-----------------------------------------------------------------------------
\* At most one thread has a robust mutex, the one the lock word names, whatever
\* threads die at whatever points of pthread_mutex_lock and
\* pthread_mutex_unlock.
THEOREM MutualExclusionHolds ==
  Spec => []MutualExclusion
<1>1. IInv => MutualExclusion
  BY DEF IInv, WordNamesOwner, MutualExclusion
<1> QED
  BY <1>1, InductiveInvariant, PTL

\* The kernel finds the mutex of a thread that dies, in the robust list or as
\* list_op_pending, at every point at which the lock word names the thread.
THEOREM HolderIsFoundHolds ==
  Spec => []HolderIsFound
<1>1. IInv => HolderIsFound
  BY DEF IInv, WordNamesOwner, KernelFinds, HolderIsFound, Owning
<1> QED
  BY <1>1, InductiveInvariant, PTL

\* Nobody is told 0 by a lock function while the data are as a dead owner left
\* them.
THEOREM InconsistencyIsReportedHolds ==
  Spec => []InconsistencyIsReported
<1>1. IInv => InconsistencyIsReported
  BY RobustAssumption
     DEF IInv, TypeOK, WordNamesOwner, DirtyIsKnown, InconsistencyIsReported
<1> QED
  BY <1>1, InductiveInvariant, PTL

\* Whoever sleeps in the futex of a robust mutex has somebody to wake it, as
\* long as no unlock of an unrecoverable mutex and no death has lost the wake-up.
THEOREM SleeperHasWakerHolds ==
  Spec => []SleeperHasWaker
<1>1. IInv => SleeperHasWaker
  BY DEF IInv
<1> QED
  BY <1>1, InductiveInvariant, PTL
=============================================================================
