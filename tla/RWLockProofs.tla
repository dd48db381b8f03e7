----------------------------- MODULE RWLockProofs -----------------------------
(* Machine-checked proofs about RWLock, for any finite set of threads, the   *)
(* three kinds of lock and any overflow bound above 1.                       *)
EXTENDS RWLock, TLAPS

Places ==
  {"program", "wake", "gate", "gatewait", "gateasleep", "add", "overflow", "startread", "setread",
   "phase", "confirm", "phasewait", "phaseasleep", "unregister", "spin",
   "register", "locked", "free", "taken", "reread", "block", "wait", "writerasleep", "reload",
   "deregister", "enable", "start", "setwrite", "done", "giveup", "yield", "close", "pass",
   "release", "reopen", "rdunlock", "giveph", "wrunlock", "offer", "leave", "giverd"}

\* Types, those of the variables of the threads included.
Types ==
  /\ TypeOK
  /\ pc \in [Threads -> Places]
  /\ op \in [Threads -> {"rd", "wr"}]
  /\ then \in [Threads -> {"no", "rd", "done", "start", "phase", "setwrite", "pass", "release",
                           "offer", "leave", "yield", "spin"}]
  /\ held \in [Threads -> {"no", "rd", "wr"}]

\* What the variables of a thread can be where it is.
Fits(t) ==
  /\ held[t] # "no" => pc[t] = "program"
  /\ pc[t] \in {"gate", "gatewait", "gateasleep", "add", "overflow", "startread", "unregister"}
       => op[t] = "rd"
  /\ pc[t] \in {"register", "locked", "free", "taken", "reread", "block", "wait", "writerasleep",
                "reload", "deregister", "enable", "start", "giveup", "yield", "pass", "release",
                "reopen"} => op[t] = "wr"
  /\ pc[t] = "enable" => then[t] \in {"done", "start", "phase", "setwrite"}
  /\ pc[t] = "taken" => then[t] \in {"done", "start", "phase"}
  /\ pc[t] = "close" => \/ then[t] \in {"pass", "release"} /\ op[t] = "wr"
                        \/ then[t] \in {"offer", "leave"} /\ t \notin ready
  /\ pc[t] = "reopen" => then[t] \in {"yield", "spin"}
  /\ pc[t] = "wake" => then[t] \in {"no", "rd"}
  /\ pc[t] \in {"register", "taken", "deregister"} => prefer_writer
  /\ t \in ready => pc[t] \in PhasePlaces \cup {"unregister", "giveup", "yield", "close", "pass",
                                                "release", "reopen", "done"}

LocalsFit == \A t \in Threads : Fits(t)

Readers == {t \in Threads : IsReader(t)}
RegisteredWriters == {t \in Threads : IsRegistered(t)}

\* The counts of StateExact.
ReadersCounted == readers.n = Cardinality(Readers)
WritersCounted == writers.n = Cardinality(RegisteredWriters)

\* WRLOCKED has one owner, or is on offer to a registered writer, or is not set.
OnePrimary ==
  /\ \A t, u \in Threads : IsPrimary(t) /\ IsPrimary(u) => t = u
  /\ (\E t \in Threads : IsPrimary(t)) <=> (readers.wrlocked /\ ~writers.handover)
  /\ writers.handover => readers.wrlocked /\ writers.n > 0

\* RWAITING is set only while a writer waits for readers.
GateIsNeeded == readers.rwaiting => WriterWaits(readers)

\* A reader that has the lock, or has seen that it will have it.
ReadsNow(t) ==
  \/ held[t] = "rd"
  \/ pc[t] \in {"rdunlock", "setread"}
  \/ pc[t] = "spin" /\ op[t] = "rd"
  \/ pc[t] = "wake" /\ then[t] = "rd"
  \/ t \in ready /\ op[t] = "rd" /\ pc[t] \in PhasePlaces \cup {"unregister"}

\* A writer that has the lock, or has seen that it will have it.
WritesNow(t) ==
  \/ held[t] = "wr"
  \/ pc[t] \in {"setwrite", "done", "wrunlock", "offer", "leave"}
  \/ pc[t] = "close" /\ then[t] \in {"offer", "leave"}
  \/ pc[t] \in {"taken", "enable"} /\ then[t] \in {"done", "setwrite"}
  \/ pc[t] = "spin" /\ op[t] = "wr"
  \/ pc[t] = "reopen" /\ then[t] = "spin"
  \/ t \in ready /\ op[t] = "wr"

\* The phase that a thread relies on does not end under it.
PhaseIsKept ==
  \A t \in Threads :
    /\ ReadsNow(t) => ~readers.wrphase
    /\ WritesNow(t) => readers.wrphase

\* __cur_writer tells pthread_rwlock_unlock who has the lock for writing.
CurWriterExact ==
  \A t \in Threads : cur_writer = t <=> (held[t] = "wr" \/ pc[t] = "wrunlock")

\* The inductive invariant.
IInv ==
  /\ Types
  /\ LocalsFit
  /\ ReadersCounted
  /\ WritersCounted
  /\ OnePrimary
  /\ GateIsNeeded
  /\ PhaseIsKept
  /\ CurWriterExact

-------------------------------------------------------------------------------
\* A step of a thread.
Step(t) ==
  \/ Rdlock(t) \/ RdGate(t) \/ RdGateTimeout(t) \/ RdAdd(t) \/ RdOverflow(t) \/ StartRead(t)
  \/ SetRead(t) \/ Tryrdlock(t) \/ RdUnregister(t) \/ PhaseLoad(t) \/ PhaseSpin(t)
  \/ PhaseConfirm(t) \/ PhaseWait(t) \/ PhaseTimeout(t) \/ Wrlock(t) \/ WrRegister(t)
  \/ WrTake(t) \/ WrTaken(t) \/ WrHandedOver(t) \/ WrReread(t) \/ WrBlock(t) \/ WrWait(t)
  \/ WrReload(t) \/ WrTimeout(t) \/ WrDeregister(t) \/ WrEnable(t) \/ WrStart(t) \/ SetWrite(t)
  \/ WrDone(t) \/ Trywrlock(t) \/ WrGiveUp(t) \/ WrYield(t) \/ WrClose(t) \/ WrReopen(t)
  \/ WrPass(t) \/ WrRelease(t) \/ WrOffer(t) \/ WrLeave(t) \/ Unlock(t) \/ Wrunlock(t)
  \/ Rdunlock(t) \/ GiveWritePhase(t) \/ GiveReadPhase(t) \/ Wake(t) \/ SpuriousWake(t)

\* The step of a thread does no more to another one than wake it.
LEMMA OthersKept ==
  ASSUME Types, NEW t \in Threads, Step(t), NEW u \in Threads, u # t
  PROVE  /\ held'[u] = held[u] /\ op'[u] = op[u] /\ then'[u] = then[u]
         /\ u \in ready' <=> u \in ready
         /\ \/ pc'[u] = pc[u]
            \/ pc[u] = "phaseasleep" /\ pc'[u] = "phase"
            \/ pc[u] = "gateasleep" /\ pc'[u] = "gatewait"
            \/ pc[u] = "writerasleep" /\ pc'[u] = "reload"
<1>1. CASE Rdlock(t) \/ RdGate(t) \/ RdGateTimeout(t)
  BY <1>1, Zenon
     DEF Types, fixed, lockVars, localVars, WriterWaits, Finish, Rdlock, RdGate, RdGateTimeout, Goto
<1>2. CASE RdAdd(t) \/ RdOverflow(t)
  BY <1>2 DEF Types, fixed, lockVars, localVars, Registered, Finish, RdAdd, RdOverflow, Goto
<1>3. CASE StartRead(t) \/ SetRead(t) \/ Tryrdlock(t) \/ RdUnregister(t)
  BY <1>3, Zenon
     DEF Types, fixed, lockVars, localVars, Finish, StartRead, SetRead, Tryrdlock, RdUnregister,
         Goto
<1>4. CASE PhaseLoad(t) \/ PhaseSpin(t)
  BY <1>4 DEF Types, fixed, lockVars, localVars, Finish, PhaseValue, PhaseLoad, PhaseSpin, Goto
<1>5. CASE PhaseConfirm(t) \/ PhaseWait(t) \/ PhaseTimeout(t)
  BY <1>5, Zenon
     DEF Types, fixed, lockVars, localVars, InPhase, PhaseValue, PhaseConfirm, PhaseWait,
         PhaseTimeout, Goto
<1>6. CASE Wrlock(t) \/ WrRegister(t) \/ WrTake(t) \/ WrTaken(t)
  BY <1>6, Zenon
     DEF Types, fixed, lockVars, localVars, WriterSees, prefer_writer, Wrlock, WrRegister, WrTake,
         WrTaken, Goto
<1>7. CASE WrHandedOver(t) \/ WrReread(t) \/ WrBlock(t) \/ WrWait(t) \/ WrReload(t)
  BY <1>7, Zenon
     DEF Types, fixed, lockVars, localVars, prefer_writer, WriterSees, WrHandedOver, WrReread,
         WrBlock, WrWait, WrReload, Goto
<1>8. CASE WrTimeout(t) \/ WrDeregister(t)
  BY <1>8, Zenon
     DEF Types, fixed, lockVars, localVars, Finish, prefer_writer, WrTimeout, WrDeregister, Goto
<1>9. CASE WrEnable(t) \/ WrStart(t) \/ SetWrite(t) \/ WrDone(t) \/ Trywrlock(t)
  BY <1>9, Zenon
     DEF Types, fixed, lockVars, localVars, Finish, prefer_writer, WrEnable, WrStart, SetWrite,
         WrDone, Trywrlock, Goto
<1>10. CASE WrGiveUp(t) \/ WrYield(t) \/ WrClose(t) \/ WrReopen(t)
  BY <1>10, Zenon
     DEF Types, fixed, lockVars, localVars, prefer_writer, WrGiveUp, WrYield, WrClose, WrReopen,
         Goto
<1>11. CASE WrPass(t) \/ WrRelease(t)
  BY <1>11 DEF Types, fixed, lockVars, localVars, Finish, WrPass, WrRelease, Goto
<1>12. CASE WrOffer(t) \/ WrLeave(t)
  BY <1>12 DEF Types, fixed, lockVars, localVars, Finish, WrOffer, WrLeave, Goto
<1>13. CASE Unlock(t) \/ Wrunlock(t)
  BY <1>13, Zenon DEF Types, fixed, lockVars, localVars, prefer_writer, Unlock, Wrunlock, Goto
<1>14. CASE Rdunlock(t)
  BY <1>14 DEF Types, fixed, lockVars, localVars, Finish, Rdunlock, Goto
<1>15. CASE GiveWritePhase(t) \/ GiveReadPhase(t)
  BY <1>15, Zenon
     DEF Types, fixed, lockVars, localVars, Finish, GiveWritePhase, GiveReadPhase, Goto
<1>16. CASE Wake(t)
  BY <1>16, Zenon DEF Types, fixed, lockVars, localVars, Wake
<1>17. CASE SpuriousWake(t)
  BY <1>17, Zenon DEF Types, fixed, lockVars, localVars, SpuriousWake, Goto
<1> QED
  BY <1>1, <1>2, <1>3, <1>4, <1>5, <1>6, <1>7, <1>8, <1>9, <1>10, <1>11, <1>12, <1>13, <1>14,
     <1>15, <1>16, <1>17, Zenon DEF Step

\* The kind of lock does not change.
LEMMA FlagsKept ==
  ASSUME NEW t \in Threads, Step(t)
  PROVE  flags' = flags
BY Zenon
   DEF Step, fixed, lockVars, localVars, Rdlock, RdGate, RdGateTimeout, RdAdd, RdOverflow,
       StartRead, SetRead, Tryrdlock, RdUnregister, PhaseLoad, PhaseSpin, PhaseConfirm, PhaseWait,
       PhaseTimeout, Wrlock, WrRegister, WrTake, WrTaken, WrHandedOver, WrReread, WrBlock, WrWait,
       WrReload, WrTimeout, WrDeregister, WrEnable, WrStart, SetWrite, WrDone, Trywrlock,
       WrGiveUp, WrYield, WrClose, WrReopen, WrPass, WrRelease, WrOffer, WrLeave, Unlock,
       Wrunlock, Rdunlock, GiveWritePhase, GiveReadPhase, Wake, SpuriousWake

\* The variables of a thread fit the place it goes to.
LEMMA FitsStep ==
  ASSUME Types, NEW t \in Threads, Fits(t), Step(t)
  PROVE  Fits(t)'
<1>0. prefer_writer' <=> prefer_writer
  BY FlagsKept, Zenon DEF prefer_writer
<1>1. CASE Rdlock(t) \/ RdGate(t) \/ RdGateTimeout(t)
  BY <1>1, <1>0
     DEF Types, Fits, PhasePlaces, fixed, lockVars, localVars, WriterWaits, Finish, Rdlock,
         RdGate, RdGateTimeout, Goto
<1>2. CASE RdAdd(t) \/ RdOverflow(t)
  BY <1>2, <1>0
     DEF Types, Fits, PhasePlaces, fixed, lockVars, localVars, Registered, Finish, RdAdd,
         RdOverflow, Goto
<1>3. CASE StartRead(t)
  BY <1>3, <1>0, Zenon DEF Types, Fits, PhasePlaces, fixed, lockVars, localVars, StartRead, Goto
<1>4. CASE SetRead(t)
  BY <1>4, <1>0 DEF Types, Fits, PhasePlaces, fixed, lockVars, localVars, Finish, SetRead, Goto
<1>5. CASE Tryrdlock(t)
  BY <1>5, <1>0, Zenon DEF Types, Fits, PhasePlaces, fixed, lockVars, localVars, Tryrdlock, Goto
<1>6. CASE RdUnregister(t)
  BY <1>6, <1>0
     DEF Types, Fits, PhasePlaces, fixed, lockVars, localVars, Finish, RdUnregister, Goto
<1>7. CASE PhaseLoad(t) \/ PhaseSpin(t)
  BY <1>7, <1>0
     DEF Types, Fits, PhasePlaces, fixed, lockVars, localVars, Finish, PhaseValue, PhaseLoad,
         PhaseSpin, Goto
<1>8. CASE PhaseConfirm(t)
  BY <1>8, <1>0, Zenon
     DEF Types, Fits, PhasePlaces, fixed, lockVars, localVars, InPhase, PhaseConfirm, Goto
<1>9. CASE PhaseWait(t)
  BY <1>9, <1>0, Zenon
     DEF Types, Fits, PhasePlaces, fixed, lockVars, localVars, PhaseValue, PhaseWait, Goto
<1>10. CASE PhaseTimeout(t)
  BY <1>10, <1>0, Zenon DEF Types, Fits, PhasePlaces, fixed, lockVars, localVars, PhaseTimeout, Goto
<1>11. CASE Wrlock(t) \/ WrRegister(t) \/ WrTake(t) \/ WrTaken(t)
  BY <1>11, <1>0
     DEF Types, Fits, PhasePlaces, fixed, lockVars, localVars, WriterSees, Wrlock, WrRegister,
         WrTake, WrTaken, Goto
<1>12. CASE WrHandedOver(t) \/ WrReread(t) \/ WrBlock(t) \/ WrWait(t) \/ WrReload(t)
  BY <1>12, <1>0, Zenon
     DEF Types, Fits, PhasePlaces, fixed, lockVars, localVars, WriterSees, WrHandedOver, WrReread,
         WrBlock, WrWait, WrReload, Goto
<1>13. CASE WrTimeout(t) \/ WrDeregister(t)
  BY <1>13, <1>0
     DEF Types, Fits, PhasePlaces, fixed, lockVars, localVars, Finish, WrTimeout, WrDeregister,
         Goto
<1>14. CASE WrEnable(t)
  BY <1>14, <1>0, Zenon DEF Types, Fits, PhasePlaces, fixed, lockVars, localVars, WrEnable, Goto
<1>15. CASE WrStart(t)
  BY <1>15, <1>0, Zenon DEF Types, Fits, PhasePlaces, fixed, lockVars, localVars, WrStart, Goto
<1>16. CASE SetWrite(t)
  BY <1>16, <1>0, Zenon DEF Types, Fits, PhasePlaces, fixed, lockVars, localVars, SetWrite, Goto
<1>17. CASE WrDone(t)
  BY <1>17, <1>0 DEF Types, Fits, PhasePlaces, fixed, lockVars, localVars, Finish, WrDone, Goto
<1>18. CASE Trywrlock(t)
  BY <1>18, <1>0, Zenon DEF Types, Fits, PhasePlaces, fixed, lockVars, localVars, Trywrlock, Goto
<1>19. CASE WrGiveUp(t)
  BY <1>19, <1>0, Zenon DEF Types, Fits, PhasePlaces, fixed, lockVars, localVars, WrGiveUp, Goto
<1>20. CASE WrYield(t)
  BY <1>20, <1>0, Zenon DEF Types, Fits, PhasePlaces, fixed, lockVars, localVars, WrYield, Goto
<1>21. CASE WrClose(t)
  <2>1. /\ pc'[t] = then[t] /\ op'[t] = op[t] /\ held'[t] = held[t] /\ pc[t] = "close"
        /\ t \in ready' <=> t \in ready
    BY <1>21, Zenon DEF Types, WrClose, Goto
  <2>2. pc'[t] \notin {"enable", "taken", "close", "reopen", "wake"}
    BY <2>1, Zenon DEF Fits
  <2> QED
    BY <1>0, <2>1, <2>2, Zenon DEF Fits, PhasePlaces
<1>22. CASE WrReopen(t)
  BY <1>22, <1>0, Zenon DEF Types, Fits, PhasePlaces, fixed, lockVars, localVars, WrReopen, Goto
<1>23. CASE WrPass(t) \/ WrRelease(t)
  BY <1>23, <1>0
     DEF Types, Fits, PhasePlaces, fixed, lockVars, localVars, Finish, WrPass, WrRelease, Goto
<1>24. CASE WrOffer(t) \/ WrLeave(t)
  BY <1>24, <1>0
     DEF Types, Fits, PhasePlaces, fixed, lockVars, localVars, Finish, WrOffer, WrLeave, Goto
<1>25. CASE Unlock(t) \/ Wrunlock(t)
  BY <1>25, <1>0 DEF Types, Fits, PhasePlaces, fixed, lockVars, localVars, Unlock, Wrunlock, Goto
<1>26. CASE Rdunlock(t)
  BY <1>26, <1>0 DEF Types, Fits, PhasePlaces, fixed, lockVars, localVars, Finish, Rdunlock, Goto
<1>27. CASE GiveWritePhase(t)
  BY <1>27, <1>0
     DEF Types, Fits, PhasePlaces, fixed, lockVars, localVars, Finish, GiveWritePhase, Goto
<1>28. CASE GiveReadPhase(t)
  BY <1>28, <1>0
     DEF Types, Fits, PhasePlaces, fixed, lockVars, localVars, Finish, GiveReadPhase, Goto
<1>29. CASE Wake(t)
  BY <1>29, <1>0 DEF Types, Fits, PhasePlaces, fixed, lockVars, localVars, Wake
<1>30. CASE SpuriousWake(t)
  BY <1>30, <1>0 DEF Types, Fits, PhasePlaces, fixed, lockVars, localVars, SpuriousWake, Goto
<1> QED
  BY <1>1, <1>2, <1>3, <1>4, <1>5, <1>6, <1>7, <1>8, <1>9, <1>10, <1>11, <1>12, <1>13, <1>14,
     <1>15, <1>16, <1>17, <1>18, <1>19, <1>20, <1>21, <1>22, <1>23, <1>24, <1>25, <1>26, <1>27,
     <1>28, <1>29, <1>30 DEF Step

LEMMA LocalsFitStep ==
  ASSUME Types, LocalsFit, NEW t \in Threads, Step(t)
  PROVE  LocalsFit'
<1>1. Fits(t)'
  BY FitsStep, Zenon DEF LocalsFit
<1>2. ASSUME NEW u \in Threads, u # t PROVE Fits(u)'
  <2>1. prefer_writer' <=> prefer_writer
    BY FlagsKept, Zenon DEF prefer_writer
  <2> QED
    BY <1>2, <2>1, OthersKept DEF LocalsFit, Fits, PhasePlaces
<1> QED
  BY <1>1, <1>2, Zenon DEF LocalsFit

-------------------------------------------------------------------------------
\* What the actions do to their thread and to the words of the lock, without the
\* futexes and the wake-ups.

SameReady(t) == t \in ready' <=> t \in ready
Stays(t) == op'[t] = op[t] /\ held'[t] = held[t] /\ SameReady(t)

\* The call returns with held[t] = h, at once or after its futex_wake calls.
Returns(t, h) ==
  /\ op'[t] = "rd" /\ t \notin ready'
  /\ \/ pc'[t] = "program" /\ held'[t] = h
     \/ pc'[t] = "wake" /\ then'[t] = h /\ held'[t] = held[t]

SamePhase == readers'.wrphase = readers.wrphase
SameLocked == readers'.wrlocked = readers.wrlocked
SameWaiting == readers'.rwaiting = readers.rwaiting
SameHandOver == writers'.handover = writers.handover
SameLock == UNCHANGED <<readers, writers, cur_writer>>

\* A primary writer decides how to go on.
Sees(t) == IF readers.wrphase THEN then'[t] = "done" ELSE then'[t] \in {"start", "phase"}

RdlockEffect(t) ==
  /\ pc[t] = "program" /\ held[t] = "no" /\ pc'[t] \in {"gate", "add"}
  /\ op'[t] = "rd" /\ held'[t] = "no" /\ SameReady(t) /\ SameLock

RdGateEffect(t) ==
  /\ pc[t] \in {"gate", "gatewait"} /\ Stays(t) /\ UNCHANGED <<writers, cur_writer>>
  /\ \/ pc'[t] \in {"gateasleep", "add"} /\ readers' = readers
     \/ pc'[t] = "gatewait" /\ WriterWaits(readers)
        /\ SamePhase /\ SameLocked /\ readers'.rwaiting /\ readers'.n = readers.n

RdGateTimeoutEffect(t) ==
  pc[t] = "gateasleep" /\ Returns(t, "no") /\ SameLock

RdAddEffect(t) ==
  /\ pc[t] = "add" /\ UNCHANGED <<writers, cur_writer>>
  /\ SamePhase /\ SameLocked /\ SameWaiting /\ readers'.n = readers.n + 1
  /\ \/ pc'[t] = "overflow" /\ Stays(t) /\ readers.n + 1 >= Overflow
     \/ ~readers.wrphase /\ Returns(t, "rd")
     \/ readers.wrphase /\ pc'[t] \in {"phase", "startread"} /\ Stays(t)

RdOverflowEffect(t) ==
  /\ pc[t] = "overflow" /\ UNCHANGED <<writers, cur_writer>>
  /\ \/ /\ readers.n >= Overflow /\ Returns(t, "no")
        /\ SamePhase /\ SameLocked /\ SameWaiting /\ readers'.n = readers.n - 1
     \/ ~readers.wrphase /\ Returns(t, "rd") /\ readers' = readers
     \/ readers.wrphase /\ pc'[t] \in {"phase", "startread"} /\ Stays(t) /\ readers' = readers

StartReadEffect(t) ==
  /\ pc[t] = "startread" /\ Stays(t) /\ UNCHANGED <<writers, cur_writer>>
  /\ \/ /\ pc'[t] = "setread" /\ readers.wrphase /\ ~readers.wrlocked
        /\ ~readers'.wrphase /\ SameLocked /\ SameWaiting /\ readers'.n = readers.n
     \/ pc'[t] = "phase" /\ readers' = readers

SetReadEffect(t) ==
  pc[t] = "setread" /\ Returns(t, "rd") /\ SameLock

TryrdlockEffect(t) ==
  /\ pc[t] = "program" /\ held[t] = "no" /\ UNCHANGED <<writers, cur_writer>>
  /\ SameLocked /\ SameWaiting /\ readers'.n = readers.n + 1 /\ ~readers'.wrphase
  /\ op'[t] = op[t] /\ SameReady(t)
  /\ \/ pc'[t] = "setread" /\ held'[t] = "no" /\ readers.wrphase /\ ~readers.wrlocked
     \/ pc'[t] = "program" /\ held'[t] = "rd" /\ ~readers.wrphase

RdUnregisterEffect(t) ==
  /\ pc[t] = "unregister" /\ UNCHANGED <<writers, cur_writer>>
  /\ \/ /\ readers.wrphase /\ Returns(t, "no")
        /\ SamePhase /\ SameLocked /\ SameWaiting /\ readers'.n = readers.n - 1
     \/ ~readers.wrphase /\ pc'[t] = "spin" /\ Stays(t) /\ readers' = readers

PhaseLoadEffect(t) ==
  /\ pc[t] = "phase" /\ SameLock
  /\ \/ pc'[t] \in {"phasewait", "confirm"} /\ Stays(t)
     \/ op[t] = "rd" /\ t \in ready /\ Returns(t, "rd") /\ wrphase_futex.val = 0
     \/ op[t] = "wr" /\ t \in ready /\ pc'[t] = "done" /\ Stays(t) /\ wrphase_futex.val = 1

PhaseConfirmEffect(t) ==
  /\ pc[t] = "confirm" /\ SameLock /\ pc'[t] = "phase"
  /\ op'[t] = op[t] /\ held'[t] = held[t]
  /\ \/ SameReady(t)
     \/ op[t] = "rd" /\ ~readers.wrphase
     \/ op[t] = "wr" /\ readers.wrphase

PhaseWaitEffect(t) ==
  pc[t] = "phasewait" /\ SameLock /\ Stays(t) /\ pc'[t] \in {"phase", "phaseasleep"}

PhaseTimeoutEffect(t) ==
  /\ pc[t] = "phaseasleep" /\ SameLock /\ Stays(t)
  /\ \/ op[t] = "rd" /\ pc'[t] = "unregister"
     \/ op[t] = "wr" /\ pc'[t] = "giveup"

PhaseSpinEffect(t) ==
  /\ pc[t] = "spin" /\ SameLock
  /\ \/ op[t] = "rd" /\ Returns(t, "rd") /\ wrphase_futex.val = 0
     \/ op[t] = "wr" /\ pc'[t] = "done" /\ Stays(t) /\ wrphase_futex.val = 1

WrlockEffect(t) ==
  /\ pc[t] = "program" /\ held[t] = "no" /\ UNCHANGED <<writers, cur_writer>>
  /\ op'[t] = "wr" /\ held'[t] = "no" /\ SameReady(t)
  /\ readers'.wrlocked /\ SamePhase /\ SameWaiting /\ readers'.n = readers.n
  /\ \/ ~readers.wrlocked /\ pc'[t] = "enable" /\ Sees(t)
     \/ readers.wrlocked /\ prefer_writer /\ pc'[t] = "register"
     \/ readers.wrlocked /\ ~prefer_writer /\ pc'[t] = "locked"

WrRegisterEffect(t) ==
  /\ pc[t] = "register" /\ UNCHANGED <<readers, cur_writer>> /\ Stays(t) /\ pc'[t] = "locked"
  /\ writers'.n = writers.n + 1 /\ SameHandOver

WrTakeEffect(t) ==
  /\ pc[t] = "free" /\ UNCHANGED <<writers, cur_writer>> /\ Stays(t)
  /\ \/ readers.wrlocked /\ pc'[t] = "locked" /\ readers' = readers
     \/ /\ ~readers.wrlocked /\ Sees(t)
        /\ readers'.wrlocked /\ SamePhase /\ SameWaiting /\ readers'.n = readers.n
        /\ \/ prefer_writer /\ pc'[t] = "taken"
           \/ ~prefer_writer /\ pc'[t] = "enable"

WrTakenEffect(t) ==
  /\ pc[t] = "taken" /\ UNCHANGED <<readers, cur_writer>> /\ Stays(t) /\ pc'[t] = "enable"
  /\ then'[t] = then[t] /\ writers'.n = writers.n - 1 /\ SameHandOver

WrHandedOverEffect(t) ==
  /\ pc[t] = "locked" /\ UNCHANGED <<readers, cur_writer>> /\ Stays(t)
  /\ \/ /\ prefer_writer /\ writers.handover /\ pc'[t] = "reread"
        /\ writers'.n = writers.n - 1 /\ ~writers'.handover
     \/ pc'[t] = "block" /\ writers' = writers

WrRereadEffect(t) ==
  pc[t] = "reread" /\ SameLock /\ Stays(t) /\ pc'[t] = "enable" /\ Sees(t)

WrBlockEffect(t) ==
  pc[t] = "block" /\ SameLock /\ Stays(t) /\ pc'[t] \in {"wait", "reload"}

WrWaitEffect(t) ==
  pc[t] = "wait" /\ SameLock /\ Stays(t) /\ pc'[t] \in {"writerasleep", "reload"}

WrReloadEffect(t) ==
  pc[t] = "reload" /\ SameLock /\ Stays(t) /\ pc'[t] \in {"locked", "free"}

WrTimeoutEffect(t) ==
  /\ pc[t] = "writerasleep" /\ SameLock
  /\ \/ prefer_writer /\ pc'[t] = "deregister" /\ Stays(t)
     \/ ~prefer_writer /\ Returns(t, "no")

WrDeregisterEffect(t) ==
  /\ pc[t] = "deregister" /\ UNCHANGED <<readers, cur_writer>> /\ writers'.n = writers.n - 1
  /\ \/ writers.handover /\ ~writers'.handover /\ pc'[t] = "reread" /\ Stays(t)
     \/ (writers.handover => writers.n # 1) /\ SameHandOver /\ Returns(t, "no")

WrEnableEffect(t) ==
  pc[t] = "enable" /\ SameLock /\ Stays(t) /\ pc'[t] = then[t]

WrStartEffect(t) ==
  /\ pc[t] = "start" /\ UNCHANGED <<writers, cur_writer>> /\ Stays(t)
  /\ \/ /\ pc'[t] = "setwrite" /\ ~readers.wrphase /\ readers.n = 0
        /\ readers'.wrphase /\ SameLocked /\ SameWaiting /\ readers'.n = readers.n
     \/ pc'[t] = "phase" /\ readers' = readers

SetWriteEffect(t) ==
  pc[t] = "setwrite" /\ SameLock /\ Stays(t) /\ pc'[t] = "done"

WrDoneEffect(t) ==
  /\ pc[t] = "done" /\ UNCHANGED <<readers, writers>> /\ cur_writer' = t
  /\ pc'[t] = "program" /\ held'[t] = "wr" /\ op'[t] = "rd" /\ t \notin ready'

TrywrlockEffect(t) ==
  /\ pc[t] = "program" /\ held[t] = "no" /\ UNCHANGED <<writers, cur_writer>>
  /\ ~readers.wrlocked /\ (readers.n = 0 \/ readers.wrphase)
  /\ readers'.wrlocked /\ readers'.wrphase /\ SameWaiting /\ readers'.n = readers.n
  /\ pc'[t] = "enable" /\ op'[t] = "wr" /\ held'[t] = "no" /\ SameReady(t)

WrGiveUpEffect(t) ==
  /\ pc[t] = "giveup" /\ SameLock /\ Stays(t)
  /\ \/ pc'[t] = "close" /\ then'[t] = "pass"
     \/ pc'[t] = "yield"

WrYieldEffect(t) ==
  /\ pc[t] = "yield" /\ SameLock /\ Stays(t)
  /\ \/ pc'[t] = "close" /\ then'[t] = "release"
     \/ pc'[t] = "spin" /\ readers.wrphase

WrCloseEffect(t) ==
  pc[t] = "close" /\ SameLock /\ Stays(t) /\ pc'[t] = then[t]

WrPassEffect(t) ==
  /\ pc[t] = "pass" /\ UNCHANGED <<readers, cur_writer>>
  /\ \/ writers.n # 0 /\ writers'.handover /\ writers'.n = writers.n /\ Returns(t, "no")
     \/ writers' = writers /\ pc'[t] = "reopen" /\ then'[t] = "yield" /\ Stays(t)

WrReleaseEffect(t) ==
  /\ pc[t] = "release" /\ UNCHANGED <<writers, cur_writer>>
  /\ \/ /\ ~readers.wrphase /\ Returns(t, "no")
        /\ SamePhase /\ ~readers'.wrlocked /\ ~readers'.rwaiting /\ readers'.n = readers.n
     \/ readers.wrphase /\ readers' = readers /\ pc'[t] = "reopen" /\ then'[t] = "spin" /\ Stays(t)

WrReopenEffect(t) ==
  pc[t] = "reopen" /\ SameLock /\ Stays(t) /\ pc'[t] = then[t]

UnlockEffect(t) ==
  /\ pc[t] = "program" /\ held[t] # "no" /\ SameLock
  /\ held'[t] = "no" /\ op'[t] = op[t] /\ SameReady(t)
  /\ \/ cur_writer = t /\ pc'[t] = "wrunlock"
     \/ cur_writer # t /\ pc'[t] = "rdunlock"

RdunlockEffect(t) ==
  /\ pc[t] = "rdunlock" /\ UNCHANGED <<writers, cur_writer>> /\ SameLocked
  /\ readers'.n = readers.n - 1
  /\ readers'.wrphase <=> (readers.wrphase \/ (readers.n = 1 /\ readers.wrlocked))
  /\ readers'.rwaiting <=> (readers.rwaiting /\ readers.n # 1)
  /\ \/ readers'.wrphase /\ pc'[t] = "giveph" /\ Stays(t)
     \/ ~readers'.wrphase /\ Returns(t, "no")

GiveWritePhaseEffect(t) ==
  pc[t] = "giveph" /\ SameLock /\ Returns(t, "no")

WrunlockEffect(t) ==
  /\ pc[t] = "wrunlock" /\ UNCHANGED <<readers, writers>> /\ cur_writer' = NoThread
  /\ Stays(t) /\ pc'[t] = "close" /\ then'[t] \in {"offer", "leave"}

WrOfferEffect(t) ==
  /\ pc[t] = "offer" /\ UNCHANGED <<readers, cur_writer>>
  /\ \/ writers.n # 0 /\ writers'.handover /\ writers'.n = writers.n /\ Returns(t, "no")
     \/ writers' = writers /\ pc'[t] = "leave" /\ Stays(t)

WrLeaveEffect(t) ==
  /\ pc[t] = "leave" /\ UNCHANGED <<writers, cur_writer>>
  /\ (readers'.wrlocked <=> ~readers.wrlocked) /\ SameWaiting /\ readers'.n = readers.n
  /\ \/ readers.n = 0 /\ SamePhase /\ Returns(t, "no")
     \/ readers.n # 0 /\ (readers'.wrphase <=> ~readers.wrphase) /\ pc'[t] = "giverd" /\ Stays(t)

GiveReadPhaseEffect(t) ==
  pc[t] = "giverd" /\ SameLock /\ Returns(t, "no")

WakeEffect(t) ==
  /\ pc[t] = "wake" /\ SameLock /\ op'[t] = op[t] /\ SameReady(t)
  /\ \/ pc'[t] = "wake" /\ held'[t] = held[t] /\ then'[t] = then[t]
     \/ pc'[t] = "program" /\ held'[t] = then[t]

SpuriousWakeEffect(t) ==
  /\ SameLock /\ Stays(t)
  /\ \/ pc[t] = "phaseasleep" /\ pc'[t] = "phase"
     \/ pc[t] = "writerasleep" /\ pc'[t] = "reload"
     \/ pc[t] = "gateasleep" /\ pc'[t] = "gatewait"

Effect(t) ==
  \/ RdlockEffect(t) \/ RdGateEffect(t) \/ RdGateTimeoutEffect(t) \/ RdAddEffect(t)
  \/ RdOverflowEffect(t) \/ StartReadEffect(t) \/ SetReadEffect(t) \/ TryrdlockEffect(t)
  \/ RdUnregisterEffect(t) \/ PhaseLoadEffect(t) \/ PhaseConfirmEffect(t) \/ PhaseWaitEffect(t)
  \/ PhaseTimeoutEffect(t) \/ PhaseSpinEffect(t) \/ WrlockEffect(t) \/ WrRegisterEffect(t)
  \/ WrTakeEffect(t) \/ WrTakenEffect(t) \/ WrHandedOverEffect(t) \/ WrRereadEffect(t)
  \/ WrBlockEffect(t) \/ WrWaitEffect(t) \/ WrReloadEffect(t) \/ WrTimeoutEffect(t)
  \/ WrDeregisterEffect(t) \/ WrEnableEffect(t) \/ WrStartEffect(t) \/ SetWriteEffect(t)
  \/ WrDoneEffect(t) \/ TrywrlockEffect(t) \/ WrGiveUpEffect(t) \/ WrYieldEffect(t)
  \/ WrCloseEffect(t) \/ WrPassEffect(t) \/ WrReleaseEffect(t) \/ WrReopenEffect(t)
  \/ UnlockEffect(t) \/ RdunlockEffect(t) \/ GiveWritePhaseEffect(t) \/ WrunlockEffect(t)
  \/ WrOfferEffect(t) \/ WrLeaveEffect(t) \/ GiveReadPhaseEffect(t) \/ WakeEffect(t)
  \/ SpuriousWakeEffect(t)

LEMMA EffectOfStep ==
  ASSUME Types, NEW t \in Threads, Step(t)
  PROVE  Effect(t)
<1>1. Rdlock(t) => RdlockEffect(t)
  BY Zenon
     DEF RdlockEffect, Types, TypeOK, SameReady, SameLock, fixed, lockVars, localVars, Rdlock, Goto
<1>2. RdGate(t) => RdGateEffect(t)
  BY DEF RdGateEffect, Types, TypeOK, Stays, SamePhase, SameLocked, SameReady, fixed, lockVars,
         localVars, RdGate, Goto
<1>3. RdGateTimeout(t) => RdGateTimeoutEffect(t)
  BY DEF RdGateTimeoutEffect, Types, TypeOK, SameLock, Returns, fixed, lockVars, localVars,
         Finish, RdGateTimeout, Goto
<1>4. RdAdd(t) => RdAddEffect(t)
  BY DEF RdAddEffect, Types, TypeOK, Stays, SamePhase, SameLocked, SameWaiting, SameReady,
         Returns, fixed, lockVars, localVars, Registered, Finish, RdAdd, Goto
<1>5. RdOverflow(t) => RdOverflowEffect(t)
  BY DEF RdOverflowEffect, Types, TypeOK, Stays, SamePhase, SameLocked, SameWaiting, SameReady,
         Returns, fixed, lockVars, localVars, Registered, Finish, RdOverflow, Goto
<1>6. StartRead(t) => StartReadEffect(t)
  BY DEF StartReadEffect, Types, TypeOK, Stays, SameLocked, SameWaiting, SameReady, fixed,
         lockVars, localVars, StartRead, Goto
<1>7. SetRead(t) => SetReadEffect(t)
  BY DEF SetReadEffect, Types, TypeOK, SameLock, Returns, fixed, lockVars, localVars, Finish,
         SetRead, Goto
<1>8. ASSUME Tryrdlock(t) PROVE TryrdlockEffect(t)
  <2>1. CASE readers.wrphase
    BY <1>8, <2>1, Zenon
       DEF TryrdlockEffect, Types, TypeOK, SameReady, SameLocked, SameWaiting, fixed, Tryrdlock,
           Goto
  <2>2. CASE ~readers.wrphase
    BY <1>8, <2>2 DEF TryrdlockEffect, Types, TypeOK, SameReady, SameLocked, SameWaiting, fixed, Tryrdlock, Goto
  <2> QED
    BY <2>1, <2>2, Zenon
<1>9. RdUnregister(t) => RdUnregisterEffect(t)
  BY DEF RdUnregisterEffect, Types, TypeOK, Stays, SamePhase, SameLocked, SameWaiting, SameReady,
         Returns, fixed, lockVars, localVars, Finish, RdUnregister, Goto
<1>10. PhaseLoad(t) => PhaseLoadEffect(t)
  BY DEF PhaseLoadEffect, Types, TypeOK, Stays, SameLock, SameReady, Returns, fixed, lockVars,
         localVars, Finish, PhaseValue, PhaseLoad, Goto
<1>11. PhaseConfirm(t) => PhaseConfirmEffect(t)
  BY Zenon
     DEF PhaseConfirmEffect, Types, TypeOK, SameReady, SameLock, fixed, lockVars, localVars,
         InPhase, PhaseConfirm, Goto
<1>12. PhaseWait(t) => PhaseWaitEffect(t)
  BY Zenon
     DEF PhaseWaitEffect, Types, TypeOK, Stays, SameLock, SameReady, fixed, lockVars, localVars,
         PhaseValue, PhaseWait, Goto
<1>13. PhaseTimeout(t) => PhaseTimeoutEffect(t)
  BY Zenon
     DEF PhaseTimeoutEffect, Types, TypeOK, Stays, SameLock, SameReady, fixed, lockVars, localVars,
         PhaseTimeout, Goto
<1>14. PhaseSpin(t) => PhaseSpinEffect(t)
  BY DEF PhaseSpinEffect, Types, TypeOK, Stays, SameLock, SameReady, Returns, fixed, lockVars,
         localVars, Finish, PhaseValue, PhaseSpin, Goto
<1>15. Wrlock(t) => WrlockEffect(t)
  BY DEF WrlockEffect, Types, TypeOK, SameReady, SamePhase, SameWaiting, Sees, fixed, lockVars,
         localVars, WriterSees, Wrlock, Goto
<1>16. WrRegister(t) => WrRegisterEffect(t)
  BY Zenon
     DEF WrRegisterEffect, Types, TypeOK, Stays, SameHandOver, SameReady, fixed, lockVars,
         localVars, WrRegister, Goto
<1>17. WrTake(t) => WrTakeEffect(t)
  BY DEF WrTakeEffect, Types, TypeOK, Stays, SamePhase, SameWaiting, SameReady, Sees, fixed,
         lockVars, localVars, WriterSees, WrTake, Goto
<1>18. WrTaken(t) => WrTakenEffect(t)
  BY Zenon
     DEF WrTakenEffect, Types, TypeOK, Stays, SameHandOver, SameReady, fixed, lockVars, localVars,
         WrTaken, Goto
<1>19. WrHandedOver(t) => WrHandedOverEffect(t)
  BY DEF WrHandedOverEffect, Types, TypeOK, Stays, SameReady, fixed, lockVars, localVars,
         WrHandedOver, Goto
<1>20. WrReread(t) => WrRereadEffect(t)
  BY DEF WrRereadEffect, Types, TypeOK, Stays, SameLock, SameReady, Sees, fixed, lockVars,
         localVars, WriterSees, WrReread, Goto
<1>21. WrBlock(t) => WrBlockEffect(t)
  BY Zenon
     DEF WrBlockEffect, Types, TypeOK, Stays, SameLock, SameReady, fixed, lockVars, localVars,
         WrBlock, Goto
<1>22. WrWait(t) => WrWaitEffect(t)
  BY Zenon
     DEF WrWaitEffect, Types, TypeOK, Stays, SameLock, SameReady, fixed, lockVars, localVars,
         WrWait, Goto
<1>23. WrReload(t) => WrReloadEffect(t)
  BY DEF WrReloadEffect, Types, TypeOK, Stays, SameLock, SameReady, fixed, lockVars, localVars,
         WrReload, Goto
<1>24. WrTimeout(t) => WrTimeoutEffect(t)
  BY DEF WrTimeoutEffect, Types, TypeOK, Stays, SameLock, SameReady, Returns, fixed, lockVars,
         localVars, Finish, WrTimeout, Goto
<1>25. WrDeregister(t) => WrDeregisterEffect(t)
  BY DEF WrDeregisterEffect, Types, TypeOK, Stays, SameHandOver, SameReady, Returns, fixed,
         lockVars, localVars, Finish, WrDeregister, Goto
<1>26. WrEnable(t) => WrEnableEffect(t)
  BY Zenon
     DEF WrEnableEffect, Types, TypeOK, Stays, SameLock, SameReady, fixed, lockVars, localVars,
         WrEnable, Goto
<1>27. WrStart(t) => WrStartEffect(t)
  BY DEF WrStartEffect, Types, TypeOK, Stays, SameLocked, SameWaiting, SameReady, fixed,
         lockVars, localVars, WrStart, Goto
<1>28. SetWrite(t) => SetWriteEffect(t)
  BY Zenon
     DEF SetWriteEffect, Types, TypeOK, Stays, SameLock, SameReady, fixed, lockVars, localVars,
         SetWrite, Goto
<1>29. WrDone(t) => WrDoneEffect(t)
  BY DEF WrDoneEffect, Types, TypeOK, fixed, lockVars, localVars, Finish, WrDone, Goto
<1>30. Trywrlock(t) => TrywrlockEffect(t)
  BY DEF TrywrlockEffect, Types, TypeOK, SameReady, SameWaiting, fixed, lockVars, localVars,
         Trywrlock, Goto
<1>31. WrGiveUp(t) => WrGiveUpEffect(t)
  BY Zenon
     DEF WrGiveUpEffect, Types, TypeOK, Stays, SameLock, SameReady, fixed, lockVars, localVars,
         WrGiveUp, Goto
<1>32. WrYield(t) => WrYieldEffect(t)
  BY DEF WrYieldEffect, Types, TypeOK, Stays, SameLock, SameReady, fixed, lockVars, localVars,
         WrYield, Goto
<1>33. WrClose(t) => WrCloseEffect(t)
  BY Zenon
     DEF WrCloseEffect, Types, TypeOK, Stays, SameLock, SameReady, fixed, lockVars, localVars,
         WrClose, Goto
<1>34. WrPass(t) => WrPassEffect(t)
  BY DEF WrPassEffect, Types, TypeOK, Stays, SameReady, Returns, fixed, lockVars, localVars,
         Finish, WrPass, Goto
<1>35. ASSUME WrRelease(t) PROVE WrReleaseEffect(t)
  <2>1. CASE readers.wrphase
    BY <1>35, <2>1 DEF WrReleaseEffect, Types, TypeOK, Stays, SameReady, fixed, WrRelease, Goto
  <2>2. CASE ~readers.wrphase
    <3>1. Returns(t, "no")
      BY <1>35, <2>2 DEF Types, Returns, Finish, WrRelease, Goto
    <3>2. SamePhase /\ ~readers'.wrlocked /\ ~readers'.rwaiting /\ readers'.n = readers.n
      BY <1>35, <2>2, Zenon DEF Types, TypeOK, SamePhase, WrRelease
    <3> QED
      BY <1>35, <2>2, <3>1, <3>2, Zenon DEF WrReleaseEffect, fixed, WrRelease
  <2> QED
    BY <2>1, <2>2, Zenon
<1>36. WrReopen(t) => WrReopenEffect(t)
  BY Zenon
     DEF WrReopenEffect, Types, TypeOK, Stays, SameLock, SameReady, fixed, lockVars, localVars,
         WrReopen, Goto
<1>37. Unlock(t) => UnlockEffect(t)
  BY DEF UnlockEffect, Types, TypeOK, SameReady, SameLock, fixed, lockVars, localVars, Unlock,
         Goto
<1>38. ASSUME Rdunlock(t) PROVE RdunlockEffect(t)
  <2>1. /\ SameLocked /\ readers'.n = readers.n - 1
        /\ readers'.wrphase <=> (readers.wrphase \/ (readers.n = 1 /\ readers.wrlocked))
        /\ readers'.rwaiting <=> (readers.rwaiting /\ readers.n # 1)
    BY <1>38, Zenon DEF Types, TypeOK, SameLocked, Rdunlock
  <2>2. \/ readers'.wrphase /\ pc'[t] = "giveph" /\ Stays(t)
        \/ ~readers'.wrphase /\ Returns(t, "no")
    <3>1. CASE readers'.wrphase
      BY <1>38, <3>1, Zenon DEF Types, Stays, SameReady, Rdunlock, Goto
    <3>2. CASE ~readers'.wrphase
      BY <1>38, <3>2 DEF Types, Returns, Finish, Rdunlock, Goto
    <3> QED
      BY <3>1, <3>2, Zenon
  <2> QED
    BY <1>38, <2>1, <2>2, Zenon DEF RdunlockEffect, fixed, Rdunlock
<1>39. GiveWritePhase(t) => GiveWritePhaseEffect(t)
  BY DEF GiveWritePhaseEffect, Types, TypeOK, SameLock, Returns, fixed, lockVars, localVars,
         Finish, GiveWritePhase, Goto
<1>40. Wrunlock(t) => WrunlockEffect(t)
  BY Zenon
     DEF WrunlockEffect, Types, TypeOK, Stays, SameReady, fixed, lockVars, localVars, Wrunlock, Goto
<1>41. WrOffer(t) => WrOfferEffect(t)
  BY DEF WrOfferEffect, Types, TypeOK, Stays, SameReady, Returns, fixed, lockVars, localVars,
         Finish, WrOffer, Goto
<1>42. ASSUME WrLeave(t) PROVE WrLeaveEffect(t)
  <2>1. /\ (readers'.wrlocked <=> ~readers.wrlocked) /\ SameWaiting /\ readers'.n = readers.n
        /\ readers.n = 0 => SamePhase
        /\ readers.n # 0 => (readers'.wrphase <=> ~readers.wrphase)
    BY <1>42, Zenon DEF Types, TypeOK, SamePhase, SameWaiting, WrLeave
  <2>2. \/ readers.n = 0 /\ Returns(t, "no")
        \/ readers.n # 0 /\ pc'[t] = "giverd" /\ Stays(t)
    BY <1>42 DEF Types, Stays, SameReady, Returns, localVars, Finish, WrLeave, Goto
  <2> QED
    BY <1>42, <2>1, <2>2, Zenon DEF WrLeaveEffect, fixed, WrLeave
<1>43. GiveReadPhase(t) => GiveReadPhaseEffect(t)
  BY DEF GiveReadPhaseEffect, Types, TypeOK, SameLock, Returns, fixed, lockVars, localVars,
         Finish, GiveReadPhase, Goto
<1>44. Wake(t) => WakeEffect(t)
  BY DEF WakeEffect, Types, TypeOK, SameReady, SameLock, fixed, lockVars, localVars, Wake
<1>45. SpuriousWake(t) => SpuriousWakeEffect(t)
  BY Zenon
     DEF SpuriousWakeEffect, Types, TypeOK, Stays, SameLock, SameReady, fixed, lockVars, localVars,
         SpuriousWake, Goto
<1> QED
  BY <1>1, <1>2, <1>3, <1>4, <1>5, <1>6, <1>7, <1>8, <1>9, <1>10, <1>11, <1>12, <1>13, <1>14,
     <1>15, <1>16, <1>17, <1>18, <1>19, <1>20, <1>21, <1>22, <1>23, <1>24, <1>25, <1>26, <1>27,
     <1>28, <1>29, <1>30, <1>31, <1>32, <1>33, <1>34, <1>35, <1>36, <1>37, <1>38, <1>39, <1>40,
     <1>41, <1>42, <1>43, <1>44, <1>45, Zenon DEF Step, Effect

\* The number of readers changes when a thread starts or stops being one.
CountsReader(t) ==
  \/ (IsReader(t)' <=> IsReader(t)) /\ readers'.n = readers.n
  \/ IsReader(t)' /\ ~IsReader(t) /\ readers'.n = readers.n + 1
  \/ ~IsReader(t)' /\ IsReader(t) /\ readers'.n = readers.n - 1

LEMMA ReaderStep ==
  ASSUME Types, NEW t \in Threads, Fits(t), CurWriterExact, Step(t)
  PROVE  CountsReader(t)
<1>0. held[t] \in {"no", "rd", "wr"} /\ (cur_writer = t <=> (held[t] = "wr" \/ pc[t] = "wrunlock"))
  BY Zenon DEF Types, CurWriterExact
<1>1. CASE \/ RdlockEffect(t) \/ RdGateEffect(t) \/ RdGateTimeoutEffect(t) \/ RdAddEffect(t)
           \/ RdOverflowEffect(t)
  BY <1>1, <1>0
     DEF RdlockEffect, RdGateEffect, RdGateTimeoutEffect, RdAddEffect, RdOverflowEffect, Fits,
         CountsReader, IsReader, ReaderPlaces, PhasePlaces, Stays, Returns, SameLock
<1>2. CASE StartReadEffect(t) \/ SetReadEffect(t) \/ TryrdlockEffect(t) \/ RdUnregisterEffect(t)
  BY <1>2, <1>0, Zenon
     DEF StartReadEffect, SetReadEffect, TryrdlockEffect, RdUnregisterEffect, Fits, CountsReader,
         IsReader, ReaderPlaces, PhasePlaces, Stays, Returns, SameLock
<1>3. CASE \/ PhaseLoadEffect(t) \/ PhaseConfirmEffect(t) \/ PhaseWaitEffect(t)
           \/ PhaseTimeoutEffect(t) \/ PhaseSpinEffect(t)
  BY <1>3, <1>0, Zenon
     DEF PhaseLoadEffect, PhaseConfirmEffect, PhaseWaitEffect, PhaseTimeoutEffect, PhaseSpinEffect,
         Fits, CountsReader, IsReader, ReaderPlaces, PhasePlaces, Stays, Returns, SameLock
<1>4. CASE \/ WrlockEffect(t) \/ WrRegisterEffect(t) \/ WrTakeEffect(t) \/ WrTakenEffect(t)
           \/ WrHandedOverEffect(t)
  BY <1>4, <1>0, Zenon
     DEF WrlockEffect, WrRegisterEffect, WrTakeEffect, WrTakenEffect, WrHandedOverEffect, Fits,
         CountsReader, IsReader, ReaderPlaces, PhasePlaces, Stays
<1>5. CASE \/ WrRereadEffect(t) \/ WrBlockEffect(t) \/ WrWaitEffect(t) \/ WrReloadEffect(t)
           \/ WrTimeoutEffect(t) \/ WrDeregisterEffect(t)
  BY <1>5, <1>0, Zenon
     DEF WrRereadEffect, WrBlockEffect, WrWaitEffect, WrReloadEffect, WrTimeoutEffect,
         WrDeregisterEffect, Fits, CountsReader, IsReader, ReaderPlaces, PhasePlaces, Stays,
         Returns, SameLock
<1>6. CASE \/ WrEnableEffect(t) \/ WrStartEffect(t) \/ SetWriteEffect(t) \/ WrDoneEffect(t)
           \/ TrywrlockEffect(t)
  BY <1>6, <1>0, Zenon
     DEF WrEnableEffect, WrStartEffect, SetWriteEffect, WrDoneEffect, TrywrlockEffect, Fits,
         CountsReader, IsReader, ReaderPlaces, PhasePlaces, Stays, SameLock
<1>7. CASE \/ WrGiveUpEffect(t) \/ WrYieldEffect(t) \/ WrCloseEffect(t) \/ WrPassEffect(t)
           \/ WrReleaseEffect(t) \/ WrReopenEffect(t)
  BY <1>7, <1>0, Zenon
     DEF WrGiveUpEffect, WrYieldEffect, WrCloseEffect, WrPassEffect, WrReleaseEffect,
         WrReopenEffect, Fits, CountsReader, IsReader, ReaderPlaces, PhasePlaces, Stays, Returns,
         SameLock
<1>8. CASE UnlockEffect(t) \/ RdunlockEffect(t) \/ GiveWritePhaseEffect(t) \/ WrunlockEffect(t)
  BY <1>8, <1>0, Zenon
     DEF UnlockEffect, RdunlockEffect, GiveWritePhaseEffect, WrunlockEffect, Fits, CountsReader,
         IsReader, ReaderPlaces, PhasePlaces, Stays, Returns, SameLock
<1>9. CASE \/ WrOfferEffect(t) \/ WrLeaveEffect(t) \/ GiveReadPhaseEffect(t) \/ WakeEffect(t)
           \/ SpuriousWakeEffect(t)
  BY <1>9, <1>0, Zenon
     DEF WrOfferEffect, WrLeaveEffect, GiveReadPhaseEffect, WakeEffect, SpuriousWakeEffect, Fits,
         CountsReader, IsReader, ReaderPlaces, PhasePlaces, Stays, Returns, SameLock
<1> QED
  BY <1>1, <1>2, <1>3, <1>4, <1>5, <1>6, <1>7, <1>8, <1>9, EffectOfStep, Zenon DEF Effect

\* So does the number of registered writers.
CountsWriter(t) ==
  \/ (IsRegistered(t)' <=> IsRegistered(t)) /\ writers'.n = writers.n
  \/ IsRegistered(t)' /\ ~IsRegistered(t) /\ writers'.n = writers.n + 1
  \/ ~IsRegistered(t)' /\ IsRegistered(t) /\ writers'.n = writers.n - 1

LEMMA WriterStep ==
  ASSUME Types, NEW t \in Threads, Fits(t), Step(t)
  PROVE  CountsWriter(t)
<1>0. prefer_writer' <=> prefer_writer
  BY FlagsKept, Zenon DEF prefer_writer
<1>1. CASE \/ RdlockEffect(t) \/ RdGateEffect(t) \/ RdGateTimeoutEffect(t) \/ RdAddEffect(t)
           \/ RdOverflowEffect(t)
  BY <1>1, <1>0, Zenon
     DEF RdlockEffect, RdGateEffect, RdGateTimeoutEffect, RdAddEffect, RdOverflowEffect, Fits,
         CountsWriter, IsRegistered, Stays, Returns, SameLock
<1>2. CASE StartReadEffect(t) \/ SetReadEffect(t) \/ TryrdlockEffect(t) \/ RdUnregisterEffect(t)
  BY <1>2, <1>0, Zenon
     DEF StartReadEffect, SetReadEffect, TryrdlockEffect, RdUnregisterEffect, Fits, CountsWriter,
         IsRegistered, Stays, Returns, SameLock
<1>3. CASE \/ PhaseLoadEffect(t) \/ PhaseConfirmEffect(t) \/ PhaseWaitEffect(t)
           \/ PhaseTimeoutEffect(t) \/ PhaseSpinEffect(t)
  BY <1>3, <1>0, Zenon
     DEF PhaseLoadEffect, PhaseConfirmEffect, PhaseWaitEffect, PhaseTimeoutEffect, PhaseSpinEffect,
         Fits, CountsWriter, IsRegistered, Stays, Returns, SameLock
<1>4. CASE \/ WrlockEffect(t) \/ WrRegisterEffect(t) \/ WrTakeEffect(t) \/ WrTakenEffect(t)
           \/ WrHandedOverEffect(t)
  BY <1>4, <1>0, Zenon
     DEF WrlockEffect, WrRegisterEffect, WrTakeEffect, WrTakenEffect, WrHandedOverEffect, Fits,
         CountsWriter, IsRegistered, Stays, SameHandOver
<1>5. CASE \/ WrRereadEffect(t) \/ WrBlockEffect(t) \/ WrWaitEffect(t) \/ WrReloadEffect(t)
           \/ WrTimeoutEffect(t) \/ WrDeregisterEffect(t)
  BY <1>5, <1>0, Zenon
     DEF WrRereadEffect, WrBlockEffect, WrWaitEffect, WrReloadEffect, WrTimeoutEffect,
         WrDeregisterEffect, Fits, CountsWriter, IsRegistered, Stays, Returns, SameHandOver,
         SameLock
<1>6. CASE \/ WrEnableEffect(t) \/ WrStartEffect(t) \/ SetWriteEffect(t) \/ WrDoneEffect(t)
           \/ TrywrlockEffect(t)
  BY <1>6, <1>0, Zenon
     DEF WrEnableEffect, WrStartEffect, SetWriteEffect, WrDoneEffect, TrywrlockEffect, Fits,
         CountsWriter, IsRegistered, Stays, SameLock
<1>7. CASE \/ WrGiveUpEffect(t) \/ WrYieldEffect(t) \/ WrCloseEffect(t) \/ WrPassEffect(t)
           \/ WrReleaseEffect(t) \/ WrReopenEffect(t)
  BY <1>7, <1>0, Zenon
     DEF WrGiveUpEffect, WrYieldEffect, WrCloseEffect, WrPassEffect, WrReleaseEffect,
         WrReopenEffect, Fits, CountsWriter, IsRegistered, Stays, Returns, SameLock
<1>8. CASE UnlockEffect(t) \/ RdunlockEffect(t) \/ GiveWritePhaseEffect(t) \/ WrunlockEffect(t)
  BY <1>8, <1>0, Zenon
     DEF UnlockEffect, RdunlockEffect, GiveWritePhaseEffect, WrunlockEffect, Fits, CountsWriter,
         IsRegistered, Stays, Returns, SameLock
<1>9. CASE \/ WrOfferEffect(t) \/ WrLeaveEffect(t) \/ GiveReadPhaseEffect(t) \/ WakeEffect(t)
           \/ SpuriousWakeEffect(t)
  BY <1>9, <1>0, Zenon
     DEF WrOfferEffect, WrLeaveEffect, GiveReadPhaseEffect, WakeEffect, SpuriousWakeEffect, Fits,
         CountsWriter, IsRegistered, Stays, Returns, SameLock
<1> QED
  BY <1>1, <1>2, <1>3, <1>4, <1>5, <1>6, <1>7, <1>8, <1>9, EffectOfStep, Zenon DEF Effect

\* The roles of the other threads do not change.
LEMMA RolesKept ==
  ASSUME Types, NEW t \in Threads, Step(t), NEW u \in Threads, u # t
  PROVE  /\ IsReader(u)' <=> IsReader(u)
         /\ IsRegistered(u)' <=> IsRegistered(u)
         /\ IsPrimary(u)' <=> IsPrimary(u)
<1>1. prefer_writer' <=> prefer_writer
  BY FlagsKept, Zenon DEF prefer_writer
<1>2. IsReader(u)' <=> IsReader(u)
  BY OthersKept, Zenon DEF IsReader, ReaderPlaces, PhasePlaces
<1>3. IsRegistered(u)' <=> IsRegistered(u)
  BY <1>1, OthersKept, Zenon DEF IsRegistered
<1>4. IsPrimary(u)' <=> IsPrimary(u)
  BY OthersKept, Zenon DEF IsPrimary, PhasePlaces
<1> QED
  BY <1>2, <1>3, <1>4, Zenon

-------------------------------------------------------------------------------
\* A thread that takes WRLOCKED, from nobody or from who offers it, is the
\* primary writer until it offers or resets it.
Owned == readers.wrlocked /\ ~writers.handover

ChangesPrimary(t) ==
  \/ (IsPrimary(t)' <=> IsPrimary(t)) /\ (Owned' <=> Owned)
  \/ IsPrimary(t)' /\ ~IsPrimary(t) /\ Owned' /\ ~Owned
  \/ ~IsPrimary(t)' /\ IsPrimary(t) /\ ~Owned'

LEMMA PrimaryStep ==
  ASSUME Types, NEW t \in Threads, Fits(t), CurWriterExact, OnePrimary, Step(t)
  PROVE  ChangesPrimary(t)
<1>0. /\ held[t] \in {"no", "rd", "wr"}
      /\ cur_writer = t <=> (held[t] = "wr" \/ pc[t] = "wrunlock")
      /\ IsPrimary(t) => readers.wrlocked /\ ~writers.handover
      /\ writers.handover => readers.wrlocked
  BY Zenon DEF Types, CurWriterExact, OnePrimary
<1>1. CASE \/ RdlockEffect(t) \/ RdGateEffect(t) \/ RdGateTimeoutEffect(t) \/ RdAddEffect(t)
           \/ RdOverflowEffect(t)
  BY <1>1, <1>0, Zenon
     DEF RdlockEffect, RdGateEffect, RdGateTimeoutEffect, RdAddEffect, RdOverflowEffect, Fits,
         Owned, ChangesPrimary, IsPrimary, PhasePlaces, Stays, Returns, SameLocked, SameLock
<1>2. CASE StartReadEffect(t) \/ SetReadEffect(t) \/ TryrdlockEffect(t) \/ RdUnregisterEffect(t)
  BY <1>2, <1>0, Zenon
     DEF StartReadEffect, SetReadEffect, TryrdlockEffect, RdUnregisterEffect, Fits, Owned,
         ChangesPrimary, IsPrimary, PhasePlaces, Stays, Returns, SameLocked, SameLock
<1>3. CASE \/ PhaseLoadEffect(t) \/ PhaseConfirmEffect(t) \/ PhaseWaitEffect(t)
           \/ PhaseTimeoutEffect(t) \/ PhaseSpinEffect(t)
  BY <1>3, <1>0, Zenon
     DEF PhaseLoadEffect, PhaseConfirmEffect, PhaseWaitEffect, PhaseTimeoutEffect,
         PhaseSpinEffect, Fits, Owned, ChangesPrimary, IsPrimary, PhasePlaces, Stays, Returns,
         SameLock
<1>4. CASE \/ WrlockEffect(t) \/ WrRegisterEffect(t) \/ WrTakeEffect(t) \/ WrTakenEffect(t)
           \/ WrHandedOverEffect(t)
  BY <1>4, <1>0, Zenon
     DEF WrlockEffect, WrRegisterEffect, WrTakeEffect, WrTakenEffect, WrHandedOverEffect, Fits,
         Owned, ChangesPrimary, IsPrimary, PhasePlaces, Stays, SameHandOver
<1>5. CASE \/ WrRereadEffect(t) \/ WrBlockEffect(t) \/ WrWaitEffect(t) \/ WrReloadEffect(t)
           \/ WrTimeoutEffect(t) \/ WrDeregisterEffect(t)
  BY <1>5, <1>0, Zenon
     DEF WrRereadEffect, WrBlockEffect, WrWaitEffect, WrReloadEffect, WrTimeoutEffect,
         WrDeregisterEffect, Fits, Owned, ChangesPrimary, IsPrimary, PhasePlaces, Stays, Returns,
         SameHandOver, SameLock
<1>6. CASE \/ WrEnableEffect(t) \/ WrStartEffect(t) \/ SetWriteEffect(t) \/ WrDoneEffect(t)
           \/ TrywrlockEffect(t)
  BY <1>6, <1>0, Zenon
     DEF WrEnableEffect, WrStartEffect, SetWriteEffect, WrDoneEffect, TrywrlockEffect, Fits,
         Owned, ChangesPrimary, IsPrimary, PhasePlaces, Stays, SameLocked, SameLock
<1>7. CASE \/ WrGiveUpEffect(t) \/ WrYieldEffect(t) \/ WrCloseEffect(t) \/ WrPassEffect(t)
           \/ WrReleaseEffect(t) \/ WrReopenEffect(t)
  BY <1>7, <1>0, Zenon
     DEF WrGiveUpEffect, WrYieldEffect, WrCloseEffect, WrPassEffect, WrReleaseEffect,
         WrReopenEffect, Fits, Owned, ChangesPrimary, IsPrimary, PhasePlaces, Stays, Returns,
         SameLock
<1>8. CASE UnlockEffect(t) \/ RdunlockEffect(t) \/ GiveWritePhaseEffect(t) \/ WrunlockEffect(t)
  BY <1>8, <1>0, Zenon
     DEF UnlockEffect, RdunlockEffect, GiveWritePhaseEffect, WrunlockEffect, Fits, Owned,
         ChangesPrimary, IsPrimary, PhasePlaces, Stays, Returns, SameLocked, SameLock
<1>9. CASE \/ WrOfferEffect(t) \/ WrLeaveEffect(t) \/ GiveReadPhaseEffect(t) \/ WakeEffect(t)
           \/ SpuriousWakeEffect(t)
  BY <1>9, <1>0
     DEF WrOfferEffect, WrLeaveEffect, GiveReadPhaseEffect, WakeEffect, SpuriousWakeEffect, Fits,
         Owned, ChangesPrimary, IsPrimary, PhasePlaces, Stays, Returns, SameLock
<1> QED
  BY <1>1, <1>2, <1>3, <1>4, <1>5, <1>6, <1>7, <1>8, <1>9, EffectOfStep, Zenon DEF Effect

-------------------------------------------------------------------------------
\* Who may change the phase: a write phase begins when there are no readers, or
\* with the last one, and ends when there is no primary writer, or with it.
LEMMA PhaseChange ==
  ASSUME Types, PhaseIsKept, NEW t \in Threads, Step(t)
  PROVE  /\ readers'.wrphase /\ ~readers.wrphase
              => readers.n = 0 \/ (readers.n = 1 /\ pc[t] = "rdunlock")
         /\ ~readers'.wrphase /\ readers.wrphase => ~readers.wrlocked \/ pc[t] = "leave"
<1>0. pc[t] = "leave" => readers.wrphase
  BY Zenon DEF PhaseIsKept, WritesNow
<1>1. CASE \/ RdlockEffect(t) \/ RdGateEffect(t) \/ RdGateTimeoutEffect(t) \/ RdAddEffect(t)
           \/ RdOverflowEffect(t)
  BY <1>1, <1>0, Zenon
     DEF RdlockEffect, RdGateEffect, RdGateTimeoutEffect, RdAddEffect, RdOverflowEffect, SamePhase,
         SameLocked, SameLock
<1>2. CASE StartReadEffect(t) \/ SetReadEffect(t) \/ TryrdlockEffect(t) \/ RdUnregisterEffect(t)
  BY <1>2, <1>0, Zenon
     DEF StartReadEffect, SetReadEffect, TryrdlockEffect, RdUnregisterEffect, SamePhase,
         SameLocked, SameLock
<1>3. CASE \/ PhaseLoadEffect(t) \/ PhaseConfirmEffect(t) \/ PhaseWaitEffect(t)
           \/ PhaseTimeoutEffect(t) \/ PhaseSpinEffect(t)
  BY <1>3, <1>0, Zenon
     DEF PhaseLoadEffect, PhaseConfirmEffect, PhaseWaitEffect, PhaseTimeoutEffect, PhaseSpinEffect,
         SameLock
<1>4. CASE \/ WrlockEffect(t) \/ WrRegisterEffect(t) \/ WrTakeEffect(t) \/ WrTakenEffect(t)
           \/ WrHandedOverEffect(t)
  BY <1>4, <1>0, Zenon
     DEF WrlockEffect, WrRegisterEffect, WrTakeEffect, WrTakenEffect, WrHandedOverEffect, SamePhase
<1>5. CASE \/ WrRereadEffect(t) \/ WrBlockEffect(t) \/ WrWaitEffect(t) \/ WrReloadEffect(t)
           \/ WrTimeoutEffect(t) \/ WrDeregisterEffect(t)
  BY <1>5, <1>0, Zenon
     DEF WrRereadEffect, WrBlockEffect, WrWaitEffect, WrReloadEffect, WrTimeoutEffect,
         WrDeregisterEffect, SameLock
<1>6. CASE \/ WrEnableEffect(t) \/ WrStartEffect(t) \/ SetWriteEffect(t) \/ WrDoneEffect(t)
           \/ TrywrlockEffect(t)
  BY <1>6, <1>0, Zenon
     DEF WrEnableEffect, WrStartEffect, SetWriteEffect, WrDoneEffect, TrywrlockEffect, SameLocked,
         SameLock
<1>7. CASE \/ WrGiveUpEffect(t) \/ WrYieldEffect(t) \/ WrCloseEffect(t) \/ WrPassEffect(t)
           \/ WrReleaseEffect(t) \/ WrReopenEffect(t)
  BY <1>7, <1>0, Zenon
     DEF WrGiveUpEffect, WrYieldEffect, WrCloseEffect, WrPassEffect, WrReleaseEffect,
         WrReopenEffect, SamePhase, SameLock
<1>8. CASE UnlockEffect(t) \/ RdunlockEffect(t) \/ GiveWritePhaseEffect(t) \/ WrunlockEffect(t)
  BY <1>8, <1>0, Zenon
     DEF UnlockEffect, RdunlockEffect, GiveWritePhaseEffect, WrunlockEffect, SameLocked, SameLock
<1>9. CASE \/ WrOfferEffect(t) \/ WrLeaveEffect(t) \/ GiveReadPhaseEffect(t) \/ WakeEffect(t)
           \/ SpuriousWakeEffect(t)
  BY <1>9, <1>0, Zenon
     DEF WrOfferEffect, WrLeaveEffect, GiveReadPhaseEffect, WakeEffect, SpuriousWakeEffect,
         SamePhase, SameLock
<1> QED
  BY <1>1, <1>2, <1>3, <1>4, <1>5, <1>6, <1>7, <1>8, <1>9, EffectOfStep, Zenon DEF Effect

LEMMA OwnPhase ==
  ASSUME Types, NEW t \in Threads, Fits(t), CurWriterExact, PhaseIsKept, Step(t)
  PROVE  /\ ReadsNow(t)' => ~readers'.wrphase
         /\ WritesNow(t)' => readers'.wrphase
<1>0. /\ held[t] \in {"no", "rd", "wr"}
      /\ cur_writer = t <=> (held[t] = "wr" \/ pc[t] = "wrunlock")
      /\ ReadsNow(t) => ~readers.wrphase
      /\ WritesNow(t) => readers.wrphase
  BY Zenon DEF Types, CurWriterExact, PhaseIsKept
<1>1. CASE \/ RdlockEffect(t) \/ RdGateEffect(t) \/ RdGateTimeoutEffect(t) \/ RdAddEffect(t)
           \/ RdOverflowEffect(t)
  BY <1>1, <1>0, Zenon
     DEF RdlockEffect, RdGateEffect, RdGateTimeoutEffect, RdAddEffect, RdOverflowEffect, Fits,
         ReadsNow, WritesNow, PhasePlaces, SameReady, Stays, Returns, SamePhase, SameLock
<1>2. CASE StartReadEffect(t) \/ SetReadEffect(t) \/ TryrdlockEffect(t) \/ RdUnregisterEffect(t)
  BY <1>2, <1>0, Zenon
     DEF StartReadEffect, SetReadEffect, TryrdlockEffect, RdUnregisterEffect, Fits, ReadsNow,
         WritesNow, PhasePlaces, SameReady, Stays, Returns, SamePhase, SameLock
<1>3. CASE \/ PhaseLoadEffect(t) \/ PhaseConfirmEffect(t) \/ PhaseWaitEffect(t)
           \/ PhaseTimeoutEffect(t) \/ PhaseSpinEffect(t)
  BY <1>3, <1>0, Zenon
     DEF PhaseLoadEffect, PhaseConfirmEffect, PhaseWaitEffect, PhaseTimeoutEffect,
         PhaseSpinEffect, Fits, ReadsNow, WritesNow, PhasePlaces, SameReady, Stays, Returns,
         SameLock
<1>4. CASE \/ WrlockEffect(t) \/ WrRegisterEffect(t) \/ WrTakeEffect(t) \/ WrTakenEffect(t)
           \/ WrHandedOverEffect(t)
  BY <1>4, <1>0, Zenon
     DEF WrlockEffect, WrRegisterEffect, WrTakeEffect, WrTakenEffect, WrHandedOverEffect, Fits,
         ReadsNow, WritesNow, PhasePlaces, SameReady, Stays, Sees, SamePhase
<1>5. CASE \/ WrRereadEffect(t) \/ WrBlockEffect(t) \/ WrWaitEffect(t) \/ WrReloadEffect(t)
           \/ WrTimeoutEffect(t) \/ WrDeregisterEffect(t)
  BY <1>5, <1>0, Zenon
     DEF WrRereadEffect, WrBlockEffect, WrWaitEffect, WrReloadEffect, WrTimeoutEffect,
         WrDeregisterEffect, Fits, ReadsNow, WritesNow, PhasePlaces, SameReady, Stays, Returns,
         Sees, SameLock
<1>6. CASE \/ WrEnableEffect(t) \/ WrStartEffect(t) \/ SetWriteEffect(t) \/ WrDoneEffect(t)
           \/ TrywrlockEffect(t)
  BY <1>6, <1>0, Zenon
     DEF WrEnableEffect, WrStartEffect, SetWriteEffect, WrDoneEffect, TrywrlockEffect, Fits,
         ReadsNow, WritesNow, PhasePlaces, SameReady, Stays, SameLock
<1>7. CASE \/ WrGiveUpEffect(t) \/ WrYieldEffect(t) \/ WrCloseEffect(t) \/ WrPassEffect(t)
           \/ WrReleaseEffect(t) \/ WrReopenEffect(t)
  BY <1>7, <1>0, Zenon
     DEF WrGiveUpEffect, WrYieldEffect, WrCloseEffect, WrPassEffect, WrReleaseEffect,
         WrReopenEffect, Fits, ReadsNow, WritesNow, PhasePlaces, SameReady, Stays, Returns,
         SamePhase, SameLock
<1>8. CASE UnlockEffect(t) \/ RdunlockEffect(t) \/ GiveWritePhaseEffect(t) \/ WrunlockEffect(t)
  BY <1>8, <1>0, Zenon
     DEF UnlockEffect, RdunlockEffect, GiveWritePhaseEffect, WrunlockEffect, Fits, ReadsNow,
         WritesNow, PhasePlaces, SameReady, Stays, Returns, SameLock
<1>9. CASE \/ WrOfferEffect(t) \/ WrLeaveEffect(t) \/ GiveReadPhaseEffect(t) \/ WakeEffect(t)
           \/ SpuriousWakeEffect(t)
  BY <1>9, <1>0, Zenon
     DEF WrOfferEffect, WrLeaveEffect, GiveReadPhaseEffect, WakeEffect, SpuriousWakeEffect, Fits,
         ReadsNow, WritesNow, PhasePlaces, SameReady, Stays, Returns, SamePhase, SameLock
<1> QED
  BY <1>1, <1>2, <1>3, <1>4, <1>5, <1>6, <1>7, <1>8, <1>9, EffectOfStep, Zenon DEF Effect

-------------------------------------------------------------------------------
\* __cur_writer is set by a writer that has got the lock and reset by it.
LEMMA OwnCurWriter ==
  ASSUME Types, NEW t \in Threads, Fits(t), CurWriterExact, Step(t)
  PROVE  /\ cur_writer' = t <=> (held'[t] = "wr" \/ pc'[t] = "wrunlock")
         /\ \/ cur_writer' = cur_writer
            \/ cur_writer' = t /\ pc[t] = "done"
            \/ cur_writer' = NoThread /\ pc[t] = "wrunlock"
<1>0. /\ held[t] \in {"no", "rd", "wr"} /\ t # NoThread
      /\ cur_writer = t <=> (held[t] = "wr" \/ pc[t] = "wrunlock")
  BY RWLockAssumption, Zenon DEF Types, CurWriterExact
<1>1. CASE \/ RdlockEffect(t) \/ RdGateEffect(t) \/ RdGateTimeoutEffect(t) \/ RdAddEffect(t)
           \/ RdOverflowEffect(t)
  BY <1>1, <1>0, Zenon
     DEF RdlockEffect, RdGateEffect, RdGateTimeoutEffect, RdAddEffect, RdOverflowEffect, Fits,
         Stays, Returns, SameLock
<1>2. CASE StartReadEffect(t) \/ SetReadEffect(t) \/ TryrdlockEffect(t) \/ RdUnregisterEffect(t)
  BY <1>2, <1>0, Zenon
     DEF StartReadEffect, SetReadEffect, TryrdlockEffect, RdUnregisterEffect, Fits, Stays,
         Returns, SameLock
<1>3. CASE \/ PhaseLoadEffect(t) \/ PhaseConfirmEffect(t) \/ PhaseWaitEffect(t)
           \/ PhaseTimeoutEffect(t) \/ PhaseSpinEffect(t)
  BY <1>3, <1>0, Zenon
     DEF PhaseLoadEffect, PhaseConfirmEffect, PhaseWaitEffect, PhaseTimeoutEffect,
         PhaseSpinEffect, Fits, Stays, Returns, SameLock
<1>4. CASE \/ WrlockEffect(t) \/ WrRegisterEffect(t) \/ WrTakeEffect(t) \/ WrTakenEffect(t)
           \/ WrHandedOverEffect(t)
  BY <1>4, <1>0, Zenon
     DEF WrlockEffect, WrRegisterEffect, WrTakeEffect, WrTakenEffect, WrHandedOverEffect, Fits,
         Stays
<1>5. CASE \/ WrRereadEffect(t) \/ WrBlockEffect(t) \/ WrWaitEffect(t) \/ WrReloadEffect(t)
           \/ WrTimeoutEffect(t) \/ WrDeregisterEffect(t)
  BY <1>5, <1>0, Zenon
     DEF WrRereadEffect, WrBlockEffect, WrWaitEffect, WrReloadEffect, WrTimeoutEffect,
         WrDeregisterEffect, Fits, Stays, Returns, SameLock
<1>6. CASE \/ WrEnableEffect(t) \/ WrStartEffect(t) \/ SetWriteEffect(t) \/ WrDoneEffect(t)
           \/ TrywrlockEffect(t)
  BY <1>6, <1>0, Zenon
     DEF WrEnableEffect, WrStartEffect, SetWriteEffect, WrDoneEffect, TrywrlockEffect, Fits,
         Stays, SameLock
<1>7. CASE \/ WrGiveUpEffect(t) \/ WrYieldEffect(t) \/ WrCloseEffect(t) \/ WrPassEffect(t)
           \/ WrReleaseEffect(t) \/ WrReopenEffect(t)
  BY <1>7, <1>0, Zenon
     DEF WrGiveUpEffect, WrYieldEffect, WrCloseEffect, WrPassEffect, WrReleaseEffect,
         WrReopenEffect, Fits, Stays, Returns, SameLock
<1>8. CASE UnlockEffect(t) \/ RdunlockEffect(t) \/ GiveWritePhaseEffect(t) \/ WrunlockEffect(t)
  BY <1>8, <1>0, Zenon
     DEF UnlockEffect, RdunlockEffect, GiveWritePhaseEffect, WrunlockEffect, Fits, Stays, Returns,
         SameLock
<1>9. CASE \/ WrOfferEffect(t) \/ WrLeaveEffect(t) \/ GiveReadPhaseEffect(t) \/ WakeEffect(t)
           \/ SpuriousWakeEffect(t)
  BY <1>9, <1>0, Zenon
     DEF WrOfferEffect, WrLeaveEffect, GiveReadPhaseEffect, WakeEffect, SpuriousWakeEffect, Fits,
         Stays, Returns, SameLock
<1> QED
  BY <1>1, <1>2, <1>3, <1>4, <1>5, <1>6, <1>7, <1>8, <1>9, EffectOfStep, Zenon DEF Effect

LEMMA CurWriterExactStep ==
  ASSUME Types, LocalsFit, CurWriterExact, OnePrimary, NEW t \in Threads, Step(t)
  PROVE  CurWriterExact'
<1>1. /\ cur_writer' = t <=> (held'[t] = "wr" \/ pc'[t] = "wrunlock")
      /\ \/ cur_writer' = cur_writer
         \/ cur_writer' = t /\ pc[t] = "done"
         \/ cur_writer' = NoThread /\ pc[t] = "wrunlock"
  BY OwnCurWriter, Zenon DEF LocalsFit
<1>2. ASSUME NEW u \in Threads, u # t
      PROVE  cur_writer' = u <=> (held'[u] = "wr" \/ pc'[u] = "wrunlock")
  <2>1. held'[u] = held[u] /\ (pc'[u] = "wrunlock" <=> pc[u] = "wrunlock")
    BY <1>2, OthersKept, Zenon
  <2>2. /\ cur_writer = u <=> (held[u] = "wr" \/ pc[u] = "wrunlock")
        /\ pc[t] = "wrunlock" => cur_writer = t
        /\ u # NoThread
    BY RWLockAssumption, Zenon DEF CurWriterExact
  <2>3. pc[t] = "done" => ~(held[u] = "wr" \/ pc[u] = "wrunlock")
    BY <1>2, Zenon DEF OnePrimary, IsPrimary
  <2> QED
    BY <1>1, <1>2, <2>1, <2>2, <2>3, Zenon
<1> QED
  BY <1>1, <1>2, Zenon DEF CurWriterExact

-------------------------------------------------------------------------------
\* Types.
LEMMA LocalTypes ==
  ASSUME Types, NEW t \in Threads, Fits(t), Step(t)
  PROVE  /\ pc' \in [Threads -> Places]
         /\ op' \in [Threads -> {"rd", "wr"}]
         /\ then' \in [Threads -> {"no", "rd", "done", "start", "phase", "setwrite", "pass", "release",
                                   "offer", "leave", "yield", "spin"}]
         /\ held' \in [Threads -> {"no", "rd", "wr"}]
<1>1. CASE Rdlock(t) \/ RdGate(t) \/ RdGateTimeout(t)
  BY <1>1
     DEF Types, Places, Fits, fixed, lockVars, localVars, WriterWaits, Finish, Rdlock, RdGate,
         RdGateTimeout, Goto
<1>2. CASE RdAdd(t) \/ RdOverflow(t)
  BY <1>2
     DEF Types, Places, Fits, fixed, lockVars, localVars, Registered, Finish, RdAdd, RdOverflow,
         Goto
<1>3. CASE StartRead(t)
  BY <1>3 DEF Types, Places, Fits, fixed, lockVars, localVars, StartRead, Goto
<1>4. CASE SetRead(t)
  BY <1>4 DEF Types, Places, Fits, fixed, lockVars, localVars, Finish, SetRead, Goto
<1>5. CASE Tryrdlock(t)
  BY <1>5 DEF Types, Places, Fits, fixed, lockVars, localVars, Tryrdlock, Goto
<1>6. CASE RdUnregister(t)
  BY <1>6 DEF Types, Places, Fits, fixed, lockVars, localVars, Finish, RdUnregister, Goto
<1>7. CASE PhaseLoad(t) \/ PhaseSpin(t)
  BY <1>7
     DEF Types, Places, Fits, fixed, lockVars, localVars, Finish, PhaseValue, PhaseLoad,
         PhaseSpin, Goto
<1>8. CASE PhaseConfirm(t)
  BY <1>8, Zenon DEF Types, Places, Fits, fixed, lockVars, localVars, InPhase, PhaseConfirm, Goto
<1>9. CASE PhaseWait(t)
  BY <1>9, Zenon DEF Types, Places, Fits, fixed, lockVars, localVars, PhaseValue, PhaseWait, Goto
<1>10. CASE PhaseTimeout(t)
  BY <1>10, Zenon DEF Types, Places, Fits, fixed, lockVars, localVars, PhaseTimeout, Goto
<1>11. CASE Wrlock(t) \/ WrRegister(t) \/ WrTake(t) \/ WrTaken(t)
  BY <1>11
     DEF Types, Places, Fits, fixed, lockVars, localVars, WriterSees, Wrlock, WrRegister, WrTake,
         WrTaken, Goto
<1>12. CASE WrHandedOver(t)
  BY <1>12 DEF Types, Places, Fits, fixed, lockVars, localVars, WrHandedOver, Goto
<1>13. CASE WrReread(t)
  BY <1>13, Zenon DEF Types, Places, Fits, fixed, lockVars, localVars, WriterSees, WrReread, Goto
<1>14. CASE WrBlock(t)
  BY <1>14, Zenon DEF Types, Places, Fits, fixed, lockVars, localVars, WrBlock, Goto
<1>15. CASE WrWait(t)
  BY <1>15, Zenon DEF Types, Places, Fits, fixed, lockVars, localVars, WrWait, Goto
<1>16. CASE WrReload(t)
  BY <1>16, Zenon DEF Types, Places, Fits, fixed, lockVars, localVars, WrReload, Goto
<1>17. CASE WrTimeout(t) \/ WrDeregister(t)
  BY <1>17
     DEF Types, Places, Fits, fixed, lockVars, localVars, Finish, WrTimeout, WrDeregister, Goto
<1>18. CASE WrEnable(t)
  BY <1>18, Zenon DEF Types, Places, Fits, fixed, lockVars, localVars, WrEnable, Goto
<1>19. CASE WrStart(t)
  BY <1>19 DEF Types, Places, Fits, fixed, lockVars, localVars, WrStart, Goto
<1>20. CASE SetWrite(t)
  BY <1>20, Zenon DEF Types, Places, Fits, fixed, lockVars, localVars, SetWrite, Goto
<1>21. CASE WrDone(t)
  BY <1>21 DEF Types, Places, Fits, fixed, lockVars, localVars, Finish, WrDone, Goto
<1>22. CASE Trywrlock(t)
  BY <1>22, Zenon DEF Types, Places, Fits, fixed, lockVars, localVars, Trywrlock, Goto
<1>23. CASE WrGiveUp(t)
  BY <1>23 DEF Types, Places, Fits, fixed, lockVars, localVars, WrGiveUp, Goto
<1>24. CASE WrYield(t)
  BY <1>24 DEF Types, Places, Fits, fixed, lockVars, localVars, WrYield, Goto
<1>25. CASE WrClose(t)
  BY <1>25, Zenon DEF Types, Places, Fits, fixed, lockVars, localVars, WrClose, Goto
<1>26. CASE WrReopen(t)
  BY <1>26, Zenon DEF Types, Places, Fits, fixed, lockVars, localVars, WrReopen, Goto
<1>27. CASE WrPass(t) \/ WrRelease(t)
  BY <1>27 DEF Types, Places, Fits, fixed, lockVars, localVars, Finish, WrPass, WrRelease, Goto
<1>28. CASE WrOffer(t) \/ WrLeave(t)
  BY <1>28 DEF Types, Places, Fits, fixed, lockVars, localVars, Finish, WrOffer, WrLeave, Goto
<1>29. CASE Unlock(t) \/ Wrunlock(t)
  BY <1>29 DEF Types, Places, Fits, fixed, lockVars, localVars, Unlock, Wrunlock, Goto
<1>30. CASE Rdunlock(t)
  BY <1>30 DEF Types, Places, Fits, fixed, lockVars, localVars, Finish, Rdunlock, Goto
<1>31. CASE GiveWritePhase(t)
  BY <1>31 DEF Types, Places, Fits, fixed, lockVars, localVars, Finish, GiveWritePhase, Goto
<1>32. CASE GiveReadPhase(t)
  BY <1>32 DEF Types, Places, Fits, fixed, lockVars, localVars, Finish, GiveReadPhase, Goto
<1>33. CASE Wake(t)
  <2>1. then[t] \in {"no", "rd"}
    BY <1>33, Zenon DEF Fits, Wake
  <2>2. pc' \in [Threads -> Places]
    <3> DEFINE All(from, to) == [s \in Threads |-> IF pc[s] = from THEN to ELSE pc[s]]
    <3>1. PICK p \in {pc, All("phaseasleep", "phase"), All("gateasleep", "gatewait")}
                    \cup {[pc EXCEPT ![s] = "reload"] : s \in Threads} :
            pc' = p \/ pc' = [p EXCEPT ![t] = "program"]
      BY <1>33, Zenon DEF Wake
    <3>2. p \in [Threads -> Places]
      BY DEF Types, Places
    <3> QED
      BY <3>1, <3>2, Zenon DEF Places
  <2>3. /\ then' = then \/ then' = [then EXCEPT ![t] = "no"]
        /\ held' = held \/ held' = [held EXCEPT ![t] = then[t]]
        /\ op' = op
    BY <1>33, Zenon DEF Wake
  <2> QED
    BY <2>1, <2>2, <2>3, Zenon DEF Types
<1>34. CASE SpuriousWake(t)
  BY <1>34 DEF Types, Places, Fits, fixed, lockVars, localVars, SpuriousWake, Goto
<1> QED
  BY <1>1, <1>2, <1>3, <1>4, <1>5, <1>6, <1>7, <1>8, <1>9, <1>10, <1>11, <1>12, <1>13, <1>14,
     <1>15, <1>16, <1>17, <1>18, <1>19, <1>20, <1>21, <1>22, <1>23, <1>24, <1>25, <1>26, <1>27,
     <1>28, <1>29, <1>30, <1>31, <1>32, <1>33, <1>34, Zenon DEF Step

LEMMA LockTypes ==
  ASSUME Types, NEW t \in Threads, Step(t)
  PROVE  /\ readers' \in [wrphase : BOOLEAN, wrlocked : BOOLEAN, rwaiting : BOOLEAN, n : Int]
         /\ wrphase_futex' \in [val : {0, 1}, used : BOOLEAN]
         /\ writers_futex' \in [val : {0, 1}, used : BOOLEAN]
         /\ writers' \in [n : Int, handover : BOOLEAN]
         /\ cur_writer' \in Threads \cup {NoThread}
<1>0. /\ readers \in [wrphase : BOOLEAN, wrlocked : BOOLEAN, rwaiting : BOOLEAN, n : Int]
      /\ wrphase_futex \in [val : {0, 1}, used : BOOLEAN]
      /\ writers_futex \in [val : {0, 1}, used : BOOLEAN]
      /\ writers \in [n : Int, handover : BOOLEAN]
      /\ cur_writer \in Threads \cup {NoThread}
  BY DEF Types, TypeOK
<1>1. CASE Rdlock(t) \/ RdGate(t) \/ RdGateTimeout(t)
  BY <1>1, <1>0, Zenon
     DEF Futex, fixed, lockVars, localVars, WriterWaits, Rdlock, RdGate, RdGateTimeout
<1>2. CASE RdAdd(t) \/ RdOverflow(t)
  BY <1>2, <1>0 DEF Futex, fixed, lockVars, localVars, Registered, RdAdd, RdOverflow
<1>3. CASE StartRead(t)
  BY <1>3, <1>0, Zenon DEF Futex, fixed, lockVars, localVars, StartRead
<1>4. CASE SetRead(t)
  BY <1>4, <1>0, Zenon DEF Futex, fixed, lockVars, localVars, SetRead
<1>5. CASE Tryrdlock(t)
  <2>1. CASE readers.wrphase
    <3>1. PICK m \in Int : m = readers.n + 1
      BY <1>0
    <3>2. readers' = [readers EXCEPT !.n = m, !.wrphase = FALSE] /\ UNCHANGED <<wrphase_futex, writers_futex, writers, cur_writer>>
      BY <1>5, <2>1, <3>1, Zenon DEF Futex, Tryrdlock
    <3> QED
      BY <1>0, <3>2, Zenon
  <2>2. CASE ~(readers.wrphase)
    BY <1>5, <1>0, <2>2 DEF Tryrdlock
  <2> QED
    BY <2>1, <2>2, Zenon
<1>6. CASE RdUnregister(t)
  BY <1>6, <1>0 DEF Futex, fixed, lockVars, localVars, RdUnregister
<1>7. CASE PhaseLoad(t) \/ PhaseSpin(t)
  BY <1>7, <1>0, Zenon DEF Futex, fixed, lockVars, localVars, PhaseLoad, PhaseSpin
<1>8. CASE PhaseConfirm(t) \/ PhaseWait(t) \/ PhaseTimeout(t)
  BY <1>8, <1>0, Zenon DEF Futex, fixed, lockVars, localVars, PhaseConfirm, PhaseWait, PhaseTimeout
<1>9. CASE Wrlock(t)
  BY <1>9, <1>0, Zenon DEF Futex, fixed, lockVars, localVars, Wrlock
<1>10. CASE WrRegister(t)
  BY <1>10, <1>0 DEF Futex, fixed, lockVars, localVars, WrRegister
<1>11. CASE WrTake(t)
  BY <1>11, <1>0, Zenon DEF Futex, fixed, lockVars, localVars, WrTake
<1>12. CASE WrTaken(t)
  BY <1>12, <1>0 DEF Futex, fixed, lockVars, localVars, WrTaken
<1>13. CASE WrHandedOver(t)
  <2>1. CASE prefer_writer /\ writers.handover
    <3>1. PICK m \in Int : m = writers.n - 1
      BY <1>0
    <3>2. writers' = [n |-> m, handover |-> FALSE] /\ UNCHANGED <<readers, wrphase_futex, writers_futex, cur_writer>>
      BY <1>13, <2>1, <3>1, Zenon DEF Futex, WrHandedOver
    <3> QED
      BY <1>0, <3>2, Zenon
  <2>2. CASE ~(prefer_writer /\ writers.handover)
    BY <1>13, <1>0, <2>2, Zenon DEF WrHandedOver
  <2> QED
    BY <2>1, <2>2, Zenon
<1>14. CASE WrReread(t)
  BY <1>14, <1>0, Zenon DEF Futex, fixed, lockVars, localVars, WrReread
<1>15. CASE WrBlock(t)
  <2>1. CASE writers_futex.val = 1
    <3>1. writers_futex' = [val |-> 1, used |-> TRUE] /\ UNCHANGED <<readers, wrphase_futex, writers, cur_writer>>
      BY <1>15, <2>1, Zenon DEF Futex, WrBlock
    <3> QED
      BY <1>0, <3>1, Zenon
  <2>2. CASE ~(writers_futex.val = 1)
    BY <1>15, <1>0, <2>2, Zenon DEF WrBlock
  <2> QED
    BY <2>1, <2>2, Zenon
<1>16. CASE WrWait(t)
  BY <1>16, <1>0, Zenon DEF Futex, fixed, lockVars, localVars, WrWait
<1>17. CASE WrReload(t)
  BY <1>17, <1>0, Zenon DEF Futex, fixed, lockVars, localVars, WrReload
<1>18. CASE WrTimeout(t)
  BY <1>18, <1>0, Zenon DEF Futex, fixed, lockVars, localVars, WrTimeout
<1>19. CASE WrDeregister(t)
  <2>1. CASE writers = [n |-> 1, handover |-> TRUE]
    <3>1. writers' = [n |-> 0, handover |-> FALSE] /\ UNCHANGED <<readers, wrphase_futex, writers_futex, cur_writer>>
      BY <1>19, <2>1, Zenon DEF Futex, WrDeregister
    <3> QED
      BY <1>0, <3>1
  <2>2. CASE ~(writers = [n |-> 1, handover |-> TRUE])
    BY <1>19, <1>0, <2>2 DEF WrDeregister
  <2> QED
    BY <2>1, <2>2, Zenon
<1>20. CASE WrEnable(t)
  BY <1>20, <1>0 DEF Futex, fixed, lockVars, localVars, WrEnable
<1>21. CASE WrStart(t)
  BY <1>21, <1>0, Zenon DEF Futex, fixed, lockVars, localVars, WrStart
<1>22. CASE SetWrite(t)
  BY <1>22, <1>0, Zenon DEF Futex, fixed, lockVars, localVars, SetWrite
<1>23. CASE WrDone(t)
  BY <1>23, <1>0, Zenon DEF Futex, fixed, lockVars, localVars, WrDone
<1>24. CASE Trywrlock(t)
  BY <1>24, <1>0, Zenon DEF Futex, fixed, lockVars, localVars, Trywrlock
<1>25. CASE WrGiveUp(t)
  BY <1>25, <1>0, Zenon DEF Futex, fixed, lockVars, localVars, WrGiveUp
<1>26. CASE WrYield(t)
  BY <1>26, <1>0, Zenon DEF Futex, fixed, lockVars, localVars, WrYield
<1>27. CASE WrClose(t)
  BY <1>27, <1>0, Zenon DEF Futex, fixed, lockVars, localVars, WrClose
<1>28. CASE WrReopen(t)
  BY <1>28, <1>0 DEF Futex, fixed, lockVars, localVars, WrReopen
<1>29. CASE WrPass(t) \/ WrRelease(t)
  BY <1>29, <1>0, Zenon DEF Futex, fixed, lockVars, localVars, WrPass, WrRelease
<1>30. CASE WrOffer(t) \/ WrLeave(t)
  BY <1>30, <1>0, Zenon DEF Futex, fixed, lockVars, localVars, WrOffer, WrLeave
<1>31. CASE Unlock(t) \/ Wrunlock(t)
  BY <1>31, <1>0, Zenon DEF Futex, fixed, lockVars, localVars, Unlock, Wrunlock
<1>32. CASE Rdunlock(t)
  <2>1. PICK m \in Int : m = readers.n - 1
    BY <1>0
  <2>2. PICK x \in BOOLEAN : x = (readers.wrphase \/ (readers.n = 1 /\ readers.wrlocked))
    BY Zenon
  <2>3. PICK y \in BOOLEAN : y = (readers.rwaiting /\ ~(readers.n = 1))
    BY Zenon
  <2>4. /\ readers' = [readers EXCEPT !.n = m, !.wrphase = x, !.rwaiting = y]
        /\ UNCHANGED <<wrphase_futex, writers_futex, writers, cur_writer>>
    BY <1>32, <2>1, <2>2, <2>3, Zenon DEF Rdunlock
  <2> QED
    BY <1>0, <2>4, Zenon
<1>33. CASE GiveWritePhase(t)
  BY <1>33, <1>0, Zenon DEF Futex, fixed, lockVars, localVars, GiveWritePhase
<1>34. CASE GiveReadPhase(t)
  BY <1>34, <1>0, Zenon DEF Futex, fixed, lockVars, localVars, GiveReadPhase
<1>35. CASE Wake(t)
  BY <1>35, <1>0, Zenon DEF Futex, fixed, lockVars, localVars, Wake
<1>36. CASE SpuriousWake(t)
  BY <1>36, <1>0, Zenon DEF Futex, fixed, lockVars, localVars, SpuriousWake
<1> QED
  BY <1>1, <1>2, <1>3, <1>4, <1>5, <1>6, <1>7, <1>8, <1>9, <1>10, <1>11, <1>12, <1>13, <1>14,
     <1>15, <1>16, <1>17, <1>18, <1>19, <1>20, <1>21, <1>22, <1>23, <1>24, <1>25, <1>26, <1>27,
     <1>28, <1>29, <1>30, <1>31, <1>32, <1>33, <1>34, <1>35, <1>36, Zenon DEF Step

INSTANCE FiniteSetTheorems

-------------------------------------------------------------------------------
\* A set of threads has a size.
LEMMA CountBound ==
  ASSUME NEW A \in SUBSET Threads
  PROVE  /\ IsFiniteSet(A)
         /\ Cardinality(A) \in Nat
         /\ Cardinality(A) \in 0 .. Cardinality(Threads)
<1>1. IsFiniteSet(Threads) /\ IsFiniteSet(A) /\ Cardinality(A) <= Cardinality(Threads)
  BY RWLockAssumption, FS_Subset, Zenon
<1>2. Cardinality(A) \in Nat /\ Cardinality(Threads) \in Nat
  BY <1>1, FS_CardinalityType, Zenon
<1> QED
  BY <1>1, <1>2

\* The size of a set of threads, with one thread more or less.
LEMMA Counting ==
  ASSUME NEW A \in SUBSET Threads, NEW t \in Threads
  PROVE  /\ t \notin A => Cardinality(A \cup {t}) = Cardinality(A) + 1
         /\ t \in A => Cardinality(A \ {t}) = Cardinality(A) - 1
BY CountBound, FS_AddElement, FS_RemoveElement, Zenon

\* The readers and the registered writers are counted.
LEMMA CountsStep ==
  ASSUME Types, LocalsFit, CurWriterExact, ReadersCounted, WritersCounted, NEW t \in Threads, Step(t)
  PROVE  ReadersCounted' /\ WritersCounted'
<1>0. Fits(t)
  BY Zenon DEF LocalsFit
<1>1. Readers \in SUBSET Threads /\ RegisteredWriters \in SUBSET Threads
  BY Zenon DEF Readers, RegisteredWriters
<1>2. ReadersCounted'
  <2>1. CASE (IsReader(t)' <=> IsReader(t)) /\ readers'.n = readers.n
    <3>1. Readers' = Readers
      BY <2>1, RolesKept, Zenon DEF Readers
    <3> QED
      BY <2>1, <3>1, Zenon DEF ReadersCounted
  <2>2. CASE IsReader(t)' /\ ~IsReader(t) /\ readers'.n = readers.n + 1
    <3>1. Readers' = Readers \cup {t} /\ t \notin Readers
      BY <2>2, RolesKept, Zenon DEF Readers
    <3> QED
      BY <1>1, <2>2, <3>1, Counting, Zenon DEF ReadersCounted
  <2>3. CASE ~IsReader(t)' /\ IsReader(t) /\ readers'.n = readers.n - 1
    <3>1. Readers' = Readers \ {t} /\ t \in Readers
      BY <2>3, RolesKept, Zenon DEF Readers
    <3> QED
      BY <1>1, <2>3, <3>1, Counting, Zenon DEF ReadersCounted
  <2> QED
    BY <1>0, <2>1, <2>2, <2>3, ReaderStep, Zenon DEF CountsReader
<1>3. WritersCounted'
  <2>1. CASE (IsRegistered(t)' <=> IsRegistered(t)) /\ writers'.n = writers.n
    <3>1. RegisteredWriters' = RegisteredWriters
      BY <2>1, RolesKept, Zenon DEF RegisteredWriters
    <3> QED
      BY <2>1, <3>1, Zenon DEF WritersCounted
  <2>2. CASE IsRegistered(t)' /\ ~IsRegistered(t) /\ writers'.n = writers.n + 1
    <3>1. RegisteredWriters' = RegisteredWriters \cup {t} /\ t \notin RegisteredWriters
      BY <2>2, RolesKept, Zenon DEF RegisteredWriters
    <3> QED
      BY <1>1, <2>2, <3>1, Counting, Zenon DEF WritersCounted
  <2>3. CASE ~IsRegistered(t)' /\ IsRegistered(t) /\ writers'.n = writers.n - 1
    <3>1. RegisteredWriters' = RegisteredWriters \ {t} /\ t \in RegisteredWriters
      BY <2>3, RolesKept, Zenon DEF RegisteredWriters
    <3> QED
      BY <1>1, <2>3, <3>1, Counting, Zenon DEF WritersCounted
  <2> QED
    BY <1>0, <2>1, <2>2, <2>3, WriterStep, Zenon DEF CountsWriter
<1> QED
  BY <1>2, <1>3, Zenon

\* A thread that is counted, or two of them.
LEMMA CountedIsPositive ==
  ASSUME NEW t \in Threads
  PROVE  /\ ReadersCounted /\ IsReader(t) => readers.n >= 1
         /\ WritersCounted /\ IsRegistered(t) => writers.n >= 1
         /\ \A u \in Threads : ReadersCounted /\ IsReader(t) /\ IsReader(u) /\ u # t => readers.n >= 2
<1>1. ASSUME NEW A \in SUBSET Threads, t \in A PROVE Cardinality(A) >= 1 /\ Cardinality(A) \in Nat
  <2>1. Cardinality(A \ {t}) = Cardinality(A) - 1 /\ A \ {t} \in SUBSET Threads
    BY <1>1, Counting, Zenon
  <2> QED
    BY <1>1, <2>1, CountBound
<1>2. ASSUME NEW A \in SUBSET Threads, t \in A, NEW u \in A, u # t PROVE Cardinality(A) >= 2
  <2>1. Cardinality(A \ {u}) = Cardinality(A) - 1 /\ A \ {u} \in SUBSET Threads /\ t \in A \ {u}
    BY <1>2, Counting, Zenon
  <2> QED
    BY <1>1, <1>2, <2>1
<1>3. Readers \in SUBSET Threads /\ RegisteredWriters \in SUBSET Threads
  BY Zenon DEF Readers, RegisteredWriters
<1>4. ReadersCounted /\ IsReader(t) => readers.n >= 1
  BY <1>1, <1>3, Zenon DEF ReadersCounted, Readers
<1>5. WritersCounted /\ IsRegistered(t) => writers.n >= 1
  BY <1>1, <1>3, Zenon DEF WritersCounted, RegisteredWriters
<1>6. ASSUME ReadersCounted, IsReader(t), NEW u \in Threads, IsReader(u), u # t PROVE readers.n >= 2
  BY <1>2, <1>3, <1>6, Zenon DEF ReadersCounted, Readers
<1> QED
  BY <1>4, <1>5, <1>6, Zenon

LEMMA HandOverStep ==
  ASSUME Types, NEW t \in Threads, Fits(t), OnePrimary, WritersCounted, Step(t)
  PROVE  writers'.handover => readers'.wrlocked /\ writers'.n > 0
<1>n. writers.n \in Nat
  BY CountBound, Zenon DEF WritersCounted, RegisteredWriters
<1>0. /\ IsPrimary(t) => readers.wrlocked /\ ~writers.handover
      /\ writers.handover => readers.wrlocked /\ writers.n > 0
      /\ IsRegistered(t) => writers.n >= 1
  BY CountedIsPositive, Zenon DEF OnePrimary
<1>1. CASE \/ RdlockEffect(t) \/ RdGateEffect(t) \/ RdGateTimeoutEffect(t) \/ RdAddEffect(t)
           \/ RdOverflowEffect(t)
  BY <1>1, <1>n, <1>0, Zenon
     DEF RdlockEffect, RdGateEffect, RdGateTimeoutEffect, RdAddEffect, RdOverflowEffect, Fits,
         IsRegistered, IsPrimary, SameLocked, SameLock
<1>2. CASE StartReadEffect(t) \/ SetReadEffect(t) \/ TryrdlockEffect(t) \/ RdUnregisterEffect(t)
  BY <1>2, <1>n, <1>0, Zenon
     DEF StartReadEffect, SetReadEffect, TryrdlockEffect, RdUnregisterEffect, Fits, IsRegistered,
         IsPrimary, SameLocked, SameLock
<1>3. CASE \/ PhaseLoadEffect(t) \/ PhaseConfirmEffect(t) \/ PhaseWaitEffect(t)
           \/ PhaseTimeoutEffect(t) \/ PhaseSpinEffect(t)
  BY <1>3, <1>n, <1>0, Zenon
     DEF PhaseLoadEffect, PhaseConfirmEffect, PhaseWaitEffect, PhaseTimeoutEffect, PhaseSpinEffect,
         Fits, IsRegistered, IsPrimary, SameLock
<1>4. CASE WrlockEffect(t) \/ WrTakeEffect(t)
  BY <1>4, <1>n, <1>0, Zenon DEF WrlockEffect, WrTakeEffect, Fits, IsRegistered, IsPrimary
<1>5. CASE WrRegisterEffect(t)
  <2>1. writers'.n = writers.n + 1 /\ SameHandOver /\ UNCHANGED readers
    BY <1>5, Zenon DEF WrRegisterEffect
  <2> QED
    BY <1>n, <1>0, <2>1 DEF SameHandOver
<1>6. CASE WrTakenEffect(t)
  BY <1>6, <1>n, <1>0, Zenon DEF WrTakenEffect, Fits, IsRegistered, IsPrimary, SameHandOver
<1>7. CASE WrHandedOverEffect(t)
  BY <1>7, <1>n, <1>0, Zenon DEF WrHandedOverEffect, Fits, IsRegistered, IsPrimary
<1>8. CASE \/ WrRereadEffect(t) \/ WrBlockEffect(t) \/ WrWaitEffect(t) \/ WrReloadEffect(t)
           \/ WrTimeoutEffect(t)
  BY <1>8, <1>n, <1>0, Zenon
     DEF WrRereadEffect, WrBlockEffect, WrWaitEffect, WrReloadEffect, WrTimeoutEffect, Fits,
         IsRegistered, IsPrimary, SameLock
<1>9. CASE WrDeregisterEffect(t)
  <2>1. /\ writers'.n = writers.n - 1 /\ UNCHANGED readers
        /\ writers'.handover => writers.handover /\ writers.n # 1
    BY <1>9, Zenon DEF WrDeregisterEffect, SameHandOver
  <2>2. writers.n >= 1
    BY <1>9, <1>0, Zenon DEF WrDeregisterEffect, Fits, IsRegistered
  <2> QED
    BY <1>n, <1>0, <2>1, <2>2
<1>10. CASE \/ WrEnableEffect(t) \/ WrStartEffect(t) \/ SetWriteEffect(t) \/ WrDoneEffect(t)
            \/ TrywrlockEffect(t)
  BY <1>10, <1>n, <1>0, Zenon
     DEF WrEnableEffect, WrStartEffect, SetWriteEffect, WrDoneEffect, TrywrlockEffect, Fits,
         IsRegistered, IsPrimary, SameLocked, SameLock
<1>11. CASE \/ WrGiveUpEffect(t) \/ WrYieldEffect(t) \/ WrCloseEffect(t) \/ WrPassEffect(t)
            \/ WrReleaseEffect(t) \/ WrReopenEffect(t)
  BY <1>11, <1>n, <1>0
     DEF WrGiveUpEffect, WrYieldEffect, WrCloseEffect, WrPassEffect, WrReleaseEffect,
         WrReopenEffect, Fits, IsRegistered, IsPrimary, SameLock
<1>12. CASE UnlockEffect(t) \/ RdunlockEffect(t) \/ GiveWritePhaseEffect(t) \/ WrunlockEffect(t)
  BY <1>12, <1>n, <1>0, Zenon
     DEF UnlockEffect, RdunlockEffect, GiveWritePhaseEffect, WrunlockEffect, Fits, IsRegistered,
         IsPrimary, SameLocked, SameLock
<1>13. CASE \/ WrOfferEffect(t) \/ WrLeaveEffect(t) \/ GiveReadPhaseEffect(t) \/ WakeEffect(t)
            \/ SpuriousWakeEffect(t)
  BY <1>13, <1>n, <1>0
     DEF WrOfferEffect, WrLeaveEffect, GiveReadPhaseEffect, WakeEffect, SpuriousWakeEffect, Fits,
         IsRegistered, IsPrimary, SameLock
<1> QED
  BY <1>1, <1>2, <1>3, <1>4, <1>5, <1>6, <1>7, <1>8, <1>9, <1>10, <1>11, <1>12, <1>13,
     EffectOfStep, Zenon DEF Effect

LEMMA OnePrimaryStep ==
  ASSUME Types, LocalsFit, CurWriterExact, OnePrimary, WritersCounted, NEW t \in Threads, Step(t)
  PROVE  OnePrimary'
<1>0. Fits(t)
  BY Zenon DEF LocalsFit
<1>1. ChangesPrimary(t) /\ (writers'.handover => readers'.wrlocked /\ writers'.n > 0)
  BY <1>0, PrimaryStep, HandOverStep, Zenon
<1>2. \A u \in Threads : u # t => (IsPrimary(u)' <=> IsPrimary(u))
  BY RolesKept, Zenon
<1>3. /\ \A v, u \in Threads : IsPrimary(v) /\ IsPrimary(u) => v = u
      /\ (\E u \in Threads : IsPrimary(u)) <=> Owned
  BY Zenon DEF OnePrimary, Owned
<1>4. ASSUME NEW v \in Threads, NEW u \in Threads, IsPrimary(v)', IsPrimary(u)' PROVE v = u
  BY <1>1, <1>2, <1>3, <1>4, Zenon DEF ChangesPrimary
<1>5. (\E u \in Threads : IsPrimary(u)') <=> Owned'
  BY <1>1, <1>2, <1>3, Zenon DEF ChangesPrimary
<1> QED
  BY <1>1, <1>4, <1>5, Zenon DEF OnePrimary, Owned

\* RWAITING is reset with what made it necessary.
LEMMA GateIsNeededStep ==
  ASSUME Types, LocalsFit, OnePrimary, GateIsNeeded, ReadersCounted, PhaseIsKept, NEW t \in Threads, Step(t)
  PROVE  GateIsNeeded'
<1>n. readers.n \in Nat
  BY CountBound, Zenon DEF ReadersCounted, Readers
<1>o. Overflow \in Nat
  BY RWLockAssumption, Zenon
<1>p. Overflow >= 2
  BY RWLockAssumption
<1>0. /\ readers.rwaiting => WriterWaits(readers)
      /\ IsReader(t) => readers.n >= 1
      /\ pc[t] = "leave" => readers.wrphase
  BY CountedIsPositive, Zenon DEF GateIsNeeded, PhaseIsKept, WritesNow
<1>a. Fits(t)
  BY Zenon DEF LocalsFit
<1>b. SUFFICES readers'.rwaiting => ~readers'.wrphase /\ readers'.wrlocked /\ readers'.n > 0
  BY Zenon DEF GateIsNeeded, WriterWaits
<1>1. CASE RdlockEffect(t) \/ RdGateEffect(t) \/ RdGateTimeoutEffect(t)
  BY <1>1, <1>n, <1>0, <1>a, Zenon
     DEF RdlockEffect, RdGateEffect, RdGateTimeoutEffect, Fits, WriterWaits, IsReader, ReaderPlaces,
         SamePhase, SameLocked, SameLock
<1>2. CASE RdAddEffect(t)
  <2>1. SamePhase /\ SameLocked /\ SameWaiting /\ readers'.n = readers.n + 1
    BY <1>2, Zenon DEF RdAddEffect
  <2> QED
    BY <1>n, <1>0, <2>1 DEF SamePhase, SameLocked, SameWaiting, WriterWaits
<1>3. CASE RdOverflowEffect(t)
  <2>1. \/ /\ readers.n >= Overflow /\ readers'.n = readers.n - 1
           /\ SamePhase /\ SameLocked /\ SameWaiting
        \/ UNCHANGED readers
    BY <1>3, Zenon DEF RdOverflowEffect
  <2>2. CASE /\ readers.n >= Overflow /\ readers'.n = readers.n - 1
             /\ SamePhase /\ SameLocked /\ SameWaiting
    <3>1. readers'.n > 0
      BY <1>n, <1>o, <1>p, <2>2
    <3> QED
      BY <1>0, <2>2, <3>1, Zenon DEF SamePhase, SameLocked, SameWaiting, WriterWaits
  <2>3. CASE UNCHANGED readers
    BY <1>0, <2>3, Zenon DEF WriterWaits
  <2> QED
    BY <2>1, <2>2, <2>3, Zenon
<1>4. CASE StartReadEffect(t) \/ SetReadEffect(t)
  BY <1>4, <1>n, <1>0, <1>a, Zenon
     DEF StartReadEffect, SetReadEffect, Fits, WriterWaits, IsReader, ReaderPlaces, SameLocked,
         SameWaiting, SameLock
<1>5. CASE TryrdlockEffect(t)
  <2>1. ~readers'.wrphase /\ SameLocked /\ SameWaiting /\ readers'.n = readers.n + 1
    BY <1>5, Zenon DEF TryrdlockEffect
  <2> QED
    BY <1>n, <1>0, <2>1 DEF SameLocked, SameWaiting, WriterWaits
<1>6. CASE RdUnregisterEffect(t)
  BY <1>6, <1>n, <1>0, <1>a, Zenon
     DEF RdUnregisterEffect, Fits, WriterWaits, IsReader, ReaderPlaces, SamePhase, SameLocked,
         SameWaiting
<1>7. CASE \/ PhaseLoadEffect(t) \/ PhaseConfirmEffect(t) \/ PhaseWaitEffect(t)
           \/ PhaseTimeoutEffect(t) \/ PhaseSpinEffect(t)
  BY <1>7, <1>n, <1>0, <1>a, Zenon
     DEF PhaseLoadEffect, PhaseConfirmEffect, PhaseWaitEffect, PhaseTimeoutEffect,
         PhaseSpinEffect, Fits, WriterWaits, IsReader, ReaderPlaces, SameLock
<1>8. CASE \/ WrlockEffect(t) \/ WrRegisterEffect(t) \/ WrTakeEffect(t) \/ WrTakenEffect(t)
           \/ WrHandedOverEffect(t)
  BY <1>8, <1>n, <1>0, <1>a, Zenon
     DEF WrlockEffect, WrRegisterEffect, WrTakeEffect, WrTakenEffect, WrHandedOverEffect, Fits,
         WriterWaits, IsReader, ReaderPlaces, SamePhase, SameWaiting, SameHandOver
<1>9. CASE \/ WrRereadEffect(t) \/ WrBlockEffect(t) \/ WrWaitEffect(t) \/ WrReloadEffect(t)
           \/ WrTimeoutEffect(t) \/ WrDeregisterEffect(t)
  BY <1>9, <1>n, <1>0, <1>a, Zenon
     DEF WrRereadEffect, WrBlockEffect, WrWaitEffect, WrReloadEffect, WrTimeoutEffect,
         WrDeregisterEffect, Fits, WriterWaits, IsReader, ReaderPlaces, SameHandOver, SameLock
<1>10. CASE WrEnableEffect(t) \/ SetWriteEffect(t) \/ WrDoneEffect(t)
  BY <1>10, <1>n, <1>0, <1>a, Zenon
     DEF WrEnableEffect, SetWriteEffect, WrDoneEffect, Fits, WriterWaits, IsReader, ReaderPlaces,
         SameLock
<1>11. CASE WrStartEffect(t)
  <2>1. \/ readers.n = 0 /\ SameWaiting
        \/ UNCHANGED readers
    BY <1>11, Zenon DEF WrStartEffect
  <2>2. readers.n = 0 => ~readers.rwaiting
    BY <1>0 DEF WriterWaits
  <2> QED
    BY <1>0, <2>1, <2>2, Zenon DEF SameWaiting, WriterWaits
<1>12. CASE TrywrlockEffect(t)
  BY <1>12, <1>n, <1>0, <1>a, Zenon
     DEF TrywrlockEffect, Fits, WriterWaits, IsReader, ReaderPlaces, SameWaiting
<1>13. CASE \/ WrGiveUpEffect(t) \/ WrYieldEffect(t) \/ WrCloseEffect(t) \/ WrPassEffect(t)
            \/ WrReleaseEffect(t) \/ WrReopenEffect(t)
  BY <1>13, <1>n, <1>0, <1>a, Zenon
     DEF WrGiveUpEffect, WrYieldEffect, WrCloseEffect, WrPassEffect, WrReleaseEffect,
         WrReopenEffect, Fits, WriterWaits, IsReader, ReaderPlaces, SamePhase, SameLock
<1>14. CASE UnlockEffect(t) \/ GiveWritePhaseEffect(t) \/ WrunlockEffect(t)
  BY <1>14, <1>0, Zenon
     DEF UnlockEffect, GiveWritePhaseEffect, WrunlockEffect, WriterWaits, SameLock
<1>16. CASE RdunlockEffect(t)
  <2>1. /\ SameLocked /\ readers'.n = readers.n - 1
        /\ readers'.rwaiting => readers.rwaiting /\ readers.n # 1
        /\ readers'.wrphase => readers.wrphase \/ readers.n = 1
    BY <1>16, Zenon DEF RdunlockEffect
  <2>2. readers.n - 1 > 0 \/ readers.n = 1 \/ ~(readers.n > 0)
    BY <1>n
  <2> QED
    BY <1>0, <2>1, <2>2, Zenon DEF SameLocked, WriterWaits
<1>15. CASE \/ WrOfferEffect(t) \/ WrLeaveEffect(t) \/ GiveReadPhaseEffect(t) \/ WakeEffect(t)
            \/ SpuriousWakeEffect(t)
  BY <1>15, <1>n, <1>0, <1>a, Zenon
     DEF WrOfferEffect, WrLeaveEffect, GiveReadPhaseEffect, WakeEffect, SpuriousWakeEffect, Fits,
         WriterWaits, IsReader, ReaderPlaces, SamePhase, SameWaiting, SameLock
<1> QED
  BY <1>1, <1>2, <1>3, <1>4, <1>5, <1>6, <1>7, <1>8, <1>9, <1>10, <1>11, <1>12, <1>13, <1>14,
     <1>15, <1>16, EffectOfStep, Zenon DEF Effect

LEMMA PhaseIsKeptStep ==
  ASSUME Types, LocalsFit, CurWriterExact, ReadersCounted, OnePrimary, PhaseIsKept,
         NEW t \in Threads, Step(t)
  PROVE  PhaseIsKept'
<1>1. Fits(t) /\ (ReadsNow(t)' => ~readers'.wrphase) /\ (WritesNow(t)' => readers'.wrphase)
  BY OwnPhase, Zenon DEF LocalsFit
<1>2. ASSUME NEW u \in Threads, u # t, ReadsNow(u)' PROVE ~readers'.wrphase
  <2>1. ReadsNow(u)
    BY <1>2, OthersKept, Zenon DEF ReadsNow, PhasePlaces
  <2>2. IsReader(u)
    BY <2>1, Zenon DEF ReadsNow, IsReader, ReaderPlaces, PhasePlaces
  <2>3. readers.n >= 1
    BY <2>2, CountedIsPositive, Zenon
  <2>4. pc[t] = "rdunlock" => readers.n >= 2
    BY <1>2, <2>2, CountedIsPositive, Zenon DEF IsReader
  <2>5. ~(readers.n = 0 \/ (readers.n = 1 /\ pc[t] = "rdunlock"))
    BY <2>3, <2>4
  <2> QED
    BY <2>1, <2>5, PhaseChange, Zenon DEF PhaseIsKept
<1>3. ASSUME NEW u \in Threads, u # t, WritesNow(u)' PROVE readers'.wrphase
  <2>1. WritesNow(u)
    BY <1>3, OthersKept, Zenon DEF WritesNow
  <2>2. IsPrimary(u)
    BY <2>1, Zenon DEF WritesNow, IsPrimary, LocalsFit, Fits, PhasePlaces
  <2>3. readers.wrlocked /\ pc[t] # "leave"
    <3>1. pc[t] = "leave" => IsPrimary(t)
      BY Zenon DEF IsPrimary
    <3> QED
      BY <1>3, <2>2, <3>1, Zenon DEF OnePrimary
  <2> QED
    BY <2>1, <2>3, PhaseChange, Zenon DEF PhaseIsKept
<1> QED
  BY <1>1, <1>2, <1>3, Zenon DEF PhaseIsKept

LEMMA TypesStep ==
  ASSUME Types, LocalsFit, ReadersCounted', WritersCounted', NEW t \in Threads, Step(t)
  PROVE  Types'
<1>1. readers'.n \in 0 .. Cardinality(Threads) /\ writers'.n \in 0 .. Cardinality(Threads)
  BY CountBound, Zenon DEF ReadersCounted, WritersCounted, Readers, RegisteredWriters
<1>2. /\ readers' \in [wrphase : BOOLEAN, wrlocked : BOOLEAN, rwaiting : BOOLEAN,
                       n : 0 .. Cardinality(Threads)]
      /\ writers' \in [n : 0 .. Cardinality(Threads), handover : BOOLEAN]
  BY <1>1, LockTypes, Zenon
<1>3. TypeOK'
  BY <1>2, LockTypes, FlagsKept, Zenon DEF Types, TypeOK
<1> QED
  BY <1>3, LocalTypes, Zenon DEF Types, LocalsFit

-------------------------------------------------------------------------------
LEMMA InitIInv ==
  ASSUME Init
  PROVE  IInv
<1>1. Types
  <2>1. 0 \in 0 .. Cardinality(Threads)
    BY CountBound
  <2> QED
    BY <2>1, Zenon DEF Init, Types, TypeOK, Places, Futex
<1>2. \A t \in Threads : ~IsReader(t) /\ ~IsRegistered(t) /\ ~IsPrimary(t)
  BY Zenon DEF Init, IsReader, IsRegistered, IsPrimary, ReaderPlaces, PhasePlaces
<1>3. Readers = {} /\ RegisteredWriters = {}
  BY <1>2, Zenon DEF Readers, RegisteredWriters
<1>4. ReadersCounted /\ WritersCounted
  BY <1>3, FS_EmptySet, Zenon DEF Init, ReadersCounted, WritersCounted
<1>5. LocalsFit
  BY Zenon DEF Init, LocalsFit, Fits, PhasePlaces
<1>6. OnePrimary /\ GateIsNeeded
  BY <1>2, Zenon DEF Init, OnePrimary, GateIsNeeded
<1>7. PhaseIsKept
  BY Zenon DEF Init, PhaseIsKept, ReadsNow, WritesNow
<1>8. CurWriterExact
  BY RWLockAssumption, Zenon DEF Init, CurWriterExact
<1> QED
  BY <1>1, <1>4, <1>5, <1>6, <1>7, <1>8, Zenon DEF IInv

LEMMA NextIInv ==
  ASSUME IInv, [Next]_vars
  PROVE  IInv'
<1>1. CASE Next
  <2>1. PICK t \in Threads : Step(t)
    BY <1>1, Zenon DEF Next, Step
  <2>2. ReadersCounted' /\ WritersCounted'
    BY <2>1, CountsStep, Zenon DEF IInv
  <2>3. Types'
    BY <2>1, <2>2, TypesStep, Zenon DEF IInv
  <2>4. LocalsFit' /\ OnePrimary' /\ CurWriterExact'
    BY <2>1, LocalsFitStep, OnePrimaryStep, CurWriterExactStep, Zenon DEF IInv
  <2>5. GateIsNeeded' /\ PhaseIsKept'
    BY <2>1, GateIsNeededStep, PhaseIsKeptStep, Zenon DEF IInv
  <2> QED
    BY <2>2, <2>3, <2>4, <2>5, Zenon DEF IInv
<1>2. CASE UNCHANGED vars
  <2>1. Types' /\ LocalsFit'
    BY <1>2, Zenon DEF IInv, Types, TypeOK, LocalsFit, Fits, prefer_writer, vars
  <2>2. \A t \in Threads : /\ IsReader(t)' <=> IsReader(t)
                           /\ IsRegistered(t)' <=> IsRegistered(t)
                           /\ IsPrimary(t)' <=> IsPrimary(t)
    BY <1>2, Zenon DEF IsReader, IsRegistered, IsPrimary, prefer_writer, vars
  <2>3. Readers' = Readers /\ RegisteredWriters' = RegisteredWriters
    BY <2>2, Zenon DEF Readers, RegisteredWriters
  <2>4. ReadersCounted' /\ WritersCounted'
    BY <1>2, <2>3, Zenon DEF IInv, ReadersCounted, WritersCounted, vars
  <2>5. OnePrimary' /\ GateIsNeeded'
    BY <1>2, <2>2, Zenon DEF IInv, OnePrimary, GateIsNeeded, WriterWaits, vars
  <2>6. PhaseIsKept' /\ CurWriterExact'
    BY <1>2, Zenon DEF IInv, PhaseIsKept, CurWriterExact, ReadsNow, WritesNow, vars
  <2> QED
    BY <2>1, <2>4, <2>5, <2>6, Zenon DEF IInv
<1> QED
  BY <1>1, <1>2, Zenon

LEMMA IInvHolds == Spec => []IInv
<1>1. Init => IInv
  BY InitIInv, Zenon
<1>2. IInv /\ [Next]_vars => IInv'
  BY NextIInv, Zenon
<1> QED
  BY <1>1, <1>2, PTL DEF Spec

-------------------------------------------------------------------------------
\* __readers and __writers count the readers and the registered writers exactly,
\* WRLOCKED has one owner or is on offer to a registered writer, and RWAITING is
\* set only while a writer waits for readers, whatever timeouts, overflows and
\* hand-overs come in between (the state table of pthread_rwlock_common.c).
THEOREM StateExactHolds == Spec => []StateExact
<1>1. ASSUME IInv PROVE StateExact
  <2> DEFINE P == {t \in Threads : IsPrimary(t)}
  <2>1. CASE readers.wrlocked /\ ~writers.handover
    <3>1. PICK t \in Threads : IsPrimary(t)
      BY <1>1, <2>1, Zenon DEF IInv, OnePrimary
    <3>2. P = {t}
      BY <1>1, <3>1, Zenon DEF IInv, OnePrimary
    <3>3. Cardinality(P) = 1
      BY <3>2, FS_Singleton, Zenon
    <3> QED
      BY <2>1, <3>3, <1>1, Zenon
         DEF IInv, StateExact, Types, ReadersCounted, WritersCounted, OnePrimary, GateIsNeeded,
             Readers, RegisteredWriters
  <2>2. CASE ~(readers.wrlocked /\ ~writers.handover)
    <3>1. P = {}
      BY <1>1, <2>2, Zenon DEF IInv, OnePrimary
    <3>2. Cardinality(P) = 0
      BY <3>1, FS_EmptySet, Zenon
    <3> QED
      BY <2>2, <3>2, <1>1, Zenon
         DEF IInv, StateExact, Types, ReadersCounted, WritersCounted, OnePrimary, GateIsNeeded,
             Readers, RegisteredWriters
  <2> QED
    BY <2>1, <2>2, Zenon
<1> QED
  BY <1>1, IInvHolds, PTL

\* A thread that has the lock for writing has it alone: no reader and no other
\* writer has it (pthread_rwlock_wrlock, pthread_rwlock_trywrlock).
THEOREM WriterAloneHolds == Spec => []WriterAlone
<1>1. ASSUME IInv PROVE WriterAlone
  <2>1. ASSUME NEW t \in Threads, NEW u \in Threads, t # u, held[t] = "wr" PROVE held[u] = "no"
    <3>1. held[u] # "wr"
      BY <1>1, <2>1, Zenon DEF IInv, OnePrimary, IsPrimary
    <3>2. held[u] # "rd"
      BY <1>1, <2>1, Zenon DEF IInv, PhaseIsKept, ReadsNow, WritesNow
    <3> QED
      BY <1>1, <3>1, <3>2, Zenon DEF IInv, Types
  <2> QED
    BY <2>1, Zenon DEF WriterAlone
<1> QED
  BY <1>1, IInvHolds, PTL
===============================================================================
