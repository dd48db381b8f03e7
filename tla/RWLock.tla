-------------------------------- MODULE RWLock --------------------------------
(***************************************************************************)
(* The reader-writer lock (nptl/pthread_rwlock_common.c,                   *)
(* pthread_rwlock_tryrdlock.c, pthread_rwlock_trywrlock.c,                 *)
(* pthread_rwlock_unlock.c).                                               *)
(*                                                                         *)
(* A loop that loads a word and tries a compare-and-exchange until it      *)
(* succeeds, with nothing else in it, is one action on the value it finds  *)
(* in the end; a test of an older value is a place of its own.  Every call *)
(* may be one with a timeout.  The program asks for a lock only when it    *)
(* has none and unlocks what it has.                                       *)
(***************************************************************************)
EXTENDS Integers, Sequences, FiniteSets, TLC

CONSTANTS Threads,
          NoThread,
          Flags,      \* the kinds of lock looked at
          Overflow    \* PTHREAD_RWLOCK_READER_OVERFLOW, as a number of readers

ASSUME RWLockAssumption ==
  /\ NoThread \notin Threads /\ IsFiniteSet(Threads)
  /\ Flags \subseteq {"reader", "writer", "nonrecursive"}
  /\ Overflow \in Nat \ {0, 1}

VARIABLES flags,          \* __flags: who is preferred
          readers,        \* __readers: WRPHASE, WRLOCKED, RWAITING, the number
          wrphase_futex,  \* __wrphase_futex: 0 or 1, and FUTEX_USED
          writers_futex,  \* __writers_futex: likewise
          writers,        \* __writers: the number, and WRHANDOVER
          cur_writer,     \* __cur_writer
          pc,
          op,             \* "rd" or "wr": what a thread waits for
          then,           \* where it goes on, or what it will have
          ready,          \* the threads whose flag ready is set
          share,          \* those with may_share_futex_used_flag
          used,           \* those that found FUTEX_USED in __writers_futex
          todo,           \* the futex_wake calls a thread has to make
          held,           \* "no", "rd" or "wr"
          skipped         \* history: a writer did not wait for the hand-over of
                          \* the write phase it found

vars == <<flags, readers, wrphase_futex, writers_futex, writers, cur_writer, pc, op, then,
          ready, share, used, todo, held, skipped>>

fixed == <<flags, skipped>>
lockVars == <<fixed, readers, wrphase_futex, writers_futex, writers, cur_writer>>
localVars == <<op, then, ready, share, used, todo, held>>

Futex(val, u) == [val |-> val, used |-> u]

prefer_writer == flags # "reader"

Goto(t, place) == pc' = [pc EXCEPT ![t] = place]

\* The call returns with held[t] = h, after the futex_wake calls given.
Finish(t, h, wakes) ==
  /\ ready' = ready \ {t} /\ share' = share \ {t} /\ used' = used \ {t}
  /\ op' = [op EXCEPT ![t] = "rd"]
  /\ todo' = [todo EXCEPT ![t] = wakes]
  /\ IF wakes = <<>>
       THEN /\ Goto(t, "program")
            /\ held' = [held EXCEPT ![t] = h]
            /\ then' = [then EXCEPT ![t] = "no"]
       ELSE /\ Goto(t, "wake")
            /\ then' = [then EXCEPT ![t] = h]
            /\ UNCHANGED held

\* The value of __readers that decides how a primary writer goes on.
WriterSees(r) == IF r.wrphase THEN "done" ELSE IF r.n = 0 THEN "start" ELSE "phase"

Init ==
  /\ flags \in Flags
  /\ readers = [wrphase |-> FALSE, wrlocked |-> FALSE, rwaiting |-> FALSE, n |-> 0]
  /\ wrphase_futex = Futex(0, FALSE) /\ writers_futex = Futex(0, FALSE)
  /\ writers = [n |-> 0, handover |-> FALSE]
  /\ cur_writer = NoThread
  /\ pc = [t \in Threads |-> "program"]
  /\ op = [t \in Threads |-> "rd"]
  /\ then = [t \in Threads |-> "no"]
  /\ ready = {} /\ share = {} /\ used = {}
  /\ todo = [t \in Threads |-> <<>>]
  /\ held = [t \in Threads |-> "no"]
  /\ skipped = FALSE

\* One futex_wake: of all threads, except that one writer is enough.
Wake(t) ==
  /\ pc[t] = "wake"
  /\ LET w == Head(todo[t])
         Rest(p) == IF Len(todo[t]) > 1 THEN p ELSE [p EXCEPT ![t] = "program"]
         All(from, to) == [s \in Threads |-> IF pc[s] = from THEN to ELSE pc[s]]
     IN \/ /\ w = "phase"
           /\ pc' = Rest(All("phaseasleep", "phase"))
        \/ /\ w = "readers"
           /\ pc' = Rest(All("gateasleep", "gatewait"))
        \/ /\ w = "writers"
           /\ IF \E s \in Threads : pc[s] = "writerasleep"
                THEN \E s \in Threads : /\ pc[s] = "writerasleep"
                                        /\ pc' = Rest([pc EXCEPT ![s] = "reload"])
                ELSE pc' = Rest(pc)
  /\ todo' = [todo EXCEPT ![t] = Tail(@)]
  /\ IF Len(todo[t]) > 1
       THEN UNCHANGED <<held, then>>
       ELSE /\ held' = [held EXCEPT ![t] = then[t]]
            /\ then' = [then EXCEPT ![t] = "no"]
  /\ UNCHANGED <<lockVars, op, ready, share, used>>

-----------------------------------------------------------------------------
\* pthread_rwlock_rdlock.

\* A writer waits for readers that have the lock.
WriterWaits(r) == ~r.wrphase /\ r.wrlocked /\ r.n > 0

Rdlock(t) ==
  /\ pc[t] = "program" /\ held[t] = "no"
  /\ op' = [op EXCEPT ![t] = "rd"]
  /\ Goto(t, IF flags = "nonrecursive" THEN "gate" ELSE "add")
  /\ UNCHANGED <<lockVars, then, ready, share, used, todo, held>>

\* If it can be helped, do not extend a read phase that a writer waits for.
RdGate(t) ==
  /\ pc[t] \in {"gate", "gatewait"}
  /\ IF pc[t] = "gatewait" /\ readers.rwaiting
       THEN Goto(t, "gateasleep") /\ UNCHANGED readers
       ELSE IF WriterWaits(readers)
       THEN Goto(t, "gatewait") /\ readers' = [readers EXCEPT !.rwaiting = TRUE]
       ELSE Goto(t, "add") /\ UNCHANGED readers
  /\ UNCHANGED <<fixed, wrphase_futex, writers_futex, writers, cur_writer, localVars>>

RdGateTimeout(t) ==
  /\ pc[t] = "gateasleep"
  /\ Finish(t, "no", <<>>)
  /\ UNCHANGED lockVars

\* What a reader that has registered does when it sees r.
Registered(t, r) ==
  IF ~r.wrphase THEN Finish(t, "rd", <<>>)
  ELSE /\ Goto(t, IF r.wrlocked THEN "phase" ELSE "startread")
       /\ UNCHANGED localVars

RdAdd(t) ==
  /\ pc[t] = "add"
  /\ LET r == [readers EXCEPT !.n = @ + 1]
     IN /\ readers' = r
        /\ IF r.n >= Overflow
             THEN Goto(t, "overflow") /\ UNCHANGED localVars
             ELSE Registered(t, r)
  /\ UNCHANGED <<fixed, wrphase_futex, writers_futex, writers, cur_writer>>

\* Too many readers: unregister, unless there are fewer by now.
RdOverflow(t) ==
  /\ pc[t] = "overflow"
  /\ IF readers.n >= Overflow
       THEN /\ readers' = [readers EXCEPT !.n = @ - 1]
            /\ Finish(t, "no", <<>>)
       ELSE UNCHANGED readers /\ Registered(t, readers)
  /\ UNCHANGED <<fixed, wrphase_futex, writers_futex, writers, cur_writer>>

\* A write phase without a writer: start a read phase, or wait for it if
\* anybody was faster.
StartRead(t) ==
  /\ pc[t] = "startread"
  /\ IF readers.wrphase /\ ~readers.wrlocked
       THEN Goto(t, "setread") /\ readers' = [readers EXCEPT !.wrphase = FALSE]
       ELSE Goto(t, "phase") /\ UNCHANGED readers
  /\ UNCHANGED <<fixed, wrphase_futex, writers_futex, writers, cur_writer, localVars>>

\* The thread that started the read phase hands it over to the other readers.
SetRead(t) ==
  /\ pc[t] = "setread"
  /\ wrphase_futex' = Futex(0, FALSE)
  /\ Finish(t, "rd", IF wrphase_futex.used THEN <<"phase">> ELSE <<>>)
  /\ UNCHANGED <<fixed, readers, writers_futex, writers, cur_writer>>

Tryrdlock(t) ==
  /\ pc[t] = "program" /\ held[t] = "no"
  /\ readers.n + 1 < Overflow
  /\ IF readers.wrphase
       THEN /\ ~readers.wrlocked
            /\ readers' = [readers EXCEPT !.n = @ + 1, !.wrphase = FALSE]
            /\ Goto(t, "setread")
            /\ UNCHANGED held
       ELSE /\ readers.wrlocked => flags # "nonrecursive"
            /\ readers' = [readers EXCEPT !.n = @ + 1]
            /\ held' = [held EXCEPT ![t] = "rd"]
            /\ UNCHANGED pc
  /\ UNCHANGED <<fixed, wrphase_futex, writers_futex, writers, cur_writer, op, then, ready, share,
                 used, todo>>

-----------------------------------------------------------------------------
\* The wait for the explicit hand-over of a phase, by readers and by the
\* primary writer: until __wrphase_futex has the value of the phase, seen
\* after __readers has shown the phase.

PhaseValue(t) == IF op[t] = "rd" THEN 0 ELSE 1
InPhase(t) == readers.wrphase = (op[t] = "wr")

PhaseLoad(t) ==
  /\ pc[t] = "phase"
  /\ IF wrphase_futex.val # PhaseValue(t)
       THEN /\ wrphase_futex' = [wrphase_futex EXCEPT !.used = TRUE]
            /\ Goto(t, "phasewait") /\ UNCHANGED localVars
       ELSE /\ UNCHANGED wrphase_futex
            /\ IF t \notin ready THEN Goto(t, "confirm") /\ UNCHANGED localVars
               ELSE IF op[t] = "rd" THEN Finish(t, "rd", <<>>)
               ELSE Goto(t, "done") /\ UNCHANGED localVars
  /\ UNCHANGED <<fixed, readers, writers_futex, writers, cur_writer>>

PhaseConfirm(t) ==
  /\ pc[t] = "confirm"
  /\ ready' = IF InPhase(t) THEN ready \cup {t} ELSE ready
  /\ Goto(t, "phase")
  /\ UNCHANGED <<lockVars, op, then, share, used, todo, held>>

PhaseWait(t) ==
  /\ pc[t] = "phasewait"
  /\ Goto(t, IF wrphase_futex = Futex(1 - PhaseValue(t), TRUE) THEN "phaseasleep" ELSE "phase")
  /\ UNCHANGED <<lockVars, localVars>>

PhaseTimeout(t) ==
  /\ pc[t] = "phaseasleep"
  /\ Goto(t, IF op[t] = "rd" THEN "unregister" ELSE "giveup")
  /\ UNCHANGED <<lockVars, localVars>>

\* Mutant of RdUnregister: the read phase may have begun.
UnregisterAnyway(t) ==
  /\ pc[t] = "unregister"
  /\ readers' = [readers EXCEPT !.n = @ - 1]
  /\ Finish(t, "no", <<>>)
  /\ UNCHANGED <<fixed, wrphase_futex, writers_futex, writers, cur_writer>>

\* A reader gives up, unless the read phase has begun.
RdUnregister(t) ==
  /\ pc[t] = "unregister"
  /\ IF readers.wrphase
       THEN /\ readers' = [readers EXCEPT !.n = @ - 1]
            /\ Finish(t, "no", <<>>)
       ELSE Goto(t, "spin") /\ UNCHANGED <<readers, localVars>>
  /\ UNCHANGED <<fixed, wrphase_futex, writers_futex, writers, cur_writer>>

\* Too late to give up: the hand-over is awaited without futex_wait.
PhaseSpin(t) ==
  /\ pc[t] = "spin"
  /\ wrphase_futex.val = PhaseValue(t)
  /\ IF op[t] = "rd" THEN Finish(t, "rd", <<>>) ELSE Goto(t, "done") /\ UNCHANGED localVars
  /\ UNCHANGED lockVars

-----------------------------------------------------------------------------
\* pthread_rwlock_wrlock: first become the primary writer.

Wrlock(t) ==
  /\ pc[t] = "program" /\ held[t] = "no"
  /\ op' = [op EXCEPT ![t] = "wr"]
  /\ readers' = [readers EXCEPT !.wrlocked = TRUE]
  /\ IF ~readers.wrlocked
       THEN Goto(t, "enable") /\ then' = [then EXCEPT ![t] = WriterSees(readers)]
       ELSE Goto(t, IF prefer_writer THEN "register" ELSE "locked") /\ UNCHANGED then
  /\ UNCHANGED <<fixed, wrphase_futex, writers_futex, writers, cur_writer, ready, share, used, todo,
                 held>>

WrRegister(t) ==
  /\ pc[t] = "register"
  /\ writers' = [writers EXCEPT !.n = @ + 1]
  /\ Goto(t, "locked")
  /\ UNCHANGED <<fixed, readers, wrphase_futex, writers_futex, cur_writer, localVars>>

\* There was no primary writer when we looked.
WrTake(t) ==
  /\ pc[t] = "free"
  /\ IF readers.wrlocked
       THEN Goto(t, "locked") /\ UNCHANGED <<readers, then>>
       ELSE /\ readers' = [readers EXCEPT !.wrlocked = TRUE]
            /\ then' = [then EXCEPT ![t] = WriterSees(readers)]
            /\ Goto(t, IF prefer_writer THEN "taken" ELSE "enable")
  /\ UNCHANGED <<fixed, wrphase_futex, writers_futex, writers, cur_writer, op, ready, share, used,
                 todo, held>>

WrTaken(t) ==
  /\ pc[t] = "taken"
  /\ writers' = [writers EXCEPT !.n = @ - 1]
  /\ Goto(t, "enable")
  /\ UNCHANGED <<fixed, readers, wrphase_futex, writers_futex, cur_writer, localVars>>

\* Take WRLOCKED over from the previous primary writer, if that is offered.
WrHandedOver(t) ==
  /\ pc[t] = "locked"
  /\ IF prefer_writer /\ writers.handover
       THEN Goto(t, "reread") /\ writers' = [n |-> writers.n - 1, handover |-> FALSE]
       ELSE Goto(t, "block") /\ UNCHANGED writers
  /\ UNCHANGED <<fixed, readers, wrphase_futex, writers_futex, cur_writer, localVars>>

WrReread(t) ==
  /\ pc[t] = "reread"
  /\ then' = [then EXCEPT ![t] = WriterSees(readers)]
  /\ skipped' = (skipped \/ (readers.wrphase /\ \E u \in Threads : pc[u] = "giveph"))
  /\ Goto(t, "enable")
  /\ UNCHANGED <<flags, readers, wrphase_futex, writers_futex, writers, cur_writer, op, ready, share,
                 used, todo, held>>

WrBlock(t) ==
  /\ pc[t] = "block"
  /\ IF writers_futex.val = 1
       THEN /\ writers_futex' = Futex(1, TRUE)
            /\ share' = share \cup {t}
            /\ Goto(t, "wait")
       ELSE Goto(t, "reload") /\ UNCHANGED <<writers_futex, share>>
  /\ UNCHANGED <<fixed, readers, wrphase_futex, writers, cur_writer, op, then, ready, used, todo,
                 held>>

WrWait(t) ==
  /\ pc[t] = "wait"
  /\ Goto(t, IF writers_futex = Futex(1, TRUE) THEN "writerasleep" ELSE "reload")
  /\ UNCHANGED <<lockVars, localVars>>

WrReload(t) ==
  /\ pc[t] = "reload"
  /\ Goto(t, IF readers.wrlocked THEN "locked" ELSE "free")
  /\ UNCHANGED <<lockVars, localVars>>

\* Not asleep any more; the last registered writer must not refuse a hand-over.
WrTimeout(t) ==
  /\ pc[t] = "writerasleep"
  /\ IF prefer_writer THEN Goto(t, "deregister") /\ UNCHANGED localVars
                      ELSE Finish(t, "no", <<>>)
  /\ UNCHANGED lockVars

\* Mutant of WrDeregister: a hand-over is refused.
DeregisterAlways(t) ==
  /\ pc[t] = "deregister"
  /\ writers' = [writers EXCEPT !.n = @ - 1]
  /\ Finish(t, "no", <<>>)
  /\ UNCHANGED <<fixed, readers, wrphase_futex, writers_futex, cur_writer>>

WrDeregister(t) ==
  /\ pc[t] = "deregister"
  /\ IF writers = [n |-> 1, handover |-> TRUE]
       THEN /\ writers' = [n |-> 0, handover |-> FALSE]
            /\ Goto(t, "reread") /\ UNCHANGED localVars
       ELSE /\ writers' = [writers EXCEPT !.n = @ - 1]
            /\ Finish(t, "no", <<>>)
  /\ UNCHANGED <<fixed, readers, wrphase_futex, writers_futex, cur_writer>>

-----------------------------------------------------------------------------
\* The primary writer.

\* Mutant of WrEnable: the writers it slept with are forgotten.
EnableForgets(t) ==
  /\ pc[t] = "enable"
  /\ writers_futex' = Futex(1, FALSE)
  /\ Goto(t, then[t])
  /\ then' = [then EXCEPT ![t] = "no"]
  /\ UNCHANGED <<fixed, readers, wrphase_futex, writers, cur_writer, op, ready, share, used, todo,
                 held>>

\* Let other writers block.
WrEnable(t) ==
  /\ pc[t] = "enable"
  /\ writers_futex' = Futex(1, t \in share)
  /\ Goto(t, then[t])
  /\ then' = [then EXCEPT ![t] = "no"]
  /\ UNCHANGED <<fixed, readers, wrphase_futex, writers, cur_writer, op, ready, share, used, todo,
                 held>>

\* No readers: start a write phase.
WrStart(t) ==
  /\ pc[t] = "start"
  /\ IF ~readers.wrphase /\ readers.n = 0
       THEN Goto(t, "setwrite") /\ readers' = [readers EXCEPT !.wrphase = TRUE]
       ELSE Goto(t, "phase") /\ UNCHANGED readers
  /\ UNCHANGED <<fixed, wrphase_futex, writers_futex, writers, cur_writer, localVars>>

SetWrite(t) ==
  /\ pc[t] = "setwrite"
  /\ wrphase_futex' = Futex(1, FALSE)
  /\ Goto(t, "done")
  /\ UNCHANGED <<fixed, readers, writers_futex, writers, cur_writer, localVars>>

WrDone(t) ==
  /\ pc[t] = "done"
  /\ cur_writer' = t
  /\ Finish(t, "wr", <<>>)
  /\ UNCHANGED <<fixed, readers, wrphase_futex, writers_futex, writers>>

Trywrlock(t) ==
  /\ pc[t] = "program" /\ held[t] = "no"
  /\ ~readers.wrlocked
  /\ readers.n = 0 \/ (prefer_writer /\ readers.wrphase)
  /\ readers' = [readers EXCEPT !.wrphase = TRUE, !.wrlocked = TRUE]
  /\ then' = [then EXCEPT ![t] = IF readers.wrphase THEN "done" ELSE "setwrite"]
  /\ op' = [op EXCEPT ![t] = "wr"]
  /\ Goto(t, "enable")
  /\ UNCHANGED <<fixed, wrphase_futex, writers_futex, writers, cur_writer, ready, share, used, todo,
                 held>>

\* The primary writer times out waiting for the readers: WRLOCKED goes to
\* another writer or is reset, unless the write phase has begun.
WrGiveUp(t) ==
  /\ pc[t] = "giveup"
  /\ IF prefer_writer /\ writers.n # 0
       THEN Goto(t, "close") /\ then' = [then EXCEPT ![t] = "pass"]
       ELSE Goto(t, "yield") /\ UNCHANGED then
  /\ UNCHANGED <<lockVars, op, ready, share, used, todo, held>>

WrYield(t) ==
  /\ pc[t] = "yield"
  /\ IF readers.wrphase
       THEN Goto(t, "spin") /\ UNCHANGED then
       ELSE Goto(t, "close") /\ then' = [then EXCEPT ![t] = "release"]
  /\ UNCHANGED <<lockVars, op, ready, share, used, todo, held>>

\* Let no writer block.
WrClose(t) ==
  /\ pc[t] = "close"
  /\ writers_futex' = Futex(0, FALSE)
  /\ used' = IF writers_futex.used THEN used \cup {t} ELSE used
  /\ Goto(t, then[t])
  /\ then' = [then EXCEPT ![t] = "no"]
  /\ UNCHANGED <<fixed, readers, wrphase_futex, writers, cur_writer, op, ready, share, todo, held>>

WakeWriters(t) == IF t \in used THEN <<"writers">> ELSE <<>>

WrPass(t) ==
  /\ pc[t] = "pass"
  /\ IF writers.n # 0
       THEN /\ writers' = [writers EXCEPT !.handover = TRUE]
            /\ Finish(t, "no", WakeWriters(t))
       ELSE /\ Goto(t, "reopen") /\ then' = [then EXCEPT ![t] = "yield"]
            /\ UNCHANGED <<writers, op, ready, share, used, todo, held>>
  /\ UNCHANGED <<fixed, readers, wrphase_futex, writers_futex, cur_writer>>

WrRelease(t) ==
  /\ pc[t] = "release"
  /\ IF ~readers.wrphase
       THEN /\ readers' = [readers EXCEPT !.wrlocked = FALSE, !.rwaiting = FALSE]
            /\ Finish(t, "no", WakeWriters(t) \o IF readers.rwaiting THEN <<"readers">> ELSE <<>>)
       ELSE /\ Goto(t, "reopen") /\ then' = [then EXCEPT ![t] = "spin"]
            /\ UNCHANGED <<readers, op, ready, share, used, todo, held>>
  /\ UNCHANGED <<fixed, wrphase_futex, writers_futex, writers, cur_writer>>

WrReopen(t) ==
  /\ pc[t] = "reopen"
  /\ writers_futex' = Futex(1, t \in used)
  /\ used' = used \ {t}
  /\ Goto(t, then[t])
  /\ then' = [then EXCEPT ![t] = "no"]
  /\ UNCHANGED <<fixed, readers, wrphase_futex, writers, cur_writer, op, ready, share, todo, held>>

-----------------------------------------------------------------------------
\* pthread_rwlock_unlock.

Unlock(t) ==
  /\ pc[t] = "program" /\ held[t] # "no"
  /\ held' = [held EXCEPT ![t] = "no"]
  /\ Goto(t, IF cur_writer = t THEN "wrunlock" ELSE "rdunlock")
  /\ UNCHANGED <<lockVars, op, then, ready, share, used, todo>>

\* Mutant of Rdunlock: any reader starts the write phase.
RdunlockNotLast(t) ==
  /\ pc[t] = "rdunlock"
  /\ LET rnew == [readers EXCEPT !.n = @ - 1, !.wrphase = @ \/ readers.wrlocked, !.rwaiting = FALSE]
         wakes == IF readers.rwaiting THEN <<"readers">> ELSE <<>>
     IN /\ readers' = rnew
        /\ IF rnew.wrphase
             THEN /\ Goto(t, "giveph")
                  /\ todo' = [todo EXCEPT ![t] = wakes]
                  /\ UNCHANGED <<op, then, ready, share, used, held>>
             ELSE Finish(t, "no", wakes)
  /\ UNCHANGED <<fixed, wrphase_futex, writers_futex, writers, cur_writer>>

\* The last reader lets a primary writer go on, and waiting readers register.
Rdunlock(t) ==
  /\ pc[t] = "rdunlock"
  /\ LET last == readers.n = 1
         rnew == [readers EXCEPT !.n = @ - 1,
                                 !.wrphase = @ \/ (last /\ readers.wrlocked),
                                 !.rwaiting = @ /\ ~last]
         wakes == IF readers.rwaiting # rnew.rwaiting THEN <<"readers">> ELSE <<>>
     IN /\ readers' = rnew
        /\ IF rnew.wrphase
             THEN /\ Goto(t, "giveph")
                  /\ todo' = [todo EXCEPT ![t] = wakes]
                  /\ UNCHANGED <<op, then, ready, share, used, held>>
             ELSE Finish(t, "no", wakes)
  /\ UNCHANGED <<fixed, wrphase_futex, writers_futex, writers, cur_writer>>

GiveWritePhase(t) ==
  /\ pc[t] = "giveph"
  /\ wrphase_futex' = Futex(1, FALSE)
  /\ Finish(t, "no", (IF wrphase_futex.used THEN <<"phase">> ELSE <<>>) \o todo[t])
  /\ UNCHANGED <<fixed, readers, writers_futex, writers, cur_writer>>

Wrunlock(t) ==
  /\ pc[t] = "wrunlock"
  /\ cur_writer' = NoThread
  /\ Goto(t, "close")
  /\ then' = [then EXCEPT ![t] = IF prefer_writer THEN "offer" ELSE "leave"]
  /\ UNCHANGED <<fixed, readers, wrphase_futex, writers_futex, writers, op, ready, share, used,
                 todo, held>>

\* Hand over to another writer, if any.
WrOffer(t) ==
  /\ pc[t] = "offer"
  /\ IF writers.n # 0
       THEN /\ writers' = [writers EXCEPT !.handover = TRUE]
            /\ Finish(t, "no", WakeWriters(t))
       ELSE Goto(t, "leave") /\ UNCHANGED <<writers, localVars>>
  /\ UNCHANGED <<fixed, readers, wrphase_futex, writers_futex, cur_writer>>

\* Start a read phase if there are readers, else stay in the write phase.
WrLeave(t) ==
  /\ pc[t] = "leave"
  /\ readers' = [readers EXCEPT !.wrlocked = ~@, !.wrphase = IF readers.n = 0 THEN @ ELSE ~@]
  /\ IF readers.n = 0 THEN Finish(t, "no", WakeWriters(t))
                      ELSE Goto(t, "giverd") /\ UNCHANGED localVars
  /\ UNCHANGED <<fixed, wrphase_futex, writers_futex, writers, cur_writer>>

GiveReadPhase(t) ==
  /\ pc[t] = "giverd"
  /\ wrphase_futex' = Futex(0, FALSE)
  /\ Finish(t, "no", (IF wrphase_futex.used THEN <<"phase">> ELSE <<>>) \o WakeWriters(t))
  /\ UNCHANGED <<fixed, readers, writers_futex, writers, cur_writer>>

-----------------------------------------------------------------------------
\* A signal handler has run.
SpuriousWake(t) ==
  /\ \/ pc[t] = "phaseasleep" /\ Goto(t, "phase")
     \/ pc[t] = "writerasleep" /\ Goto(t, "reload")
     \/ pc[t] = "gateasleep" /\ Goto(t, "gatewait")
  /\ UNCHANGED <<lockVars, localVars>>

Next ==
  \E t \in Threads :
    \/ Rdlock(t) \/ RdGate(t) \/ RdGateTimeout(t) \/ RdAdd(t) \/ RdOverflow(t)
    \/ StartRead(t) \/ SetRead(t) \/ Tryrdlock(t) \/ RdUnregister(t)
    \/ PhaseLoad(t) \/ PhaseConfirm(t) \/ PhaseWait(t) \/ PhaseTimeout(t) \/ PhaseSpin(t)
    \/ Wrlock(t) \/ WrRegister(t) \/ WrTake(t) \/ WrTaken(t) \/ WrHandedOver(t)
    \/ WrReread(t) \/ WrBlock(t) \/ WrWait(t) \/ WrReload(t) \/ WrTimeout(t)
    \/ WrDeregister(t) \/ WrEnable(t) \/ WrStart(t) \/ SetWrite(t) \/ WrDone(t)
    \/ Trywrlock(t) \/ WrGiveUp(t) \/ WrYield(t) \/ WrClose(t) \/ WrPass(t)
    \/ WrRelease(t) \/ WrReopen(t)
    \/ Unlock(t) \/ Rdunlock(t) \/ GiveWritePhase(t) \/ Wrunlock(t) \/ WrOffer(t)
    \/ WrLeave(t) \/ GiveReadPhase(t) \/ Wake(t) \/ SpuriousWake(t)

Spec == Init /\ [][Next]_vars

\* The threads are interchangeable.
Symmetry == Permutations(Threads)

-----------------------------------------------------------------------------
\* Where a thread counts as a reader, and as a registered writer.
ReaderPlaces == {"overflow", "startread", "setread", "unregister"}
PhasePlaces == {"phase", "confirm", "phasewait", "phaseasleep", "spin"}

IsReader(t) ==
  \/ held[t] = "rd" \/ pc[t] \in ReaderPlaces \cup {"rdunlock"}
  \/ pc[t] \in PhasePlaces /\ op[t] = "rd"
  \/ pc[t] = "wake" /\ then[t] = "rd"

IsRegistered(t) ==
  /\ prefer_writer
  /\ pc[t] \in {"locked", "free", "taken", "block", "wait", "writerasleep", "reload", "deregister"}

\* The primary writer: it owns WRLOCKED.
IsPrimary(t) ==
  \/ held[t] = "wr"
  \/ pc[t] \in {"taken", "reread", "enable", "start", "setwrite", "done", "giveup", "yield",
                "close", "pass", "release", "reopen", "wrunlock", "offer", "leave"}
  \/ pc[t] \in PhasePlaces /\ op[t] = "wr"

TypeOK ==
  /\ flags \in Flags
  /\ readers \in [wrphase : BOOLEAN, wrlocked : BOOLEAN, rwaiting : BOOLEAN,
                  n : 0 .. Cardinality(Threads)]
  /\ wrphase_futex \in [val : {0, 1}, used : BOOLEAN]
  /\ writers_futex \in [val : {0, 1}, used : BOOLEAN]
  /\ writers \in [n : 0 .. Cardinality(Threads), handover : BOOLEAN]
  /\ cur_writer \in Threads \cup {NoThread}

\* The state of the lock is what the threads have done to it: the readers and
\* the registered writers are counted exactly, overflows, timeouts and
\* hand-overs included, WRLOCKED has one owner or is on offer to a registered
\* writer, and RWAITING is set in state #4a of the table only.
StateExact ==
  /\ TypeOK
  /\ readers.n = Cardinality({t \in Threads : IsReader(t)})
  /\ writers.n = Cardinality({t \in Threads : IsRegistered(t)})
  /\ Cardinality({t \in Threads : IsPrimary(t)})
       = IF readers.wrlocked /\ ~writers.handover THEN 1 ELSE 0
  /\ writers.handover => readers.wrlocked /\ writers.n > 0
  /\ readers.rwaiting => WriterWaits(readers)

\* A writer has the lock alone.
WriterAlone ==
  \A t, u \in Threads : t # u /\ held[t] = "wr" => held[u] = "no"

\* With all threads in the program or asleep, every sleeper has somebody to
\* wait for: a reader a writer that has the lock, or, of the non-recursive
\* kind only, one that waits for readers; a writer somebody with the lock or
\* the primary writer, and this one a reader with the lock.  Waiting threads
\* are always woken up, then, whoever times out meanwhile.
Quiet == \A t \in Threads :
           \/ pc[t] \in {"program", "phaseasleep", "writerasleep", "gateasleep"}
           \/ pc[t] = "spin" /\ wrphase_futex.val # PhaseValue(t)

AlwaysWoken ==
  LET Has(h) == \E t \in Threads : held[t] = h
      PrimaryAsleep == \E t \in Threads : pc[t] = "phaseasleep" /\ op[t] = "wr"
  IN Quiet => \A t \in Threads :
       /\ pc[t] # "spin"
       /\ pc[t] = "phaseasleep" => Has(IF op[t] = "rd" THEN "wr" ELSE "rd")
       /\ pc[t] = "writerasleep" => Has("wr") \/ PrimaryAsleep
       /\ pc[t] = "gateasleep" => flags = "nonrecursive" /\ Has("rd") /\ PrimaryAsleep

\* The same, as long as no writer has taken WRLOCKED over and gone on in a
\* write phase that a reader was still handing over.
AlwaysWokenUnlessSkipped == ~skipped => AlwaysWoken

\* The store that ends an explicit hand-over comes before the threads it is
\* meant for can have gone on, so that none of them could have unlocked and
\* destroyed the lock already: the writer it is meant for, or offered to, has
\* not got the lock yet, nor has a reader that made a read phase necessary.
HandOverAwaited ==
  ~skipped => \A t \in Threads :
    /\ pc[t] = "giveph" =>
         \/ writers.handover
         \/ \E u \in Threads : IsPrimary(u) /\ held[u] = "no" /\ pc[u] # "done"
    /\ pc[t] = "giverd" =>
         \E u \in Threads : IsReader(u) /\ held[u] = "no" /\ pc[u] \notin {"rdunlock", "overflow"}
=============================================================================
