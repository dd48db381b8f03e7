------------------------------- MODULE CondVar --------------------------------
(***************************************************************************)
(* The condition variable (nptl/pthread_cond_wait.c, pthread_cond_signal.c,*)
(* pthread_cond_broadcast.c, pthread_cond_destroy.c,                       *)
(* pthread_cond_common.c): waiters join group G2, signals go to group G1,  *)
(* and the two slots change their roles when G1 is used up.                *)
(*                                                                         *)
(* The internal lock, which is the lock of LowLevelLock in two bits of     *)
(* __g1_orig_size, is a lock that is free or has an owner.  What is only   *)
(* touched under it is changed in one action with the atomic access next   *)
(* to it.  The mutex is left out: a waiter has released it once it counts  *)
(* in __wrefs, and signals may be sent without it.                         *)
(***************************************************************************)
EXTENDS Integers, FiniteSets, TLC

CONSTANTS Waiters, Signalers,
          NoThread,
          MaxWseq,       \* bound on the waits
          MaxGroupSize,  \* __PTHREAD_COND_MAX_GROUP_SIZE
          Features       \* what happens besides waits and signals

ASSUME CondVarAssumption ==
  /\ Waiters \cap Signalers = {} /\ NoThread \notin Waiters \cup Signalers
  /\ MaxWseq \in Nat /\ MaxGroupSize \in Nat \ {0}
  /\ Features \subseteq {"broadcast", "timeout", "cancel", "destroy", "interrupt"}

Threads == Waiters \cup Signalers

VARIABLES wseq,       \* __wseq: the position, and the slot of G2
          g1_start,   \* __g1_start: likewise
          orig_size,  \* __g1_orig_size, without the lock
          lock,       \* the lock in it
          g_signals,  \* __g_signals of each slot: the number, the closed flag
          g_refs,     \* __g_refs of each slot: the number, the wake request
          g_size,     \* __g_size of each slot
          wrefs,      \* __wrefs: the number, the wake request
          pc,
          my,         \* locals: of a wait, its position and slot ...
          obs,        \* ... the __g1_start it saw and the __g_signals it saw,
          sig,        \* of a signal, __wseq as seen, the slot of G1, broadcast?
          then,       \* where a call returns to
          owed,       \* history: a signal must wake one of these, or of those it may
          due,        \* history: broadcasts must wake all of these
          stray,      \* history: a signal was put back into a group it is not from
          destroyed

vars == <<wseq, g1_start, orig_size, lock, g_signals, g_refs, g_size, wrefs, pc, my, obs, sig,
          then, owed, due, stray, destroyed>>

ghosts == <<owed, due, stray, destroyed>>
locals == <<my, obs, sig, then>>

Slots == {0, 1}

Goto(t, place) == pc' = [pc EXCEPT ![t] = place]

\* futex_wake on __g_signals of a slot, of one or of all.
AsleepOn(g) == {t \in Waiters : pc[t] = "asleep" /\ my[t].g = g}

WakeOne(t, g, place) ==
  IF AsleepOn(g) = {} THEN Goto(t, place)
  ELSE \E w \in AsleepOn(g) : pc' = [pc EXCEPT ![t] = place, ![w] = "unref"]

WakeAll(t, g, place) ==
  pc' = [u \in Threads |-> IF u = t THEN place ELSE IF u \in AsleepOn(g) THEN "unref" ELSE pc[u]]

NotOwed == [must |-> {}, may |-> {}]
NoWait == [seq |-> 0, g |-> 0, from |-> 0, out |-> "woken"]
NoObs == [start |-> [n |-> 0, g2 |-> 0], signals |-> [n |-> 0, closed |-> FALSE]]
NoSig == [wseq |-> 0, g1 |-> 0, all |-> FALSE]

Init ==
  /\ wseq = [n |-> 0, g2 |-> 0] /\ g1_start = [n |-> 0, g2 |-> 0]
  /\ orig_size = 0 /\ lock = NoThread
  /\ g_signals = [g \in Slots |-> [n |-> 0, closed |-> FALSE]]
  /\ g_refs = [g \in Slots |-> [n |-> 0, wake |-> FALSE]]
  /\ g_size = [g \in Slots |-> 0]
  /\ wrefs = [n |-> 0, wake |-> FALSE]
  /\ pc = [t \in Threads |-> "program"]
  /\ my = [t \in Threads |-> NoWait]
  /\ obs = [t \in Threads |-> NoObs]
  /\ sig = [t \in Threads |-> NoSig]
  /\ then = [t \in Threads |-> "program"]
  /\ owed = NotOwed /\ due = {} /\ stray = FALSE /\ destroyed = FALSE

-----------------------------------------------------------------------------
\* pthread_cond_wait: register, in the sequence and in __wrefs.  (One action:
\* the mutex is held, and signalers only ask whether __wrefs is zero.)
Wait(t) ==
  /\ pc[t] = "program" /\ t \in Waiters
  /\ wseq.n < MaxWseq /\ ~wrefs.wake
  /\ my' = [my EXCEPT ![t] = [NoWait EXCEPT !.seq = wseq.n, !.g = wseq.g2]]
  /\ wseq' = [wseq EXCEPT !.n = @ + 1]
  /\ wrefs' = [wrefs EXCEPT !.n = @ + 1]
  /\ Goto(t, "load")
  /\ owed' = IF \E s \in Signalers : pc[s] # "program" THEN [owed EXCEPT !.may = @ \cup {t}] ELSE owed
  /\ UNCHANGED <<g1_start, orig_size, lock, g_signals, g_refs, g_size, obs, sig, then, due, stray,
                 destroyed>>

\* The group a slot is in use for, named by its first position.
GroupIn(g) == IF g = g1_start.g2 THEN g1_start.n + orig_size ELSE g1_start.n

\* Look at the signals of the group's slot, and take one if there is any.
LoadSignals(t) ==
  /\ pc[t] = "load"
  /\ LET s == g_signals[my[t].g]
         take == ~s.closed /\ s.n > 0
     IN /\ Goto(t, IF s.closed THEN "done" ELSE IF take THEN "taken" ELSE "groupref")
        /\ IF take
             THEN /\ g_signals' = [g_signals EXCEPT ![my[t].g].n = @ - 1]
                  /\ my' = [my EXCEPT ![t].from = GroupIn(my[t].g)]
             ELSE UNCHANGED <<g_signals, my>>
  /\ UNCHANGED <<wseq, g1_start, orig_size, lock, g_refs, g_size, wrefs, obs, sig, then, ghosts>>

GroupRef(t) ==
  /\ pc[t] = "groupref"
  /\ g_refs' = [g_refs EXCEPT ![my[t].g].n = @ + 1]
  /\ Goto(t, "isclosed")
  /\ UNCHANGED <<wseq, g1_start, orig_size, lock, g_signals, g_size, wrefs, locals, ghosts>>

\* Is the group being closed?
IsClosed(t) ==
  /\ pc[t] = "isclosed"
  /\ Goto(t, IF g_signals[my[t].g].closed THEN "unrefdone" ELSE "isover")
  /\ UNCHANGED <<wseq, g1_start, orig_size, lock, g_signals, g_refs, g_size, wrefs, locals, ghosts>>

\* Has it been closed?
IsOver(t) ==
  /\ pc[t] = "isover"
  /\ Goto(t, IF my[t].seq < g1_start.n THEN "unrefdone" ELSE "futexwait")
  /\ UNCHANGED <<wseq, g1_start, orig_size, lock, g_signals, g_refs, g_size, wrefs, locals, ghosts>>

FutexWait(t) ==
  /\ pc[t] = "futexwait"
  /\ Goto(t, IF g_signals[my[t].g] = [n |-> 0, closed |-> FALSE] THEN "asleep" ELSE "unref")
  /\ UNCHANGED <<wseq, g1_start, orig_size, lock, g_signals, g_refs, g_size, wrefs, locals, ghosts>>

\* Mutant of Unref: the last waiter to leave does not wake the signaler.
UnrefSilently(t) ==
  /\ pc[t] \in {"unref", "unrefdone", "unrefcancel"}
  /\ g_refs' = [g_refs EXCEPT ![my[t].g].n = @ - 1]
  /\ Goto(t, CASE pc[t] = "unref" -> "load"
               [] pc[t] = "unrefdone" -> "done"
               [] pc[t] = "unrefcancel" -> "cancel")
  /\ UNCHANGED <<wseq, g1_start, orig_size, lock, g_signals, g_size, wrefs, locals, ghosts>>

\* __condvar_dec_grefs
Unref(t) ==
  /\ pc[t] \in {"unref", "unrefdone", "unrefcancel"}
  /\ LET g == my[t].g
         r == g_refs[g]
         place == CASE pc[t] = "unref" -> "load"
                    [] pc[t] = "unrefdone" -> "done"
                    [] pc[t] = "unrefcancel" -> "cancel"
     IN /\ g_refs' = [g_refs EXCEPT ![g].n = @ - 1]
        /\ IF r = [n |-> 1, wake |-> TRUE]
             THEN Goto(t, "wakesignalers") /\ then' = [then EXCEPT ![t] = place]
             ELSE Goto(t, place) /\ UNCHANGED then
  /\ UNCHANGED <<wseq, g1_start, orig_size, lock, g_signals, g_size, wrefs, my, obs, sig, ghosts>>

WakeSignalers(t) ==
  /\ pc[t] = "wakesignalers"
  /\ g_refs' = [g_refs EXCEPT ![my[t].g].wake = FALSE]
  /\ pc' = [u \in Threads |-> IF u = t THEN then[t]
                             ELSE IF pc[u] = "refsasleep" /\ sig[u].g1 = my[t].g THEN "refs"
                             ELSE pc[u]]
  /\ then' = [then EXCEPT ![t] = "program"]
  /\ UNCHANGED <<wseq, g1_start, orig_size, lock, g_signals, g_size, wrefs, my, obs, sig, ghosts>>

-----------------------------------------------------------------------------
\* A signal was taken.  Was it one of a later group in the same slot?
Taken(t) ==
  /\ pc[t] = "taken"
  /\ IF my[t].seq < g1_start.n /\ g1_start.g2 # my[t].g
       THEN Goto(t, "giveback") /\ obs' = [obs EXCEPT ![t].start = g1_start]
       ELSE Goto(t, "done") /\ UNCHANGED obs
  /\ UNCHANGED <<wseq, g1_start, orig_size, lock, g_signals, g_refs, g_size, wrefs, my, sig, then,
                 ghosts>>

GiveBack(t) ==
  /\ pc[t] = "giveback"
  /\ obs' = [obs EXCEPT ![t].signals = g_signals[my[t].g]]
  /\ Goto(t, "stillg1")
  /\ UNCHANGED <<wseq, g1_start, orig_size, lock, g_signals, g_refs, g_size, wrefs, my, sig, then,
                 ghosts>>

StillG1(t) ==
  /\ pc[t] = "stillg1"
  /\ Goto(t, IF g1_start = obs[t].start THEN "putsignal" ELSE "done")
  /\ UNCHANGED <<wseq, g1_start, orig_size, lock, g_signals, g_refs, g_size, wrefs, locals, ghosts>>

\* Put a signal into the slot, unless its group is being closed.
PutSignal(t) ==
  /\ pc[t] = "putsignal"
  /\ LET g == my[t].g
         s == obs[t].signals
         put == ~s.closed /\ g_signals[g] = s
     IN /\ g_signals' = IF put THEN [g_signals EXCEPT ![g].n = @ + 1] ELSE g_signals
        /\ stray' = (stray \/ (put /\ my[t].from # GroupIn(g)))
        /\ obs' = [obs EXCEPT ![t].signals = g_signals[g]]
        /\ Goto(t, IF put \/ s.closed THEN "putwake" ELSE "stillg1")
  /\ UNCHANGED <<wseq, g1_start, orig_size, lock, g_refs, g_size, wrefs, my, sig, then, owed, due,
                 destroyed>>

\* Wake one waiter: after a signal was put back, or after a cancellation.
PutWake(t) ==
  /\ pc[t] = "putwake"
  /\ WakeOne(t, my[t].g, "done")
  /\ UNCHANGED <<wseq, g1_start, orig_size, lock, g_signals, g_refs, g_size, wrefs, locals, ghosts>>

\* __condvar_confirm_wakeup; a cancelled thread then ends.
Confirm(t) ==
  /\ pc[t] = "done"
  /\ wrefs' = [wrefs EXCEPT !.n = @ - 1]
  /\ LET back == IF my[t].out = "cancelled" THEN "ended" ELSE "program"
         wake == wrefs = [n |-> 1, wake |-> TRUE]
     IN /\ Goto(t, IF wake THEN "wakedestroyer" ELSE back)
        /\ then' = [then EXCEPT ![t] = IF wake THEN back ELSE @]
  /\ owed' = IF my[t].out = "woken" /\ t \in owed.must \cup owed.may THEN NotOwed
             ELSE [must |-> owed.must \ {t}, may |-> owed.may \ {t}]
  /\ due' = due \ {t}
  /\ my' = [my EXCEPT ![t] = NoWait] /\ obs' = [obs EXCEPT ![t] = NoObs]
  /\ UNCHANGED <<wseq, g1_start, orig_size, lock, g_signals, g_refs, g_size, sig, stray, destroyed>>

WakeDestroyer(t) ==
  /\ pc[t] = "wakedestroyer"
  /\ pc' = [u \in Threads |-> IF u = t THEN then[t]
                             ELSE IF pc[u] = "destroyasleep" THEN "destroy" ELSE pc[u]]
  /\ UNCHANGED <<wseq, g1_start, orig_size, lock, g_signals, g_refs, g_size, wrefs, locals, ghosts>>

-----------------------------------------------------------------------------
\* The wait times out, or the thread is cancelled in it (with the system call
\* not yet returned, or just returned).
TimedOut(t) ==
  /\ pc[t] = "asleep" /\ "timeout" \in Features
  /\ my' = [my EXCEPT ![t].out = "timeout"]
  /\ Goto(t, "unrefcancel")
  /\ UNCHANGED <<wseq, g1_start, orig_size, lock, g_signals, g_refs, g_size, wrefs, obs, sig, then,
                 ghosts>>

Cancelled(t) ==
  /\ pc[t] \in {"asleep", "unref"} /\ "cancel" \in Features
  /\ my' = [my EXCEPT ![t].out = "cancelled"]
  /\ Goto(t, "unrefcancel")
  /\ UNCHANGED <<wseq, g1_start, orig_size, lock, g_signals, g_refs, g_size, wrefs, obs, sig, then,
                 ghosts>>

\* A cancelled waiter adds a wake-up before it confirms, one that timed out
\* does not.
AfterCancel(t) == IF my[t].out = "cancelled" THEN "putwake" ELSE "done"

\* __condvar_cancel_waiting: which group is this waiter in?
InG2(t) == g1_start.n + orig_size <= my[t].seq

\* Mutant of ConsumedSignal: no signal can be consumed before the group closes.
ConsumedOnceClosed(t) == my[t].seq < g1_start.n

ConsumedSignal(t) ==
  \/ my[t].seq < g1_start.n
  \/ ~InG2(t) /\ g_size[my[t].g] = 0

Overflows(t) ==
  my[t].seq >= g1_start.n /\ InG2(t) /\ g_size[my[t].g] + MaxGroupSize = 0

\* It leaves the group, or sends a signal for the one it consumed, or wakes
\* everybody (there is a waiter in __wrefs, the thread itself).
CancelWaiting(t) ==
  /\ pc[t] = "cancel" /\ lock = NoThread
  /\ LET leave == ~ConsumedSignal(t) /\ ~Overflows(t)
     IN /\ g_size' = IF leave THEN [g_size EXCEPT ![my[t].g] = @ - 1] ELSE g_size
        /\ Goto(t, IF leave THEN AfterCancel(t) ELSE "lock")
        /\ then' = [then EXCEPT ![t] = IF leave THEN @ ELSE AfterCancel(t)]
        /\ sig' = [sig EXCEPT ![t].all = Overflows(t)]
  /\ UNCHANGED <<wseq, g1_start, orig_size, lock, g_signals, g_refs, wrefs, my, obs, ghosts>>

-----------------------------------------------------------------------------
\* The waiters a signal may be for: those whose group has not had all of its
\* signals.
Waiting(t) ==
  \/ pc[t] \in {"load", "groupref", "isclosed", "isover", "futexwait", "asleep", "unref"}
  \/ pc[t] = "wakesignalers" /\ then[t] = "load"

Eligible ==
  {t \in Waiters : /\ Waiting(t) /\ my[t].seq >= g1_start.n
                   /\ InG2(t) \/ g_size[my[t].g] # 0}

\* pthread_cond_signal and pthread_cond_broadcast, when there are waiters.
\* (When there are none they return having changed nothing.)
Call(t, all) ==
  /\ pc[t] = "program" /\ t \in Signalers /\ ~wrefs.wake
  /\ wrefs.n > 0
  /\ all => "broadcast" \in Features
  /\ sig' = [sig EXCEPT ![t].all = all]
  /\ owed' = IF all THEN owed
             ELSE [must |-> Eligible, may |-> {}]
  /\ due' = IF all THEN due \cup Eligible ELSE due
  /\ Goto(t, "lock")
  /\ UNCHANGED <<wseq, g1_start, orig_size, lock, g_signals, g_refs, g_size, wrefs, my, obs, then,
                 stray, destroyed>>

Return(t) ==
  /\ pc' = [pc EXCEPT ![t] = then[t]]
  /\ then' = [then EXCEPT ![t] = "program"]
  /\ sig' = [sig EXCEPT ![t] = NoSig]

\* Take the lock and __wseq, and see whether G1 still takes signals.
SignalLock(t) ==
  /\ pc[t] = "lock" /\ lock = NoThread
  /\ lock' = t
  /\ sig' = [sig EXCEPT ![t].wseq = wseq.n, ![t].g1 = 1 - wseq.g2]
  /\ Goto(t, IF g_size[1 - wseq.g2] # 0 THEN "add" ELSE "quiesce")
  /\ UNCHANGED <<wseq, g1_start, orig_size, g_signals, g_refs, g_size, wrefs, my, obs, then, ghosts>>

\* Add a signal to G1, or as many as it takes, and release the lock.  A
\* broadcast that has found waiters left in G1 keeps it, wakes them and goes on.
Add(t) ==
  /\ pc[t] \in {"add", "addlast"}
  /\ LET g == sig[t].g1
         n == IF sig[t].all THEN g_size[g] ELSE 1
         on == sig[t].all /\ pc[t] = "add"
     IN /\ g_signals' = [g_signals EXCEPT ![g].n = @ + n]
        /\ g_size' = [g_size EXCEPT ![g] = @ - n]
        /\ lock' = IF on THEN lock ELSE NoThread
        /\ Goto(t, IF on THEN "wakeg1" ELSE "wake")
  /\ UNCHANGED <<wseq, g1_start, orig_size, g_refs, wrefs, locals, ghosts>>

WakeG1(t) ==
  /\ pc[t] = "wakeg1"
  /\ WakeAll(t, sig[t].g1, "quiesce")
  /\ UNCHANGED <<wseq, g1_start, orig_size, lock, g_signals, g_refs, g_size, wrefs, locals, ghosts>>

SignalWake(t) ==
  /\ pc[t] = "wake"
  /\ IF sig[t].all THEN WakeAll(t, sig[t].g1, then[t]) ELSE WakeOne(t, sig[t].g1, then[t])
  /\ then' = [then EXCEPT ![t] = "program"] /\ sig' = [sig EXCEPT ![t] = NoSig]
  /\ UNCHANGED <<wseq, g1_start, orig_size, lock, g_signals, g_refs, g_size, wrefs, my, obs, ghosts>>

-----------------------------------------------------------------------------
\* __condvar_quiesce_and_switch_g1, if there are waiters in G2.
Quiesce(t) ==
  /\ pc[t] = "quiesce"
  /\ LET g1 == sig[t].g1
     IN IF sig[t].wseq - g1_start.n - orig_size + g_size[1 - g1] = 0
          THEN /\ lock' = NoThread /\ Return(t) /\ UNCHANGED g_signals
          ELSE /\ g_signals' = [g_signals EXCEPT ![g1].closed = TRUE]
               /\ sig' = [sig EXCEPT ![t].wseq = 0]
               /\ Goto(t, "refs") /\ UNCHANGED <<lock, then>>
  /\ UNCHANGED <<wseq, g1_start, orig_size, g_refs, g_size, wrefs, my, obs, ghosts>>

\* Are there waiters with a reference to G1?
Refs(t) ==
  /\ pc[t] = "refs"
  /\ Goto(t, IF g_refs[sig[t].g1].n > 0 THEN "refswait" ELSE "advance")
  /\ UNCHANGED <<wseq, g1_start, orig_size, lock, g_signals, g_refs, g_size, wrefs, locals, ghosts>>

RefsWait(t) ==
  /\ pc[t] = "refswait"
  /\ g_refs' = [g_refs EXCEPT ![sig[t].g1].wake = TRUE]
  /\ Goto(t, IF g_refs[sig[t].g1].n > 0 THEN "refsasleep" ELSE "refs")
  /\ UNCHANGED <<wseq, g1_start, orig_size, lock, g_signals, g_size, wrefs, locals, ghosts>>

\* The group is closed: __g1_start moves past it, and names its slot as G2's.
Advance(t) ==
  /\ pc[t] = "advance"
  /\ g1_start' = [n |-> g1_start.n + orig_size, g2 |-> sig[t].g1]
  /\ Goto(t, "switch")
  /\ UNCHANGED <<wseq, orig_size, lock, g_signals, g_refs, g_size, wrefs, locals, ghosts>>

\* Mutant of Switch: the size of the new G1 ignores those who left it as G2.
SwitchFullSize(t) ==
  /\ pc[t] = "switch"
  /\ LET g1 == 1 - sig[t].g1
         size == wseq.n - g1_start.n
     IN /\ wseq' = [wseq EXCEPT !.g2 = 1 - @]
        /\ orig_size' = size
        /\ g_size' = [g_size EXCEPT ![g1] = size]
        /\ g_signals' = [g_signals EXCEPT ![1 - g1] = [n |-> 0, closed |-> FALSE]]
        /\ sig' = [sig EXCEPT ![t].g1 = g1]
  /\ Goto(t, "addlast")
  /\ UNCHANGED <<g1_start, lock, g_refs, wrefs, my, obs, then, ghosts>>

\* It is reopened, its slot becomes G2's, and the waiters of the old G2 are
\* G1.  (One action: waiters look at __g_signals or at __wseq, never at both.)
Switch(t) ==
  /\ pc[t] = "switch"
  /\ LET g1 == 1 - sig[t].g1
         size == wseq.n - g1_start.n
     IN /\ wseq' = [wseq EXCEPT !.g2 = 1 - @]
        /\ orig_size' = size
        /\ g_size' = [g_size EXCEPT ![g1] = @ + size]
        /\ g_signals' = [g_signals EXCEPT ![1 - g1] = [n |-> 0, closed |-> FALSE]]
        /\ IF g_size[g1] + size = 0
             THEN lock' = NoThread /\ Return(t)
             ELSE /\ sig' = [sig EXCEPT ![t].g1 = g1]
                  /\ Goto(t, "addlast") /\ UNCHANGED <<lock, then>>
  /\ UNCHANGED <<g1_start, g_refs, wrefs, my, obs, ghosts>>

-----------------------------------------------------------------------------
\* pthread_cond_destroy: the program has woken all waiters, and the last to
\* be back lets it return.
Destroy(t) ==
  /\ pc[t] = "program" /\ t \in Signalers /\ "destroy" \in Features
  /\ ~wrefs.wake
  /\ \A s \in Signalers : pc[s] = "program"
  /\ \A w \in Waiters : \/ ~Waiting(w) /\ my[w].out = "woken"
                        \/ w \in due
  /\ wrefs' = [wrefs EXCEPT !.wake = TRUE]
  /\ Goto(t, "destroy")
  /\ UNCHANGED <<wseq, g1_start, orig_size, lock, g_signals, g_refs, g_size, locals, ghosts>>

\* Mutant of DestroyWait: waits for the group references, not for __wrefs.
DestroyWaitsForGroups(t) ==
  /\ pc[t] = "destroy"
  /\ LET used == \E g \in Slots : g_refs[g].n # 0
     IN /\ Goto(t, IF used THEN "destroyasleep" ELSE "program")
        /\ destroyed' = ~used
  /\ UNCHANGED <<wseq, g1_start, orig_size, lock, g_signals, g_refs, g_size, wrefs, locals, owed, due,
                 stray>>

DestroyWait(t) ==
  /\ pc[t] = "destroy"
  /\ Goto(t, IF wrefs.n # 0 THEN "destroyasleep" ELSE "program")
  /\ destroyed' = (wrefs.n = 0)
  /\ UNCHANGED <<wseq, g1_start, orig_size, lock, g_signals, g_refs, g_size, wrefs, locals, owed, due,
                 stray>>

\* A futex wait of a waiter is interrupted.
Interrupted(t) ==
  /\ pc[t] = "asleep" /\ "interrupt" \in Features
  /\ Goto(t, "unref")
  /\ UNCHANGED <<wseq, g1_start, orig_size, lock, g_signals, g_refs, g_size, wrefs, locals, ghosts>>

Next == \E t \in Threads :
  \/ Wait(t) \/ LoadSignals(t) \/ GroupRef(t) \/ IsClosed(t) \/ IsOver(t)
  \/ FutexWait(t) \/ Unref(t) \/ WakeSignalers(t)
  \/ Taken(t) \/ GiveBack(t) \/ StillG1(t) \/ PutSignal(t) \/ PutWake(t)
  \/ Confirm(t) \/ WakeDestroyer(t)
  \/ TimedOut(t) \/ Cancelled(t) \/ CancelWaiting(t) \/ Interrupted(t)
  \/ \E all \in BOOLEAN : Call(t, all)
  \/ SignalLock(t) \/ Add(t) \/ WakeG1(t) \/ SignalWake(t)
  \/ Quiesce(t) \/ Refs(t) \/ RefsWait(t) \/ Advance(t) \/ Switch(t)
  \/ Destroy(t) \/ DestroyWait(t)

Spec == Init /\ [][Next]_vars

Symmetry == Permutations(Waiters)

-----------------------------------------------------------------------------
\* What the variables hold.
TypeOK ==
  /\ wseq \in [n : 0..MaxWseq, g2 : Slots] /\ g1_start \in [n : 0..MaxWseq, g2 : Slots]
  /\ orig_size \in 0..MaxWseq /\ lock \in Threads \cup {NoThread}
  /\ g_signals \in [Slots -> [n : Nat, closed : BOOLEAN]]
  /\ g_refs \in [Slots -> [n : 0..Cardinality(Waiters), wake : BOOLEAN]]
  /\ g_size \in [Slots -> -MaxGroupSize..MaxWseq]
  /\ wrefs \in [n : 0..Cardinality(Waiters), wake : BOOLEAN]
  /\ owed \in [must : SUBSET Waiters, may : SUBSET Waiters] /\ due \subseteq Waiters
  /\ stray \in BOOLEAN /\ destroyed \in BOOLEAN

\* Nothing in the library can go on: the threads are in the program, asleep,
\* or in need of a lock somebody holds.
Quiet ==
  \A t \in Threads :
    \/ pc[t] \in {"program", "ended", "asleep", "refsasleep", "destroyasleep"}
    \/ pc[t] \in {"lock", "cancel"} /\ lock # NoThread

\* The accounting by which signals find waiters: when nobody is in the middle
\* of anything, __g_size of G1 is the number of waiters asleep in G1, and the
\* size computed for G2 (positions given out, less those who left) the number
\* asleep in G2.  So a signal is only ever added for a waiter, through time-outs,
\* cancellations, overflow of the size, and signals stolen by waiters of an
\* older group in the same slot and put back.
SizesExact ==
  /\ TypeOK
  /\ Quiet /\ ~stray =>
       LET asleep(g) == Cardinality(AsleepOn(g))
           g2 == wseq.g2
       IN /\ asleep(1 - g2) = g_size[1 - g2]
          /\ asleep(g2) = wseq.n - g1_start.n - orig_size + g_size[g2]

\* A signal wakes somebody: of the waiters that were blocked when
\* pthread_cond_signal was called (and were not served already) one returns
\* woken, or a waiter that came while the call was running does, or all of them
\* gave up by themselves.  In particular a waiter that times out or is cancelled
\* never takes the signal with it.  A broadcast wakes every waiter that was
\* blocked when it was called.
SignalWakes == Quiet /\ ~stray => owed.must = {} /\ due = {}

\* Nobody waits for ever but for signals: a signaler waiting for the references
\* to G1 to go (with the lock held, and others queued up behind it) and a thread
\* in pthread_cond_destroy always get their wake-up.
CallsReturn == Quiet => \A t \in Threads : pc[t] \in {"program", "ended", "asleep"}

\* Once pthread_cond_destroy has returned, no waiter touches the condition
\* variable (but for the futex wake-up that let it return).
NoAccessAfterDestroy ==
  destroyed => \A t \in Threads : pc[t] \in {"program", "ended", "wakedestroyer"}

\* The same as SignalWakes for every behaviour: putting a signal back that was
\* perhaps not stolen can "at worst" cause a spurious wake-up.
SignalNotLost == Quiet => owed.must = {}
=============================================================================
