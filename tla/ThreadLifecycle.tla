--------------------------- MODULE ThreadLifecycle ---------------------------
(***************************************************************************)
(* The life of a thread descriptor (struct pthread, with the stack it is   *)
(* on): pthread_create, start_thread, pthread_join and its variants,       *)
(* pthread_detach, pthread_kill, __nptl_free_tcb and the stack cache       *)
(* (nptl/pthread_create.c, pthread_join_common.c, pthread_detach.c,        *)
(* pthread_kill.c, nptl_free_tcb.c, nptl-stack.c, allocatestack.c).  One   *)
(* action per shared access; pd->lock and pd->exit_lock are locks as       *)
(* specified by Lock, the stack cache lock makes its sections atomic.      *)
(*                                                                         *)
(* The program is a correct one: a thread ID is used by one thread at a    *)
(* time and, once it has been joined or detached, no more.                 *)
(***************************************************************************)
EXTENDS Integers, FiniteSets

CONSTANTS Pds,        \* places for descriptors
          Main,       \* the initial thread, whose descriptor is never freed
          MaxGen,     \* bound on the threads a place is used for
          MaxCache,   \* __nptl_stack_cache_maxsize, in stacks
          NoThread,   \* the null pointer
          TwoJoiners, \* does the program call pthread_join twice at a time?
          SlowDetach  \* may pthread_detach be delayed past the thread's exit?

ASSUME LifecycleAssumption ==
  /\ IsFiniteSet(Pds) /\ Main \notin Pds /\ NoThread \notin Pds \cup {Main}
  /\ MaxGen \in Nat /\ MaxCache \in Nat
  /\ TwoJoiners \in BOOLEAN /\ SlowDetach \in BOOLEAN

VARIABLES pd,        \* the descriptors
          used,      \* dl_stack_used
          cache,     \* dl_stack_cache: its stacks, each with those queued after it
          nthreads,  \* __nptl_nthreads
          pc,        \* "none": no such kernel thread
          tgt,       \* the descriptor a call works on: place and generation
          gen,       \* history: how many threads a place has been used for
          handle,    \* the program's discipline: may the thread ID be used?
          exited     \* exit (0) was called

vars == <<pd, used, cache, nthreads, pc, tgt, gen, handle, exited>>

Threads == Pds \cup {Main}
Stacks == <<used, cache>>
Shared == <<pd, used, cache, nthreads>>
Ghost == <<gen, exited>>

Cached == DOMAIN cache
Mapped == used \cup Cached

FreshPd == [tid |-> 0, joinid |-> NoThread, cancelhandling |-> {}, exiting |-> FALSE,
            exit_lock |-> FALSE, stopped_start |-> FALSE, setup_failed |-> FALSE,
            lock |-> FALSE]

NoTarget == [p |-> NoThread, g |-> 0]

Goto(a, place) == pc' = [pc EXCEPT ![a] = place]

\* Back in the program after a call; s is what may be done with the ID now.
Return(a, s) ==
  /\ Goto(a, "run")
  /\ tgt' = [tgt EXCEPT ![a] = NoTarget]
  /\ handle' = [handle EXCEPT ![tgt[a].p] = s]

Init ==
  /\ pd = [p \in Pds |-> FreshPd]
  /\ used = {} /\ cache = [p \in {} |-> {}]
  /\ nthreads = 1
  /\ pc = [a \in Threads |-> IF a = Main THEN "run" ELSE "none"]
  /\ tgt = [a \in Threads |-> NoTarget]
  /\ gen = [p \in Pds |-> 0]
  /\ handle = [p \in Pds |-> "closed"]
  /\ exited = FALSE

IS_DETACHED(p) == pd[p].joinid = p

\* Mutant of Reusable: does not look at tid.
ReusableAtOnce(p) == pd[p].tid <= 1

\* __nptl_stack_in_use, which tells when a stack is not in use any more.
Reusable(p) == pd[p].tid <= 0

-----------------------------------------------------------------------------
\* The list without some of its stacks.
Unlist(list, gone) == [p \in DOMAIN list \ gone |-> list[p] \ gone]

\* get_cached_stack: the most recent cached stack that is free, else a new mapping.
Allocatable(p) ==
  LET free == {q \in Cached : Reusable(q)} IN
  IF free # {} THEN p \in free /\ cache[p] \cap free = {}
               ELSE p \notin Mapped

\* allocate_stack: a new mapping is zero, a cached descriptor keeps tid and joinid.
AllocateStack(a, p) ==
  /\ pc[a] = "run"
  /\ Allocatable(p)
  /\ gen[p] < MaxGen
  /\ pd' = [pd EXCEPT ![p] = IF p \in Cached
                               THEN [FreshPd EXCEPT !.tid = pd[p].tid, !.joinid = pd[p].joinid]
                               ELSE FreshPd]
  /\ used' = used \cup {p}
  /\ cache' = Unlist(cache, {p})
  /\ gen' = [gen EXCEPT ![p] = @ + 1]
  /\ handle' = [handle EXCEPT ![p] = "closed"]
  /\ tgt' = [tgt EXCEPT ![a] = [p |-> p, g |-> gen[p] + 1]]
  /\ Goto(a, "create")
  /\ UNCHANGED <<nthreads, exited>>

\* mprot_error: the guard cannot be set up and the stack is unmapped.
GuardFails(a) ==
  /\ pc[a] = "create"
  /\ used' = used \ {tgt[a].p}
  /\ Return(a, "closed")
  /\ UNCHANGED <<pd, cache, nthreads, Ghost>>

\* Mutant of CreateThread: the new thread is not counted.
CreateUncounted(a) ==
  /\ pc[a] = "create"
  /\ pd' = [pd EXCEPT ![tgt[a].p].joinid = NoThread]
  /\ Goto(a, "clone")
  /\ UNCHANGED <<Stacks, nthreads, tgt, handle, Ghost>>

\* pthread_create up to the clone: the thread is detached or not, it is
\* counted, and pd->lock is taken if it has to start stopped.
CreateThread(a) ==
  LET p == tgt[a].p IN
  /\ pc[a] = "create"
  /\ \E detached, stopped \in BOOLEAN :
       pd' = [pd EXCEPT ![p].joinid = IF detached THEN p ELSE NoThread,
                        ![p].stopped_start = stopped,
                        ![p].lock = stopped]
  /\ nthreads' = nthreads + 1
  /\ Goto(a, "clone")
  /\ UNCHANGED <<Stacks, tgt, handle, Ghost>>

\* create_thread: clone.  The creator of a thread that does not start stopped
\* has lost the descriptor with it.
Clone(a) ==
  LET p == tgt[a].p IN
  /\ pc[a] = "clone"
  /\ pd' = [pd EXCEPT ![p].tid = 1]
  /\ pc' = [pc EXCEPT ![p] = "start",
                      ![a] = IF pd[p].stopped_start THEN "setup" ELSE "run"]
  /\ IF pd[p].stopped_start
       THEN UNCHANGED <<tgt, handle>>
       ELSE /\ tgt' = [tgt EXCEPT ![a] = NoTarget]
            /\ handle' = [handle EXCEPT ![p] = IF IS_DETACHED(p) THEN "closed" ELSE "open"]
  /\ UNCHANGED <<Stacks, nthreads, Ghost>>

CloneFails(a) ==
  /\ pc[a] = "clone"
  /\ Goto(a, "undo")
  /\ UNCHANGED <<Shared, tgt, handle, Ghost>>

\* Affinity and scheduling are set: let the thread run.
SetupDone(a) ==
  LET p == tgt[a].p IN
  /\ pc[a] = "setup"
  /\ pd' = [pd EXCEPT ![p].lock = FALSE]
  /\ Return(a, IF IS_DETACHED(p) THEN "closed" ELSE "open")
  /\ UNCHANGED <<Stacks, nthreads, Ghost>>

\* They cannot be set: tell the thread to go away, and wait for its end.
SetupFails(a) ==
  LET p == tgt[a].p IN
  /\ pc[a] = "setup"
  /\ pd' = [pd EXCEPT ![p].setup_failed = TRUE, ![p].lock = FALSE]
  /\ Goto(a, "failload")
  /\ UNCHANGED <<Stacks, nthreads, tgt, handle, Ghost>>

FailLoad(a) ==
  /\ pc[a] = "failload"
  /\ Goto(a, IF pd[tgt[a].p].tid = 0 THEN "undo" ELSE "failwait")
  /\ UNCHANGED <<Shared, tgt, handle, Ghost>>

\* "Oops, we lied for a second."
CreateUndo(a) ==
  /\ pc[a] = "undo"
  /\ nthreads' = nthreads - 1
  /\ Goto(a, "dealloc")
  /\ UNCHANGED <<pd, Stacks, tgt, handle, Ghost>>

-----------------------------------------------------------------------------
\* start_thread: a stopped thread gets pd->lock, and learns whether to go on.
Start(t) ==
  /\ pc[t] = "start"
  /\ pd[t].stopped_start => ~pd[t].lock
  /\ IF pd[t].stopped_start /\ pd[t].setup_failed
       THEN pd' = [pd EXCEPT ![t].joinid = NoThread] /\ Goto(t, "exit")
       ELSE UNCHANGED pd /\ Goto(t, "run")
  /\ UNCHANGED <<Stacks, nthreads, tgt, handle, Ghost>>

\* The start routine returns, calls pthread_exit or acts upon a cancellation.
Finish(t) ==
  /\ t \in Pds /\ pc[t] = "run"
  /\ Goto(t, "ending")
  /\ UNCHANGED <<Shared, tgt, handle, Ghost>>

SetExiting(t) ==
  /\ pc[t] = "ending"
  /\ pd' = [pd EXCEPT ![t].cancelhandling = @ \cup {"EXITING"}]
  /\ Goto(t, "dec")
  /\ UNCHANGED <<Stacks, nthreads, tgt, handle, Ghost>>

\* One thread less; the last one calls exit (0).
DecrementThreads(t) ==
  /\ pc[t] = "dec"
  /\ nthreads' = nthreads - 1
  /\ exited' = (nthreads = 1)
  /\ Goto(t, IF nthreads = 1 THEN "processexit" ELSE "exitlock")
  /\ UNCHANGED <<pd, Stacks, tgt, handle, gen>>

\* Mutant of SetNoKill: does not take exit_lock.
SetNoKillUnlocked(t) ==
  /\ pc[t] = "exitlock"
  /\ pd' = [pd EXCEPT ![t].exiting = TRUE]
  /\ Goto(t, "checkdetached")
  /\ UNCHANGED <<Stacks, nthreads, tgt, handle, Ghost>>

\* "Tell __pthread_kill_internal that this thread is about to exit."
SetNoKill(t) ==
  /\ pc[t] = "exitlock"
  /\ ~pd[t].exit_lock
  /\ pd' = [pd EXCEPT ![t].exiting = TRUE]
  /\ Goto(t, "checkdetached")
  /\ UNCHANGED <<Stacks, nthreads, tgt, handle, Ghost>>

\* "If the thread is detached free the TCB."
CheckDetached(t) ==
  /\ pc[t] = "checkdetached"
  /\ Goto(t, IF IS_DETACHED(t) THEN "freetcb" ELSE "exit")
  /\ tgt' = [tgt EXCEPT ![t] = [p |-> t, g |-> gen[t]]]
  /\ UNCHANGED <<Shared, handle, Ghost>>

\* __libc_start_call_main after pthread_exit in the initial thread.
MainExits ==
  /\ pc[Main] = "run"
  /\ nthreads' = nthreads - 1
  /\ exited' = (nthreads = 1)
  /\ Goto(Main, IF nthreads = 1 THEN "processexit" ELSE "none")
  /\ UNCHANGED <<pd, Stacks, tgt, gen, handle>>

\* The exit system call: the kernel clears tid and wakes one waiter.
KernelExit(t) ==
  LET waiters == {a \in Threads : pc[a] \in {"joinblocked", "failblocked"}
                                  /\ tgt[a] = [p |-> t, g |-> gen[t]]}
      awake(a) == IF pc[a] = "joinblocked" THEN "joinload" ELSE "failload"
  IN
  /\ pc[t] = "exit"
  /\ SlowDetach \/ ~\E a \in Threads \ {t} :
                      pc[a] \in {"detachcheck", "freetcb"} /\ tgt[a].p = t
  /\ pd' = [pd EXCEPT ![t].tid = 0]
  /\ \/ \E a \in waiters : pc' = [pc EXCEPT ![t] = "none", ![a] = awake(a)]
     \/ waiters = {} /\ Goto(t, "none")
  /\ tgt' = [tgt EXCEPT ![t] = NoTarget]
  /\ UNCHANGED <<Stacks, nthreads, handle, Ghost>>

-----------------------------------------------------------------------------
\* The program may use the ID of p.
MayUse(a, p) == pc[a] = "run" /\ handle[p] = "open"

Enter(a, p, place) ==
  /\ Goto(a, place)
  /\ tgt' = [tgt EXCEPT ![a] = [p |-> p, g |-> gen[p]]]
  /\ handle' = [handle EXCEPT ![p] = "busy"]

InJoin == {"joinload", "joinwait", "joinblocked"}

\* __pthread_clockjoin_ex: ESRCH, EINVAL and EDEADLK change nothing.  The
\* compare-and-swap on joinid expects the caller and stores NULL.  Programs
\* whose threads join each other in a circle are not considered.
Join(a, p) ==
  /\ MayUse(a, p) \/ (TwoJoiners /\ pc[a] = "run"
                      /\ \E b \in Threads : pc[b] \in InJoin /\ tgt[b].p = p)
  /\ pd[p].tid >= 0
  /\ ~IS_DETACHED(p)
  /\ a # p
  /\ pd[p].joinid # a
  /\ ~(pc[p] \in InJoin /\ tgt[p].p = a)
  /\ Enter(a, p, "joinload")
  /\ UNCHANGED <<Shared, Ghost>>

\* pthread_tryjoin_np: EBUSY unless the thread has ended.
TryJoin(a, p) ==
  /\ MayUse(a, p)
  /\ pd[p].tid = 0
  /\ ~IS_DETACHED(p)
  /\ Enter(a, p, "joinfinish")
  /\ UNCHANGED <<Shared, Ghost>>

\* Mutant of JoinLoad: waits for the value that marks a joined thread.
JoinLoadWaitsForJoined(a) ==
  /\ pc[a] = "joinload"
  /\ Goto(a, IF pd[tgt[a].p].tid = -1 THEN "joinfinish" ELSE "joinwait")
  /\ UNCHANGED <<Shared, tgt, handle, Ghost>>

JoinLoad(a) ==
  /\ pc[a] = "joinload"
  /\ Goto(a, IF pd[tgt[a].p].tid = 0 THEN "joinfinish" ELSE "joinwait")
  /\ UNCHANGED <<Shared, tgt, handle, Ghost>>

\* __futex_abstimed_wait_cancelable64 on tid, of both waiting loops.
TidWait(a) ==
  /\ pc[a] \in {"joinwait", "failwait"}
  /\ Goto(a, CASE pc[a] = "joinwait" -> IF pd[tgt[a].p].tid = 0 THEN "joinload" ELSE "joinblocked"
               [] pc[a] = "failwait" -> IF pd[tgt[a].p].tid = 0 THEN "failload" ELSE "failblocked")
  /\ UNCHANGED <<Shared, tgt, handle, Ghost>>

\* pthread_timedjoin_np gives up and stores NULL in joinid.
JoinTimesOut(a) ==
  /\ pc[a] \in {"joinwait", "joinblocked"}
  /\ pd' = [pd EXCEPT ![tgt[a].p].joinid = NoThread]
  /\ Return(a, "open")
  /\ UNCHANGED <<Stacks, nthreads, Ghost>>

\* The joiner is cancelled.  cleanup works on a copy of joinid.
JoinCancelled(a) ==
  /\ a \in Pds
  /\ pc[a] \in {"joinwait", "joinblocked"}
  /\ Goto(a, "ending")
  /\ tgt' = [tgt EXCEPT ![a] = NoTarget]
  /\ handle' = [handle EXCEPT ![tgt[a].p] = "open"]
  /\ UNCHANGED <<Shared, Ghost>>

\* "We mark the thread as terminated and as joined."
JoinFinish(a) ==
  /\ pc[a] = "joinfinish"
  /\ pd' = [pd EXCEPT ![tgt[a].p].tid = -1]
  /\ Goto(a, "freetcb")
  /\ UNCHANGED <<Stacks, nthreads, tgt, handle, Ghost>>

\* pthread_detach: the compare-and-swap on joinid.
Detach(a, p) ==
  /\ MayUse(a, p)
  /\ pd[p].tid >= 0
  /\ pd[p].joinid = NoThread
  /\ pd' = [pd EXCEPT ![p].joinid = p]
  /\ Enter(a, p, "detachcheck")
  /\ UNCHANGED <<Stacks, nthreads, Ghost>>

\* Mutant of DetachCheck: leaves the descriptor to a thread that is past its
\* own test.
DetachNeverFrees(a) ==
  /\ pc[a] = "detachcheck"
  /\ Return(a, "closed")
  /\ UNCHANGED <<Shared, Ghost>>

\* "Check whether the thread terminated meanwhile."
DetachCheck(a) ==
  /\ pc[a] = "detachcheck"
  /\ IF "EXITING" \in pd[tgt[a].p].cancelhandling
       THEN Goto(a, "freetcb") /\ UNCHANGED <<tgt, handle>>
       ELSE Return(a, "closed")
  /\ UNCHANGED <<Shared, Ghost>>

\* __pthread_kill_implementation for another thread.
Kill(a, p) ==
  /\ MayUse(a, p) /\ a # p
  /\ ~pd[p].exit_lock
  /\ pd' = [pd EXCEPT ![p].exit_lock = TRUE]
  /\ Enter(a, p, IF pd[p].exiting THEN "killunlock" ELSE "killsend")
  /\ UNCHANGED <<Stacks, nthreads, Ghost>>

KillSend(a) ==
  /\ pc[a] = "killsend"
  /\ Goto(a, "killunlock")
  /\ UNCHANGED <<Shared, tgt, handle, Ghost>>

KillUnlock(a) ==
  /\ pc[a] = "killunlock"
  /\ pd' = [pd EXCEPT ![tgt[a].p].exit_lock = FALSE]
  /\ Return(a, "open")
  /\ UNCHANGED <<Stacks, nthreads, Ghost>>

-----------------------------------------------------------------------------
\* After a descriptor was freed: the thread itself exits, others go on.
AfterFree(a) ==
  IF tgt[a].p = a THEN Goto(a, "exit") /\ UNCHANGED <<tgt, handle>>
                  ELSE Return(a, "closed")

\* Mutant of FreeTcb: TERMINATED is set and not tested.
FreeTcbTwice(a) ==
  /\ pc[a] = "freetcb"
  /\ pd' = [pd EXCEPT ![tgt[a].p].cancelhandling = @ \cup {"TERMINATED"}]
  /\ Goto(a, "dealloc")
  /\ UNCHANGED <<Stacks, nthreads, tgt, handle, Ghost>>

\* __nptl_free_tcb: whoever sets TERMINATED first frees the descriptor.
FreeTcb(a) ==
  LET p == tgt[a].p IN
  /\ pc[a] = "freetcb"
  /\ pd' = [pd EXCEPT ![p].cancelhandling = @ \cup {"TERMINATED"}]
  /\ IF "TERMINATED" \in pd[p].cancelhandling
       THEN AfterFree(a)
       ELSE Goto(a, "dealloc") /\ UNCHANGED <<tgt, handle>>
  /\ UNCHANGED <<Stacks, nthreads, Ghost>>

\* __nptl_free_stacks: from the end of the list, unmap stacks that are not in
\* use until the size is below the limit.
FreeStacks(list) ==
  LET free == {p \in DOMAIN list : Reusable(p)}
      older(p) == {q \in free : p \in list[q]}
      excess == Cardinality(DOMAIN list) - MaxCache
  IN Unlist(list, {p \in free : Cardinality(older(p)) < excess})

\* __nptl_deallocate_stack with queue_stack.
DeallocateStack(a) ==
  LET p == tgt[a].p IN
  /\ pc[a] = "dealloc"
  /\ used' = used \ {p}
  /\ cache' = FreeStacks([q \in Cached \cup {p} |-> IF q = p THEN {} ELSE cache[q] \cup {p}])
  /\ AfterFree(a)
  /\ UNCHANGED <<pd, nthreads, Ghost>>

-----------------------------------------------------------------------------
\* exit does not return; the last stages of other threads go on meanwhile.
ProcessGone == exited /\ UNCHANGED vars

Run(a) ==
  \/ CreateThread(a) \/ Clone(a) \/ SetupDone(a) \/ FailLoad(a) \/ CreateUndo(a)
  \/ Start(a) \/ SetExiting(a) \/ DecrementThreads(a) \/ SetNoKill(a) \/ CheckDetached(a)
  \/ KernelExit(a) \/ JoinLoad(a) \/ TidWait(a) \/ JoinFinish(a) \/ DetachCheck(a)
  \/ KillSend(a) \/ KillUnlock(a) \/ FreeTcb(a) \/ DeallocateStack(a)

Next ==
  \/ \E a \in Threads :
       \/ Run(a) \/ GuardFails(a) \/ CloneFails(a) \/ SetupFails(a) \/ Finish(a)
       \/ JoinTimesOut(a) \/ JoinCancelled(a)
       \/ \E p \in Pds : \/ AllocateStack(a, p) \/ Join(a, p) \/ TryJoin(a, p)
                         \/ Detach(a, p) \/ Kill(a, p)
  \/ MainExits
  \/ ProcessGone

\* A thread inside the library is scheduled; what the program calls, and
\* whether its threads end, is up to the program.
Fairness == \A a \in Threads : WF_vars(Run(a))

Spec == Init /\ [][Next]_vars /\ Fairness

-----------------------------------------------------------------------------
\* Types: a descriptor is in the list of used stacks or at one place of the cache,
\* never both.
TypeOK ==
  /\ pd \in [Pds -> [tid : {-1, 0, 1}, joinid : Threads \cup {NoThread},
                     cancelhandling : SUBSET {"EXITING", "TERMINATED"}, exiting : BOOLEAN,
                     exit_lock : BOOLEAN, stopped_start : BOOLEAN,
                     setup_failed : BOOLEAN, lock : BOOLEAN]]
  /\ used \subseteq Pds /\ Cached \subseteq Pds \ used
  /\ cache \in [Cached -> SUBSET Cached] /\ \A p \in Cached : p \notin cache[p]
  /\ nthreads \in 0 .. Cardinality(Threads) * 2
  /\ tgt \in [Threads -> [p : Pds, g : 1 .. MaxGen] \cup {NoTarget}]
  /\ gen \in [Pds -> 0 .. MaxGen]
  /\ handle \in [Pds -> {"closed", "open", "busy"}]
  /\ exited \in BOOLEAN

\* Places at which the next step of a call accesses the descriptor it works on.
Touching == {"create", "clone", "setup", "failload", "failwait", "undo", "dealloc", "joinload",
             "joinwait", "joinfinish", "detachcheck", "killsend", "killunlock", "freetcb"}

\* A call never accesses a descriptor whose memory was unmapped or belongs to
\* another thread by now: the ownership rules of the CONCURRENCY NOTES in
\* pthread_create.c, and the order of the accesses in pthread_join.  In
\* particular "each thread control block is freed only once"
\* (pthread_detach.c): a stack that is queued for reuse was in use, by the
\* thread it is freed for, and nobody else is freeing it.
OwnDescriptor ==
  /\ TypeOK
  /\ \A a \in Threads : pc[a] \in Touching =>
       tgt[a].p \in Mapped /\ tgt[a].g = gen[tgt[a].p]
  /\ \A a \in Threads : pc[a] = "dealloc" =>
       /\ tgt[a].p \in used
       /\ \A b \in Threads : pc[b] = "dealloc" /\ tgt[b].p = tgt[a].p => b = a

\* The stack of a thread that the kernel still runs is neither unmapped nor
\* available to pthread_create, although a detached thread queues it itself.
RunningStackIsKept ==
  \A t \in Pds : pc[t] # "none" => t \in used \/ (t \in Cached /\ ~Reusable(t))

\* pthread_kill sends its signal while the thread it is for still exists, so
\* that the tid has not been reused: the exit_lock handshake.
SignalReachesThread ==
  \A a \in Threads : pc[a] = "killsend" => pc[tgt[a].p] # "none"

\* A detached thread that has ended is not leaked: its stack was queued, or a
\* pthread_detach that saw it end is about to do that.
DetachedIsReclaimed ==
  \A p \in used : pc[p] = "none" /\ IS_DETACHED(p) =>
    \E a \in Threads : tgt[a] = [p |-> p, g |-> gen[p]] /\ pc[a] \in Touching

\* exit (0) is called by the last thread: when it is, no other thread is in the
\* program or on its way into it, through failed creations as well, and when
\* all threads have ended, it has been.
LastThreadEndsProcess ==
  /\ exited => \A a \in Threads :
                 pc[a] \in {"none", "processexit", "exitlock", "checkdetached", "freetcb",
                            "dealloc", "exit"}
  /\ (\A a \in Threads : pc[a] = "none") => exited

\* "There can only be one waiter" (pthread_join_common.c).
OneWaiter ==
  \A a, b \in Threads : pc[a] \in InJoin /\ pc[b] \in InJoin /\ tgt[a] = tgt[b] => a = b

\* pthread_join, and a pthread_create that waits for a thread it could not set
\* up, return after the thread has ended: the wake-up is not lost.
WaitForEndReturns ==
  \A a \in Threads :
    pc[a] \in InJoin \cup {"failload", "failwait", "failblocked"}
    /\ tgt[a].p \in Pds /\ pc[tgt[a].p] = "none"
      ~> pc[a] \notin InJoin \cup {"failload", "failwait", "failblocked"}
=============================================================================
