------------------------------- MODULE SetXid -------------------------------
(***************************************************************************)
(* How setuid and its relatives change the credentials of every thread:    *)
(* Linux keeps them per thread, so __nptl_setxid makes each thread repeat  *)
(* the system call in a signal handler (nptl/nptl_setxid.c).  The threads  *)
(* meanwhile start, create others and exit (start_thread in                *)
(* nptl/pthread_create.c, get_cached_stack and allocate_stack in           *)
(* nptl/allocatestack.c, __nptl_free_tcb).  dl_stack_cache_lock is a lock  *)
(* as specified by Lock; its short sections are single steps.              *)
(***************************************************************************)
EXTENDS Integers, FiniteSets

CONSTANTS Threads,     \* places for threads
          Main,        \* the initial thread
          Masters,     \* those that create and join threads and call setxid
          NoThread,
          AwaitStillborn  \* may a call find a descriptor whose thread never starts?

ASSUME SetXidAssumption ==
  /\ Main \in Threads /\ NoThread \notin Threads /\ IsFiniteSet(Threads)
  /\ Masters \subseteq Threads
  /\ AwaitStillborn \in BOOLEAN

VARIABLES futex,     \* setxid_futex: -1 not cloned, -2 and awaited, 0 marked or new, 1 done
          flags,     \* cancelhandling: EXITING and SETXID
          used,      \* dl_stack_used and dl_stack_user
          holder,    \* who has dl_stack_cache_lock
          xidcmd,    \* the command: counter, error and the ID to set
          todo,      \* the rest of the list the caller walks
          cur,       \* the thread it is at
          signalled,
          ids,       \* the credentials of a thread, in the kernel
          pending,   \* threads with SIGSETXID pending
          pc,
          hpc,       \* where a thread is in the signal handler
          child,     \* the descriptor a thread creates a thread in
          arg,       \* the ID a thread sets
          called,    \* the bound: who has called __nptl_setxid, which each does once
          lost,      \* history: a signal could not be queued
          aborted    \* history: setxid_error has called abort

vars == <<futex, flags, used, holder, xidcmd, todo, cur, signalled, ids, pending, pc, hpc,
          child, arg, called, lost, aborted>>

Descriptors == <<futex, flags, used>>
Walk == <<todo, cur, signalled>>
Program == <<child, arg>>
Ghost == <<called, lost, aborted>>
Ids == {0, 1}  \* 0 may become anything, 1 only itself

NoCommand == [cntr |-> 0, error |-> -1, id |-> 0]

Alive(t) == pc[t] \notin {"none", "embryo", "dead"}

\* All signals are blocked around the clone, in both threads.
Blocked(t) == pc[t] \in {"clone", "start", "startwake"}

Goto(t, place) == pc' = [pc EXCEPT ![t] = place]

\* The descriptor leaves the list; what it held is set anew when it is reused.
Freed(t) ==
  /\ used' = used \ {t}
  /\ futex' = [futex EXCEPT ![t] = 0]
  /\ flags' = [flags EXCEPT ![t] = {}]
  /\ ids' = [ids EXCEPT ![t] = 0]

Init ==
  /\ futex = [t \in Threads |-> 0]
  /\ flags = [t \in Threads |-> {}]
  /\ used = {Main}
  /\ holder = NoThread
  /\ xidcmd = NoCommand
  /\ todo = {} /\ cur = NoThread /\ signalled = FALSE
  /\ ids = [t \in Threads |-> 0]
  /\ pending = {}
  /\ pc = [t \in Threads |-> IF t = Main THEN "run" ELSE "none"]
  /\ hpc = [t \in Threads |-> "no"]
  /\ child = [t \in Threads |-> NoThread]
  /\ arg = [t \in Threads |-> 0]
  /\ called = {} /\ lost = FALSE /\ aborted = FALSE

\* The system call, made by t: whether it succeeds depends on what t is now,
\* and setxid_error aborts if it went otherwise in another thread.
SyscallError(t, id) == IF ids[t] \in {0, id} THEN 0 ELSE 1

Syscall(t, id) ==
  /\ ids' = IF SyscallError(t, id) = 0 THEN [ids EXCEPT ![t] = id] ELSE ids
  /\ aborted' = (aborted \/ xidcmd.error \notin {-1, SyscallError(t, id)})

-----------------------------------------------------------------------------
\* Creating a thread, and its start.

\* allocate_stack; then signals are blocked and clone is about to create the
\* thread, or has failed.  A thread that exits at once because of
\* setup_failed, before it allows setxid, is one that was never started.
AllocateStack(a, t) ==
  /\ a \in Masters /\ pc[a] = "run" /\ pc[t] = "none" /\ holder = NoThread
  /\ futex' = [futex EXCEPT ![t] = -1]
  /\ used' = used \cup {t}
  /\ child' = [child EXCEPT ![a] = t]
  /\ \/ pc' = [pc EXCEPT ![a] = "clone", ![t] = "embryo"]
     \/ /\ AwaitStillborn \/ \A u \in Threads : pc[u] # "lock"
        /\ pc' = [pc EXCEPT ![a] = "undo", ![t] = "embryo"]
  /\ UNCHANGED <<flags, holder, xidcmd, Walk, ids, pending, hpc, arg, Ghost>>

\* clone: the new thread has the credentials of its creator.
Clone(a) ==
  /\ pc[a] = "clone"
  /\ ids' = [ids EXCEPT ![child[a]] = ids[a]]
  /\ pc' = [pc EXCEPT ![a] = "run", ![child[a]] = "start"]
  /\ child' = [child EXCEPT ![a] = NoThread]
  /\ UNCHANGED <<futex, flags, used, holder, xidcmd, Walk, pending, hpc, arg, Ghost>>

\* __nptl_deallocate_stack, when the thread could not be created.
DeallocateStack(a) ==
  /\ pc[a] = "undo" /\ holder = NoThread
  /\ Freed(child[a])
  /\ pc' = [pc EXCEPT ![a] = "run", ![child[a]] = "none"]
  /\ child' = [child EXCEPT ![a] = NoThread]
  /\ UNCHANGED <<holder, xidcmd, Walk, pending, hpc, arg, Ghost>>

\* start_thread allows setxid; signals are unblocked only then.
Start(t) ==
  /\ pc[t] = "start"
  /\ futex' = [futex EXCEPT ![t] = 0]
  /\ Goto(t, IF futex[t] = -2 THEN "startwake" ELSE "run")
  /\ UNCHANGED <<flags, used, holder, xidcmd, Walk, ids, pending, hpc, child, arg, Ghost>>

StartWake(t) ==
  /\ pc[t] = "startwake"
  /\ pc' = [u \in Threads |->
              IF u = t THEN "run"
              ELSE IF pc[u] = "markasleep" /\ cur = t THEN "markwait" ELSE pc[u]]
  /\ UNCHANGED <<futex, flags, used, holder, xidcmd, Walk, ids, pending, hpc, child, arg, Ghost>>
-----------------------------------------------------------------------------
\* The end of a thread.

\* start_thread, the thread's function has returned.
Exit(t) ==
  /\ pc[t] = "run" /\ t # Main
  /\ flags' = [flags EXCEPT ![t] = @ \cup {"EXITING"}]
  /\ Goto(t, "exit")
  /\ UNCHANGED <<futex, used, holder, xidcmd, Walk, ids, pending, hpc, Program, Ghost>>

\* Is an answer expected?  Asked once before the wait and again after each.
ExitTest(t) ==
  /\ pc[t] \in {"exit", "exitagain"}
  /\ Goto(t, IF "SETXID" \in flags[t] THEN "exitwait"
             ELSE IF pc[t] = "exit" THEN "gone" ELSE "exitreset")
  /\ UNCHANGED <<Descriptors, holder, xidcmd, Walk, ids, pending, hpc, Program, Ghost>>

ExitWait(t) ==
  /\ pc[t] = "exitwait"
  /\ Goto(t, IF futex[t] = 0 THEN "exitasleep" ELSE "exitagain")
  /\ UNCHANGED <<Descriptors, holder, xidcmd, Walk, ids, pending, hpc, Program, Ghost>>

ExitReset(t) ==
  /\ pc[t] = "exitreset"
  /\ futex' = [futex EXCEPT ![t] = 0]
  /\ Goto(t, "gone")
  /\ UNCHANGED <<flags, used, holder, xidcmd, Walk, ids, pending, hpc, Program, Ghost>>

\* __nptl_free_tcb of a detached thread, and the exit system call.
ExitDetached(t) ==
  /\ pc[t] = "gone" /\ holder = NoThread
  /\ Freed(t)
  /\ Goto(t, "none")
  /\ pending' = pending \ {t}
  /\ UNCHANGED <<holder, xidcmd, Walk, hpc, Program, Ghost>>

\* The exit of a joinable thread leaves its descriptor in the list.
ExitJoinable(t) ==
  /\ pc[t] = "gone"
  /\ Goto(t, "dead")
  /\ pending' = pending \ {t}
  /\ UNCHANGED <<Descriptors, holder, xidcmd, Walk, ids, hpc, Program, Ghost>>

\* pthread_join frees the descriptor.
Join(a, t) ==
  /\ a \in Masters /\ pc[a] = "run" /\ pc[t] = "dead" /\ holder = NoThread
  /\ Freed(t)
  /\ Goto(t, "none")
  /\ UNCHANGED <<holder, xidcmd, Walk, pending, hpc, Program, Ghost>>

-----------------------------------------------------------------------------
\* __nptl_setxid_sighandler.

\* Delivery, the system call and setxid_error.  A wait is interrupted.
Sighandler(t) ==
  /\ t \in pending /\ hpc[t] = "no" /\ ~Blocked(t)
  /\ pending' = pending \ {t}
  /\ Syscall(t, xidcmd.id)
  /\ xidcmd' = [xidcmd EXCEPT !.error = SyscallError(t, xidcmd.id)]
  /\ hpc' = [hpc EXCEPT ![t] = "release"]
  /\ pc' = IF pc[t] = "exitasleep" THEN [pc EXCEPT ![t] = "exitagain"] ELSE pc
  /\ UNCHANGED <<Descriptors, holder, Walk, Program, called, lost>>

\* Reset the flag and release the futex: nobody looks at either before the
\* handler has counted down.
HandlerRelease(t) ==
  /\ hpc[t] = "release"
  /\ flags' = [flags EXCEPT ![t] = @ \ {"SETXID"}]
  /\ futex' = [futex EXCEPT ![t] = 1]
  /\ hpc' = [hpc EXCEPT ![t] = "count"]
  /\ UNCHANGED <<used, holder, xidcmd, Walk, ids, pending, pc, Program, Ghost>>

HandlerCount(t) ==
  /\ hpc[t] = "count"
  /\ xidcmd' = [xidcmd EXCEPT !.cntr = @ - 1]
  /\ hpc' = [hpc EXCEPT ![t] = IF xidcmd.cntr = 1 THEN "wake" ELSE "no"]
  /\ UNCHANGED <<Descriptors, holder, Walk, ids, pending, pc, Program, Ghost>>

HandlerWake(t) ==
  /\ hpc[t] = "wake"
  /\ pc' = [u \in Threads |-> IF pc[u] = "cntrasleep" THEN "signal" ELSE pc[u]]
  /\ hpc' = [hpc EXCEPT ![t] = "no"]
  /\ UNCHANGED <<Descriptors, holder, xidcmd, Walk, ids, pending, Program, Ghost>>

-----------------------------------------------------------------------------
\* __nptl_setxid.

\* The program calls setuid or a relative of it.
Call(a) ==
  /\ a \in Masters /\ pc[a] = "run" /\ a \notin called
  /\ AwaitStillborn \/ \A u \in Threads : pc[u] # "undo"
  /\ called' = called \cup {a}
  /\ \E id \in Ids : arg' = [arg EXCEPT ![a] = id]
  /\ Goto(a, "lock")
  /\ UNCHANGED <<Descriptors, holder, xidcmd, Walk, ids, pending, hpc, child, lost, aborted>>

Lock(a) ==
  /\ pc[a] = "lock" /\ holder = NoThread
  /\ holder' = a
  /\ xidcmd' = [cntr |-> 0, error |-> -1, id |-> arg[a]]
  /\ todo' = used \ {a}
  /\ Goto(a, "mark")
  /\ UNCHANGED <<Descriptors, cur, signalled, ids, pending, hpc, Program, Ghost>>

\* Mutant of MarkNext: a thread that is not cloned yet is passed over.
MarkSkip(a) ==
  /\ pc[a] = "mark" /\ todo # {}
  /\ \E t \in todo :
       /\ todo' = todo \ {t} /\ cur' = t
       /\ Goto(a, IF futex[t] = -1 THEN "mark" ELSE "markhold")
  /\ UNCHANGED <<Descriptors, holder, xidcmd, signalled, ids, pending, hpc, Program, Ghost>>

\* setxid_mark_thread: the next thread is awaited if it is not cloned yet.
MarkNext(a) ==
  /\ pc[a] = "mark" /\ todo # {}
  /\ \E t \in todo :
       /\ todo' = todo \ {t} /\ cur' = t
       /\ futex' = IF futex[t] = -1 THEN [futex EXCEPT ![t] = -2] ELSE futex
       /\ Goto(a, IF futex[t] = -1 THEN "markwait" ELSE "markhold")
  /\ UNCHANGED <<flags, used, holder, xidcmd, signalled, ids, pending, hpc, Program, Ghost>>

\* Wait until the thread is cloned.
MarkWait(a) ==
  /\ pc[a] = "markwait"
  /\ Goto(a, IF futex[cur] = -2 THEN "markasleep" ELSE "markhold")
  /\ UNCHANGED <<Descriptors, holder, xidcmd, Walk, ids, pending, hpc, Program, Ghost>>

\* From here the thread does not exit before its handler has run.
MarkHold(a) ==
  /\ pc[a] = "markhold"
  /\ futex' = [futex EXCEPT ![cur] = 0]
  /\ Goto(a, "markflag")
  /\ UNCHANGED <<flags, used, holder, xidcmd, Walk, ids, pending, hpc, Program, Ghost>>

\* Mutant of MarkFlag: the walk ends at a thread that exits.
MarkBreak(a) ==
  /\ pc[a] = "markflag"
  /\ Goto(a, "mark")
  /\ IF "EXITING" \in flags[cur]
       THEN todo' = {} /\ UNCHANGED flags
       ELSE flags' = [flags EXCEPT ![cur] = @ \cup {"SETXID"}] /\ UNCHANGED todo
  /\ UNCHANGED <<futex, used, holder, xidcmd, cur, signalled, ids, pending, hpc, Program, Ghost>>

\* A thread that exits is ignored, and let go unless another call waits for it.
MarkFlag(a) ==
  /\ pc[a] = "markflag"
  /\ IF "EXITING" \in flags[cur]
       THEN /\ Goto(a, IF "SETXID" \in flags[cur] THEN "mark" ELSE "markrelease")
            /\ UNCHANGED flags
       ELSE /\ flags' = [flags EXCEPT ![cur] = @ \cup {"SETXID"}]
            /\ Goto(a, "mark")
  /\ UNCHANGED <<futex, used, holder, xidcmd, Walk, ids, pending, hpc, Program, Ghost>>

\* setxid_futex = 1, of a thread that exits or that could not be signalled.
Release(a) ==
  /\ pc[a] \in {"markrelease", "unmarkrelease"}
  /\ futex' = [futex EXCEPT ![cur] = 1]
  /\ Goto(a, IF pc[a] = "markrelease" THEN "markwake" ELSE "unmarkwake")
  /\ UNCHANGED <<flags, used, holder, xidcmd, Walk, ids, pending, hpc, Program, Ghost>>

ReleaseWake(a) ==
  /\ pc[a] \in {"markwake", "unmarkwake"}
  /\ pc' = [u \in Threads |->
              IF u = a THEN IF pc[a] = "markwake" THEN "mark" ELSE "unmark"
              ELSE IF u = cur /\ pc[u] = "exitasleep" THEN "exitagain" ELSE pc[u]]
  /\ UNCHANGED <<Descriptors, holder, xidcmd, Walk, ids, pending, hpc, Program, Ghost>>

SignalsSent(a) == pc[a] = "signal" /\ todo = {}

\* Start a round of signals: after the marks, and as long as the last round
\* signalled somebody and everybody has answered.
SignalRound(a) ==
  /\ \/ pc[a] = "mark" /\ todo = {}
     \/ SignalsSent(a) /\ xidcmd.cntr = 0 /\ signalled
  /\ todo' = used \ {a} /\ cur' = NoThread
  /\ signalled' = FALSE
  /\ Goto(a, "signal")
  /\ UNCHANGED <<Descriptors, holder, xidcmd, ids, pending, hpc, Program, Ghost>>

\* setxid_signal_thread; the kernel may be out of signal queue entries (for
\* one signal, in the last call).
Signal(a) ==
  /\ pc[a] = "signal" /\ todo # {}
  /\ \E t \in todo :
       /\ todo' = todo \ {t}
       /\ \/ /\ "SETXID" \in flags[t] /\ Alive(t)
             /\ pending' = pending \cup {t}
             /\ Goto(a, "count")
             /\ UNCHANGED lost
          \/ /\ "SETXID" \in flags[t] /\ Alive(t) /\ ~lost /\ called = Masters
             /\ lost' = TRUE
             /\ UNCHANGED <<pending, pc>>
          \/ /\ ~("SETXID" \in flags[t] /\ Alive(t))
             /\ UNCHANGED <<pending, pc, lost>>
  /\ UNCHANGED <<Descriptors, holder, xidcmd, cur, signalled, ids, hpc, Program, called, aborted>>

SignalCount(a) ==
  /\ pc[a] = "count"
  /\ xidcmd' = [xidcmd EXCEPT !.cntr = @ + 1]
  /\ signalled' = TRUE
  /\ Goto(a, "signal")
  /\ UNCHANGED <<Descriptors, holder, todo, cur, ids, pending, hpc, Program, Ghost>>

\* Everybody has been signalled: wait until the counter is zero.
WaitAnswers(a) ==
  /\ SignalsSent(a) /\ xidcmd.cntr # 0
  /\ Goto(a, "cntrasleep")
  /\ UNCHANGED <<Descriptors, holder, xidcmd, Walk, ids, pending, hpc, Program, Ghost>>

\* Mutant of Unmark: answers are not awaited.
UnmarkAtOnce(a) ==
  /\ SignalsSent(a)
  /\ todo' = used \ {a}
  /\ Goto(a, "unmark")
  /\ UNCHANGED <<Descriptors, holder, xidcmd, cur, signalled, ids, pending, hpc, Program, Ghost>>

\* All have answered and nobody was signalled in this round.
Unmark(a) ==
  /\ SignalsSent(a) /\ xidcmd.cntr = 0 /\ ~signalled
  /\ todo' = used \ {a}
  /\ Goto(a, "unmark")
  /\ UNCHANGED <<Descriptors, holder, xidcmd, cur, signalled, ids, pending, hpc, Program, Ghost>>

\* Mutant of UnmarkNext: the flags are not cleaned up.
UnmarkNothing(a) ==
  /\ pc[a] = "unmark" /\ todo # {}
  /\ todo' = {}
  /\ UNCHANGED <<Descriptors, holder, xidcmd, cur, signalled, ids, pending, pc, hpc, Program, Ghost>>

\* setxid_unmark_thread.
UnmarkNext(a) ==
  /\ pc[a] = "unmark" /\ todo # {}
  /\ \E t \in todo :
       /\ todo' = todo \ {t} /\ cur' = t
       /\ flags' = [flags EXCEPT ![t] = @ \ {"SETXID"}]
       /\ Goto(a, IF "SETXID" \in flags[t] THEN "unmarkrelease" ELSE "unmark")
  /\ UNCHANGED <<futex, used, holder, xidcmd, signalled, ids, pending, hpc, Program, Ghost>>

\* The system call of the caller itself, which must be last, and the return.
SetSelf(a) ==
  /\ pc[a] = "unmark" /\ todo = {}
  /\ Syscall(a, arg[a])
  /\ holder' = NoThread
  /\ xidcmd' = NoCommand /\ cur' = NoThread /\ arg' = [arg EXCEPT ![a] = 0]
  /\ Goto(a, "run")
  /\ UNCHANGED <<Descriptors, todo, signalled, pending, hpc, child, called, lost>>

-----------------------------------------------------------------------------
SetXid(a) ==
  \/ Lock(a) \/ MarkNext(a) \/ MarkWait(a) \/ MarkHold(a) \/ MarkFlag(a)
  \/ Release(a) \/ ReleaseWake(a) \/ SignalRound(a) \/ Signal(a) \/ SignalCount(a)
  \/ WaitAnswers(a) \/ Unmark(a) \/ UnmarkNext(a) \/ SetSelf(a)

\* What a thread does on its own while no handler runs in it.
Body(t) ==
  \/ Clone(t) \/ DeallocateStack(t) \/ Start(t) \/ StartWake(t)
  \/ ExitTest(t) \/ ExitWait(t) \/ ExitReset(t) \/ ExitDetached(t) \/ ExitJoinable(t)
  \/ SetXid(t)

Handler(t) ==
  Sighandler(t) \/ HandlerRelease(t) \/ HandlerCount(t) \/ HandlerWake(t)

Run(t) == (hpc[t] = "no" /\ Body(t)) \/ Handler(t)

\* Calls of the program.
Calls(t) ==
  hpc[t] = "no" /\ (Exit(t) \/ Call(t) \/ \E u \in Threads : AllocateStack(t, u) \/ Join(t, u))

Next == \E t \in Threads : Run(t) \/ Calls(t)

\* A thread in the library is scheduled, and a pending signal is delivered.
Fairness == \A t \in Threads : WF_vars(Run(t))

Spec == Init /\ [][Next]_vars /\ Fairness

-----------------------------------------------------------------------------
Places ==
  {"none", "embryo", "dead", "run", "clone", "undo", "start", "startwake",
   "exit", "exitwait", "exitasleep", "exitagain", "exitreset", "gone",
   "lock", "mark", "markwait", "markasleep", "markhold", "markflag", "markrelease",
   "markwake", "signal", "count", "cntrasleep", "unmark", "unmarkrelease",
   "unmarkwake"}

\* The fields of the descriptors and of the command keep to the values the
\* code gives them; the counter may be below zero, since a handler may be
\* done before its signal is counted, but never when it is waited for.
TypeOK ==
  /\ futex \in [Threads -> {-2, -1, 0, 1}]
  /\ flags \in [Threads -> SUBSET {"EXITING", "SETXID"}]
  /\ used \subseteq Threads /\ todo \subseteq used /\ pending \subseteq Threads
  /\ holder \in Threads \cup {NoThread} /\ cur \in Threads \cup {NoThread}
  /\ xidcmd \in [cntr : -1 .. Cardinality(Threads), error : {-1, 0, 1}, id : Ids]
  /\ \A t \in Threads : pc[t] = "cntrasleep" => xidcmd.cntr >= 0
  /\ ids \in [Threads -> Ids] /\ arg \in [Threads -> Ids]
  /\ pc \in [Threads -> Places]
  /\ hpc \in [Threads -> {"no", "release", "count", "wake"}]
  /\ child \in [Threads -> Threads \cup {NoThread}]
  /\ called \subseteq Masters /\ {signalled, lost, aborted} \subseteq BOOLEAN

\* When no call is in progress, all threads have the same credentials: those
\* that ran, those that were just being created when __nptl_setxid walked the
\* list, and their children, "automatically correct once started".  Only
\* threads that are exiting are left out, and signals that were not queued.
CredentialsAgree ==
  /\ TypeOK
  /\ holder = NoThread /\ ~lost =>
       \A t, u \in Threads :
         Alive(t) /\ Alive(u) /\ "EXITING" \notin flags[t] \cup flags[u] => ids[t] = ids[u]

\* setxid_error never aborts: the calls of a command succeed in all threads or
\* fail in all of them, whatever the calls before it did.
NoMismatch == ~lost => ~aborted

\* The command is on the stack of the caller of __nptl_setxid and the handler
\* reaches it through a global pointer: as long as a handler has not counted
\* down, that caller is still waiting for it.
HandlerSeesCommand ==
  \A t \in Threads :
    t \in pending \/ hpc[t] \in {"release", "count"} =>
      holder # NoThread /\ holder # t /\ pc[holder] \in {"signal", "count", "cntrasleep"}

\* __nptl_setxid returns, though it waits for threads that start and for
\* answers from threads that exit, and a thread that exits is not held up
\* for ever by the answer it owes, or thinks it owes.
SetxidAndExitReturn ==
  \A t \in Threads :
    (pc[t] \notin {"run", "none", "embryo", "dead"}) ~> (pc[t] \in {"run", "none", "dead"})
=============================================================================
