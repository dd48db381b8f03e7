------------------------------ MODULE NewSem64 ------------------------------
(***************************************************************************)
(* The semaphore of nptl for machines with 64-bit atomics: value and       *)
(* nwaiters are one word, data (nptl/sem_post.c, nptl/sem_waitcommon.c,    *)
(* nptl/sem_wait.c).  One action per atomic access or system call.         *)
(*                                                                         *)
(* The client posts MaxPosts tokens in all.  When every one of them has    *)
(* been taken, no sem_wait is executing and every sem_post has provided    *)
(* its token, it destroys the semaphore and reuses the memory for a new    *)
(* one, as POSIX allows.                                                   *)
(***************************************************************************)
EXTENDS Integers, FiniteSets

CONSTANTS Threads,
          SEM_VALUE_MAX,
          MaxPosts,     \* tokens posted in the life of one semaphore
          LateCancel    \* may cancellation hit a thread that was just woken?

ASSUME SemAssumption ==
  /\ IsFiniteSet(Threads)
  /\ SEM_VALUE_MAX \in Nat \ {0}
  /\ MaxPosts \in Nat
  /\ LateCancel \in BOOLEAN

VARIABLES data,     \* [v |-> tokens, n |-> nwaiters]
          pc,
          d,        \* each thread's copy of data
          waiting,  \* threads inside sem_wait, as the client sees it
          posting,  \* threads inside sem_post that have not provided the token
          posts,    \* sem_post calls that are left
          taken,    \* tokens taken
          alive     \* the memory of the semaphore has not been freed

vars == <<data, pc, d, waiting, posting, posts, taken, alive>>

Touching == {"fast", "try", "enter", "wait", "reload", "cas", "leave", "post"}

\* A registered waiter that is awake and will look at data again.
Awake == {"reload", "cas"}

Client == <<waiting, posting, posts, taken, alive>>

Unread == [v |-> 0, n |-> 0]

\* The copy of data is kept only where a compare-and-swap will use it.
Goto(t, place) ==
  /\ pc' = [pc EXCEPT ![t] = place]
  /\ d' = [d EXCEPT ![t] = IF place \in {"fast", "try", "cas", "post"}
                            THEN data ELSE Unread]

Init ==
  /\ data = [v |-> 0, n |-> 0]
  /\ pc = [t \in Threads |-> "idle"]
  /\ d = [t \in Threads |-> Unread]
  /\ waiting = {}
  /\ posting = {}
  /\ posts = MaxPosts
  /\ taken = 0
  /\ alive = TRUE

\* The call returns with a token.
ReturnToken(t) ==
  /\ Goto(t, "idle")
  /\ waiting' = waiting \ {t}
  /\ taken' = taken + 1
  /\ UNCHANGED <<posting, posts, alive>>

ReturnError(t) ==
  /\ Goto(t, "idle")
  /\ waiting' = waiting \ {t}
  /\ UNCHANGED <<posting, posts, taken, alive>>

-----------------------------------------------------------------------------
\* sem_wait or sem_timedwait: first load of __new_sem_wait_fast.
SemWait(t) ==
  /\ pc[t] = "idle"
  /\ alive
  /\ waiting' = waiting \cup {t}
  /\ Goto(t, IF data.v = 0 THEN "enter" ELSE "fast")
  /\ UNCHANGED <<data, posting, posts, taken, alive>>

\* sem_trywait; a call that loads 0 changes nothing.
SemTrywait(t) ==
  /\ pc[t] = "idle"
  /\ alive
  /\ data.v # 0
  /\ waiting' = waiting \cup {t}
  /\ Goto(t, "try")
  /\ UNCHANGED <<data, posting, posts, taken, alive>>

\* __new_sem_wait_fast with definitive_result = 0: one weak compare-and-swap,
\* which may fail although data has not changed.
WaitFast(t) ==
  /\ pc[t] = "fast"
  /\ \/ /\ data = d[t]
        /\ data' = [data EXCEPT !.v = @ - 1]
        /\ ReturnToken(t)
     \/ /\ Goto(t, "enter")
        /\ UNCHANGED <<data, Client>>

\* The same loop with definitive_result = 1.
TryFast(t) ==
  /\ pc[t] = "try"
  /\ \/ /\ data = d[t]
        /\ data' = [data EXCEPT !.v = @ - 1]
        /\ ReturnToken(t)
     \/ /\ data # d[t]
        /\ IF data.v = 0 THEN ReturnError(t) ELSE Goto(t, "try") /\ UNCHANGED Client
        /\ UNCHANGED data

\* Where the loop of __new_sem_wait_slow64 goes with the value it loaded.
LoopPlace == IF data.v = 0 THEN "wait" ELSE "cas"

\* __new_sem_wait_slow64 registers a waiter; d is the word before the addition.
SlowEnter(t) ==
  /\ pc[t] = "enter"
  /\ data' = [data EXCEPT !.n = @ + 1]
  /\ Goto(t, LoopPlace)
  /\ UNCHANGED Client

\* do_futex_wait on the value half: sleep if it is 0, else EAGAIN.
FutexWait(t) ==
  /\ pc[t] = "wait"
  /\ Goto(t, IF data.v = 0 THEN "blocked" ELSE "reload")
  /\ UNCHANGED <<data, Client>>

SpuriousWake(t) ==
  /\ pc[t] = "blocked"
  /\ Goto(t, "reload")
  /\ UNCHANGED <<data, Client>>

\* do_futex_wait returns ETIMEDOUT, EINTR or EOVERFLOW.
WaitFails(t) ==
  /\ pc[t] \in {"wait", "blocked"}
  /\ Goto(t, "leave")
  /\ UNCHANGED <<data, Client>>

\* Cancellation runs __sem_wait_cleanup.  It is asynchronous around the system
\* call, so it can also hit after the thread was woken and before
\* LIBC_CANCEL_RESET.
Cancel(t) ==
  /\ pc[t] \in {"wait", "blocked"} \cup (IF LateCancel THEN {"reload"} ELSE {})
  /\ Goto(t, "leave")
  /\ UNCHANGED <<data, Client>>

\* "d = atomic_load_relaxed (&sem->data)" after the wait.
Reload(t) ==
  /\ pc[t] = "reload"
  /\ Goto(t, LoopPlace)
  /\ UNCHANGED <<data, Client>>

\* Take a token and stop being a waiter in one compare-and-swap.
SlowTake(t) ==
  /\ pc[t] = "cas"
  /\ IF data = d[t]
       THEN /\ data' = [v |-> data.v - 1, n |-> data.n - 1]
            /\ ReturnToken(t)
       ELSE /\ Goto(t, LoopPlace)
            /\ UNCHANGED <<data, Client>>

\* Mutant of Leave: the waiter stays registered.
LeaveRegistered(t) ==
  /\ pc[t] = "leave"
  /\ UNCHANGED data
  /\ ReturnError(t)

\* The error path of the wait, and __sem_wait_cleanup.
Leave(t) ==
  /\ pc[t] = "leave"
  /\ data' = [data EXCEPT !.n = @ - 1]
  /\ ReturnError(t)

\* __new_sem_post: the load; a call that loads the maximum fails with EOVERFLOW
\* and changes nothing.
SemPost(t) ==
  /\ pc[t] = "idle"
  /\ alive
  /\ posts > 0
  /\ data.v # SEM_VALUE_MAX
  /\ Goto(t, "post")
  /\ posting' = posting \cup {t}
  /\ posts' = posts - 1
  /\ UNCHANGED <<data, waiting, taken, alive>>

\* Mutant of PostCas: wakes a waiter only when the value was 0.
PostWakesFromZero(t) ==
  /\ pc[t] = "post"
  /\ UNCHANGED <<waiting, taken, alive, posts>>
  /\ IF data = d[t]
       THEN /\ data' = [data EXCEPT !.v = @ + 1]
            /\ posting' = posting \ {t}
            /\ Goto(t, IF d[t].n > 0 /\ d[t].v = 0 THEN "wake" ELSE "idle")
       ELSE /\ data.v # SEM_VALUE_MAX
            /\ Goto(t, "post")
            /\ UNCHANGED <<data, posting>>

\* The compare-and-swap that provides the token; on failure the overflow test
\* is made again.
PostCas(t) ==
  /\ pc[t] = "post"
  /\ UNCHANGED <<waiting, taken, alive>>
  /\ \/ /\ data = d[t]
        /\ data' = [data EXCEPT !.v = @ + 1]
        /\ posting' = posting \ {t}
        /\ Goto(t, IF d[t].n > 0 THEN "wake" ELSE "idle")
        /\ UNCHANGED posts
     \/ /\ data # d[t]
        /\ IF data.v = SEM_VALUE_MAX
             THEN /\ Goto(t, "idle")
                  /\ posting' = posting \ {t}
                  /\ posts' = posts + 1
             ELSE Goto(t, "post") /\ UNCHANGED <<posting, posts>>
        /\ UNCHANGED data

\* Mutant of PostWake: looks at the semaphore again after the wake.
PostWakeThenLooks(t) ==
  /\ pc[t] = "wake"
  /\ \/ \E s \in Threads :
          /\ pc[s] = "blocked"
          /\ pc' = [pc EXCEPT ![t] = "enter", ![s] = "reload"]
     \/ /\ \A s \in Threads : pc[s] # "blocked"
        /\ Goto(t, "enter")
  /\ UNCHANGED <<data, d, Client>>

\* futex_wake (value, 1): an address, not an access.
PostWake(t) ==
  /\ pc[t] = "wake"
  /\ \/ \E s \in Threads :
          /\ pc[s] = "blocked"
          /\ pc' = [pc EXCEPT ![t] = "idle", ![s] = "reload"]
          /\ UNCHANGED d
     \/ /\ \A s \in Threads : pc[s] # "blocked"
        /\ Goto(t, "idle")
  /\ UNCHANGED <<data, Client>>

-----------------------------------------------------------------------------
Destroy ==
  /\ alive
  /\ taken = MaxPosts
  /\ waiting = {} /\ posting = {}
  /\ alive' = FALSE
  /\ UNCHANGED <<data, pc, d, waiting, posting, posts, taken>>

Reuse ==
  /\ ~alive
  /\ alive' = TRUE
  /\ data' = [v |-> 0, n |-> 0]
  /\ posts' = MaxPosts
  /\ taken' = 0
  /\ UNCHANGED <<pc, d, waiting, posting>>

Run(t) ==
  \/ WaitFast(t) \/ TryFast(t) \/ SlowEnter(t) \/ FutexWait(t) \/ Reload(t)
  \/ SlowTake(t) \/ Leave(t) \/ PostCas(t) \/ PostWake(t)

Next ==
  \/ \E t \in Threads :
       \/ SemWait(t) \/ SemTrywait(t) \/ SemPost(t) \/ Run(t)
       \/ SpuriousWake(t) \/ WaitFails(t) \/ Cancel(t)
  \/ Destroy
  \/ Reuse

\* Runnable threads are scheduled; calls, failures and spurious wake-ups need
\* never happen.
Fairness == \A t \in Threads : WF_vars(Run(t))

Spec == Init /\ [][Next]_vars /\ Fairness

-----------------------------------------------------------------------------
Word == [v : 0 .. SEM_VALUE_MAX, n : 0 .. Cardinality(Threads)]

\* Types: in particular sem_post never takes the value past SEM_VALUE_MAX.
TypeOK ==
  /\ data \in Word
  /\ d \in [Threads -> Word]
  /\ pc \in [Threads -> Touching \cup {"idle", "blocked", "wake"}]
  /\ waiting \in SUBSET Threads /\ posting \in SUBSET Threads
  /\ posts \in 0 .. MaxPosts /\ taken \in 0 .. MaxPosts
  /\ alive \in BOOLEAN

Registered == {t \in Threads : pc[t] \in {"wait", "blocked", "reload", "cas", "leave"}}

\* nwaiters counts the registered waiters exactly, through every failure,
\* cancellation and successful wait.
NwaitersExact ==
  /\ TypeOK
  /\ alive => data.n = Cardinality(Registered)

\* The destruction requirement in the comment of sem_waitcommon.c: sem_post
\* "must not access the semaphore struct anymore after it has made a token
\* available".
NoAccessAfterDestroy ==
  ~alive => \A t \in Threads : pc[t] \notin Touching

\* The comment of sem_waitcommon.c: "sem_wait grabs a token from the semaphore,
\* potentially waiting until there is a token available".  A sem_wait that
\* sleeps does not sleep for ever next to a token nobody else is taking.
TokenEventuallySeen ==
  (data.v > 0 /\ \E t \in Threads : pc[t] = "blocked")
    ~> (data.v = 0 \/ \A t \in Threads : pc[t] # "blocked")

S == INSTANCE Semaphore WITH value <- data.v

\* The semaphore implements the abstract one: every step that changes the value
\* is a Post or a Take, and a waiter takes an available token.
ImplementsSemaphore == S!Spec
=============================================================================
