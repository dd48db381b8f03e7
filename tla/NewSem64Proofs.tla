--------------------------- MODULE NewSem64Proofs ---------------------------
(* Machine-checked proofs about NewSem64, for any finite set of threads, any *)
(* SEM_VALUE_MAX, any number of posts and with or without late cancellation. *)
EXTENDS NewSem64, FiniteSetTheorems, TLAPS

\* The places inside sem_wait, sem_timedwait and sem_trywait.
Inside == {"fast", "try", "enter", "wait", "blocked", "reload", "cas", "leave"}

\* What the client knows is where the threads are.
ClientKnows ==
  /\ waiting = {t \in Threads : pc[t] \in Inside}
  /\ posting = {t \in Threads : pc[t] = "post"}

\* A copy of data that a compare-and-swap will use was good when it was loaded.
CopyIsGood ==
  \A t \in Threads :
    /\ pc[t] \in {"fast", "try", "cas"} => d[t].v > 0
    /\ pc[t] = "post" => d[t].v < SEM_VALUE_MAX

\* No token is lost or made up: each one is still to be posted, about to be
\* provided, available or taken.
TokensConserved ==
  posts + Cardinality(posting) + data.v + taken = MaxPosts

\* nwaiters stays exact even when the memory has been freed.
WaitersCounted ==
  data.n = Cardinality(Registered)

\* The memory is freed when nobody is inside and all the tokens are taken.
FreedIsUnused ==
  ~alive => waiting = {} /\ posting = {} /\ taken = MaxPosts

\* The inductive invariant.
IInv ==
  /\ TypeOK
  /\ ClientKnows
  /\ CopyIsGood
  /\ TokensConserved
  /\ WaitersCounted
  /\ FreedIsUnused

-----------------------------------------------------------------------------
\* A set of threads has a size.
LEMMA CountBound ==
  ASSUME NEW A \in SUBSET Threads
  PROVE  /\ IsFiniteSet(A)
         /\ Cardinality(A) \in Nat
         /\ Cardinality(A) \in 0 .. Cardinality(Threads)
<1>1. IsFiniteSet(Threads) /\ IsFiniteSet(A) /\ Cardinality(A) <= Cardinality(Threads)
  BY SemAssumption, FS_Subset
<1>2. Cardinality(A) \in Nat /\ Cardinality(Threads) \in Nat
  BY <1>1, FS_CardinalityType
<1> QED
  BY <1>1, <1>2

\* The size of a set of threads, with one thread more or less.
LEMMA Counting ==
  ASSUME NEW A \in SUBSET Threads, NEW t \in Threads
  PROVE  /\ t \notin A => Cardinality(A \cup {t}) = Cardinality(A) + 1
         /\ t \in A => Cardinality(A \ {t}) = Cardinality(A) - 1
BY CountBound, FS_AddElement, FS_RemoveElement

\* A step of a thread.
Step(t) ==
  \/ SemWait(t) \/ SemTrywait(t) \/ SemPost(t) \/ Run(t)
  \/ SpuriousWake(t) \/ WaitFails(t) \/ Cancel(t)

\* A call is in progress for the client exactly while its thread is inside.
LEMMA ClientKnowsStep ==
  ASSUME TypeOK, ClientKnows, FreedIsUnused, NEW t \in Threads, Step(t)
  PROVE  ClientKnows'
<1>1. CASE SemWait(t) \/ SemTrywait(t) \/ SemPost(t)
  BY <1>1 DEF TypeOK, ClientKnows, Inside, Goto, SemWait, SemTrywait, SemPost
<1>2. CASE WaitFast(t) \/ TryFast(t) \/ SlowTake(t) \/ Leave(t)
  BY <1>2 DEF TypeOK, ClientKnows, Inside, Goto, Client, ReturnToken, ReturnError, LoopPlace,
              WaitFast, TryFast, SlowTake, Leave
<1>3. CASE SlowEnter(t) \/ FutexWait(t) \/ Reload(t)
  BY <1>3 DEF TypeOK, ClientKnows, Inside, Goto, Client, LoopPlace, SlowEnter, FutexWait, Reload
<1>4. CASE SpuriousWake(t) \/ WaitFails(t) \/ Cancel(t)
  BY <1>4 DEF TypeOK, ClientKnows, Inside, Goto, Client, SpuriousWake, WaitFails, Cancel
<1>5. CASE PostCas(t)
  BY <1>5 DEF TypeOK, ClientKnows, Inside, Goto, PostCas
<1>6. CASE PostWake(t)
  BY <1>6 DEF TypeOK, ClientKnows, Inside, Goto, Client, PostWake
<1> QED
  BY <1>1, <1>2, <1>3, <1>4, <1>5, <1>6 DEF Step, Run

\* A thread goes to a compare-and-swap only with a value that allows it.
LEMMA CopyIsGoodStep ==
  ASSUME TypeOK, CopyIsGood, NEW t \in Threads, Step(t)
  PROVE  CopyIsGood'
<1>1. CASE SemWait(t) \/ SemTrywait(t)
  BY <1>1 DEF TypeOK, Word, CopyIsGood, Goto, SemWait, SemTrywait
<1>2. CASE SemPost(t)
  <2>1. data.v < SEM_VALUE_MAX
    BY <1>2, SemAssumption DEF TypeOK, Word, SemPost
  <2> QED
    BY <1>2, <2>1 DEF TypeOK, CopyIsGood, Goto, SemPost
<1>3. CASE WaitFast(t) \/ TryFast(t) \/ SlowTake(t) \/ Leave(t)
  BY <1>3 DEF TypeOK, Word, CopyIsGood, Goto, Client, ReturnToken, ReturnError, LoopPlace,
              WaitFast, TryFast, SlowTake, Leave
<1>4. CASE SlowEnter(t) \/ FutexWait(t) \/ Reload(t)
  BY <1>4 DEF TypeOK, Word, CopyIsGood, Goto, LoopPlace, SlowEnter, FutexWait, Reload
<1>5. CASE SpuriousWake(t) \/ WaitFails(t) \/ Cancel(t)
  BY <1>5 DEF TypeOK, Word, CopyIsGood, Goto, SpuriousWake, WaitFails, Cancel
<1>6. CASE PostCas(t)
  BY <1>6, SemAssumption DEF TypeOK, Word, CopyIsGood, Goto, PostCas
<1>7. CASE PostWake(t)
  BY <1>7 DEF TypeOK, Word, CopyIsGood, Goto, PostWake
<1> QED
  BY <1>1, <1>2, <1>3, <1>4, <1>5, <1>6, <1>7 DEF Step, Run

\* The value, the tokens that are taken and the posts change together.
LEMMA TokensConservedStep ==
  ASSUME TypeOK, ClientKnows, CopyIsGood, TokensConserved, NEW t \in Threads, Step(t)
  PROVE  TokensConserved' /\ data'.v \in 0 .. SEM_VALUE_MAX /\ posts' \in Nat /\ taken' \in Nat
<1>0. posting \in SUBSET Threads /\ Cardinality(posting) \in Nat
  <2>1. posting \in SUBSET Threads
    BY DEF TypeOK
  <2> QED
    BY <2>1, CountBound
<1>1. CASE SemWait(t) \/ SemTrywait(t)
  BY <1>1 DEF TypeOK, Word, TokensConserved, SemWait, SemTrywait
<1>2. CASE SemPost(t)
  <2>1. posting' = posting \cup {t} /\ t \notin posting
    BY <1>2 DEF ClientKnows, SemPost
  <2>2. Cardinality(posting') = Cardinality(posting) + 1
    BY <1>0, <2>1, Counting
  <2> QED
    BY <1>0, <1>2, <2>2 DEF TypeOK, Word, TokensConserved, SemPost
<1>3. CASE WaitFast(t) \/ TryFast(t) \/ SlowTake(t)
  BY <1>0, <1>3, SemAssumption
     DEF TypeOK, Word, CopyIsGood, TokensConserved, Client, ReturnToken, ReturnError, WaitFast,
         TryFast, SlowTake
<1>4. CASE Leave(t) \/ SlowEnter(t) \/ FutexWait(t) \/ Reload(t)
  BY <1>4 DEF TypeOK, Word, TokensConserved, Client, ReturnError, Leave, SlowEnter, FutexWait, Reload
<1>5. CASE SpuriousWake(t) \/ WaitFails(t) \/ Cancel(t) \/ PostWake(t)
  BY <1>5 DEF TypeOK, Word, TokensConserved, Client, SpuriousWake, WaitFails, Cancel, PostWake
<1>6. CASE PostCas(t)
  <2>1. t \in posting /\ Cardinality(posting \ {t}) = Cardinality(posting) - 1
    BY <1>0, <1>6, Counting DEF ClientKnows, PostCas
  <2>2. CASE posting' = posting \ {t}
    BY <1>0, <1>6, <2>1, <2>2, SemAssumption DEF TypeOK, Word, CopyIsGood, TokensConserved, PostCas
  <2>3. CASE posting' # posting \ {t}
    BY <1>6, <2>3 DEF TypeOK, Word, TokensConserved, PostCas
  <2> QED
    BY <2>2, <2>3
<1> QED
  BY <1>1, <1>2, <1>3, <1>4, <1>5, <1>6 DEF Step, Run

\* nwaiters changes when a thread starts or stops being registered.
LEMMA WaitersCountedStep ==
  ASSUME TypeOK, WaitersCounted, NEW t \in Threads, Step(t)
  PROVE  WaitersCounted'
<1>0. Registered \in SUBSET Threads
  BY DEF Registered
<1>1. CASE SlowEnter(t)
  <2>1. Registered' = Registered \cup {t} /\ t \notin Registered /\ data'.n = data.n + 1
    BY <1>1 DEF TypeOK, Word, Goto, LoopPlace, Registered, SlowEnter
  <2> QED
    BY <1>0, <2>1, Counting DEF WaitersCounted
<1>2. ASSUME Leave(t) \/ (SlowTake(t) /\ data = d[t]) PROVE WaitersCounted'
  <2>1. Registered' = Registered \ {t} /\ t \in Registered /\ data'.n = data.n - 1
    BY <1>2 DEF TypeOK, Word, Goto, ReturnToken, ReturnError, Registered, Leave, SlowTake
  <2> QED
    BY <1>0, <2>1, Counting DEF WaitersCounted
<1>3. ASSUME SlowTake(t), data # d[t] PROVE WaitersCounted'
  BY <1>3 DEF TypeOK, Goto, LoopPlace, Registered, SlowTake, WaitersCounted
<1>4. CASE SemWait(t) \/ SemTrywait(t) \/ SemPost(t)
  BY <1>4 DEF TypeOK, Goto, Registered, WaitersCounted, SemWait, SemTrywait, SemPost
<1>5. CASE WaitFast(t) \/ TryFast(t)
  BY <1>5 DEF TypeOK, Word, Goto, ReturnToken, ReturnError, Registered, WaitersCounted, WaitFast,
              TryFast
<1>6. CASE FutexWait(t) \/ Reload(t) \/ SpuriousWake(t) \/ WaitFails(t) \/ Cancel(t)
  <2>1. Registered' = Registered
    BY <1>6 DEF TypeOK, Goto, LoopPlace, Registered, FutexWait, Reload, SpuriousWake, WaitFails,
                Cancel
  <2>2. data' = data
    BY <1>6 DEF FutexWait, Reload, SpuriousWake, WaitFails, Cancel
  <2> QED
    BY <2>1, <2>2 DEF WaitersCounted
<1>7. CASE PostCas(t)
  BY <1>7 DEF TypeOK, Word, Goto, Registered, WaitersCounted, PostCas
<1>8. CASE PostWake(t)
  BY <1>8 DEF TypeOK, Goto, Registered, WaitersCounted, PostWake
<1> QED
  BY <1>1, <1>2, <1>3, <1>4, <1>5, <1>6, <1>7, <1>8 DEF Step, Run

\* Only the client frees the memory and makes a new semaphore of it.
LEMMA AliveStep ==
  ASSUME NEW t \in Threads, Step(t)
  PROVE  alive' = alive
BY DEF Step, Run, Client, SemWait, SemTrywait, SemPost, WaitFast, TryFast, SlowEnter, FutexWait,
       Reload, SlowTake, Leave, PostCas, PostWake, SpuriousWake, WaitFails, Cancel, ReturnToken,
       ReturnError

\* The types follow, with the bounds of the counters, from what they count.
LEMMA TypeOKStep ==
  ASSUME IInv, NEW t \in Threads, Step(t)
  PROVE  TypeOK'
<1>1. data'.v \in 0 .. SEM_VALUE_MAX /\ data'.n \in 0 .. Cardinality(Threads)
  <2>1. Registered' \in SUBSET Threads
    BY DEF Registered
  <2>2. data'.n = Cardinality(Registered') /\ data'.v \in 0 .. SEM_VALUE_MAX
    BY WaitersCountedStep, TokensConservedStep DEF IInv, WaitersCounted
  <2> QED
    BY <2>1, <2>2, CountBound
<1>2. data' \in Word
  <2>1. data' = [v |-> data'.v, n |-> data'.n]
    BY DEF Step, Run, IInv, TypeOK, Word, Client, SemWait, SemTrywait, SemPost, WaitFast, TryFast,
           SlowEnter, FutexWait, Reload, SlowTake, Leave, PostCas, PostWake, SpuriousWake,
           WaitFails, Cancel
  <2> QED
    BY <1>1, <2>1 DEF Word
<1>3. posts' \in 0 .. MaxPosts /\ taken' \in 0 .. MaxPosts
  <2>1. waiting' \in SUBSET Threads /\ posting' \in SUBSET Threads
    BY ClientKnowsStep DEF IInv, ClientKnows
  <2>2. Cardinality(posting') \in Nat
    BY <2>1, CountBound
  <2> QED
    BY <1>1, <2>2, TokensConservedStep, SemAssumption DEF IInv, TokensConserved
<1>4. d' \in [Threads -> Word] /\ pc' \in [Threads -> Touching \cup {"idle", "blocked", "wake"}]
  <2>1. Unread \in Word
    <3>1. Cardinality(Threads) \in Nat
      BY CountBound
    <3> QED
      BY <3>1, SemAssumption DEF Unread, Word
  <2>2. ASSUME NEW place \in Touching \cup {"idle", "blocked", "wake"}, Goto(t, place)
        PROVE  d' \in [Threads -> Word] /\ pc' \in [Threads -> Touching \cup {"idle", "blocked", "wake"}]
    BY <2>1, <2>2 DEF IInv, TypeOK, Goto
  <2>3. \/ \E place \in Touching \cup {"idle", "blocked", "wake"} : Goto(t, place)
        \/ PostWake(t)
    BY DEF Step, Run, SemWait, SemTrywait, SemPost, WaitFast, TryFast, SlowEnter, FutexWait, Reload,
           SlowTake, Leave, PostCas, SpuriousWake, WaitFails, Cancel, ReturnToken, ReturnError,
           LoopPlace, Touching
  <2>4. CASE PostWake(t)
    BY <2>2, <2>4 DEF IInv, TypeOK, PostWake, Touching
  <2> QED
    BY <2>2, <2>3, <2>4
<1>5. waiting' \in SUBSET Threads /\ posting' \in SUBSET Threads
  BY ClientKnowsStep DEF IInv, ClientKnows
<1>6. alive' = alive
  BY AliveStep
<1> QED
  BY <1>2, <1>3, <1>4, <1>5, <1>6 DEF IInv, TypeOK

\* Nobody enters a semaphore whose memory is freed, so nothing changes in it.
LEMMA FreedIsUnusedStep ==
  ASSUME ClientKnows, FreedIsUnused, NEW t \in Threads, Step(t)
  PROVE  FreedIsUnused'
<1>1. alive' = alive
  BY AliveStep
<1>2. ASSUME ~alive PROVE pc[t] \notin Inside \cup {"post"} /\ PostWake(t)
  <2>1. pc[t] \notin Inside \cup {"post"}
    BY <1>2 DEF ClientKnows, FreedIsUnused
  <2> QED
    BY <1>2, <2>1 DEF Inside, Step, Run, SemWait, SemTrywait, SemPost, WaitFast, TryFast, SlowEnter,
                      FutexWait, Reload, SlowTake, Leave, PostCas, SpuriousWake, WaitFails, Cancel
<1> QED
  BY <1>1, <1>2 DEF FreedIsUnused, PostWake, Client

\* The client destroys a semaphore that nobody uses; a wake-up may be left.
LEMMA DestroyStep ==
  ASSUME IInv, Destroy
  PROVE  IInv'
<1>1. TypeOK' /\ ClientKnows' /\ CopyIsGood'
  BY DEF IInv, TypeOK, Word, ClientKnows, Inside, CopyIsGood, Destroy
<1>2. TokensConserved' /\ WaitersCounted' /\ FreedIsUnused'
  BY DEF IInv, TokensConserved, WaitersCounted, Registered, FreedIsUnused, Destroy
<1> QED
  BY <1>1, <1>2 DEF IInv

\* The memory that is freed is that of a semaphore without tokens and waiters.
LEMMA FreedIsEmpty ==
  ASSUME IInv, ~alive
  PROVE  /\ data = [v |-> 0, n |-> 0]
         /\ Registered = {}
         /\ Cardinality({}) = 0
<1>1. Registered = {} /\ posting = {} /\ taken = MaxPosts
  BY DEF IInv, ClientKnows, FreedIsUnused, Registered, Inside
<1>2. Cardinality({}) = 0
  BY FS_EmptySet
<1>3. data.n = 0
  BY <1>1, <1>2 DEF IInv, WaitersCounted
<1>4. data.v = 0
  <2>1. posts + 0 + data.v + MaxPosts = MaxPosts
    BY <1>1, <1>2 DEF IInv, TokensConserved
  <2>2. posts \in Nat /\ data.v \in Nat
    BY SemAssumption DEF IInv, TypeOK, Word
  <2> QED
    BY <2>1, <2>2, SemAssumption
<1>5. data = [v |-> data.v, n |-> data.n]
  BY DEF IInv, TypeOK, Word
<1> QED
  BY <1>1, <1>2, <1>3, <1>4, <1>5

\* The memory becomes a new semaphore.
LEMMA ReuseStep ==
  ASSUME IInv, Reuse
  PROVE  IInv'
<1>1. data' = data /\ Registered' = Registered /\ posting = {} /\ Cardinality({}) = 0 /\ data.v = 0
  BY FreedIsEmpty DEF IInv, FreedIsUnused, Reuse, Registered
<1>2. TypeOK' /\ ClientKnows' /\ CopyIsGood'
  BY <1>1, SemAssumption DEF IInv, TypeOK, Word, ClientKnows, Inside, CopyIsGood, Reuse
<1>3. TokensConserved' /\ WaitersCounted' /\ FreedIsUnused'
  BY <1>1, SemAssumption DEF IInv, TokensConserved, WaitersCounted, FreedIsUnused, Reuse
<1> QED
  BY <1>2, <1>3 DEF IInv

LEMMA InitIInv ==
  Init => IInv
<1> SUFFICES ASSUME Init PROVE IInv
  OBVIOUS
<1>1. Cardinality(Threads) \in Nat /\ Cardinality({}) = 0
  BY CountBound, FS_EmptySet
<1>2. TypeOK
  <2>1. Unread \in Word
    BY <1>1, SemAssumption DEF Unread, Word
  <2> QED
    BY <2>1, SemAssumption DEF TypeOK, Init, Touching, Unread
<1>3. ClientKnows /\ CopyIsGood /\ FreedIsUnused
  BY DEF ClientKnows, Inside, CopyIsGood, FreedIsUnused, Init
<1>4. TokensConserved
  BY <1>1, SemAssumption DEF TokensConserved, Init
<1>5. WaitersCounted
  <2>1. Registered = {}
    BY DEF Registered, Init
  <2> QED
    BY <1>1, <2>1 DEF WaitersCounted, Init
<1> QED
  BY <1>2, <1>3, <1>4, <1>5 DEF IInv

LEMMA NextIInv ==
  IInv /\ [Next]_vars => IInv'
<1> SUFFICES ASSUME IInv, [Next]_vars PROVE IInv'
  OBVIOUS
<1>1. ASSUME NEW t \in Threads, Step(t) PROVE IInv'
  BY <1>1, TypeOKStep, ClientKnowsStep, CopyIsGoodStep, TokensConservedStep, WaitersCountedStep,
     FreedIsUnusedStep DEF IInv
<1>2. CASE UNCHANGED vars
  BY <1>2 DEF vars, IInv, TypeOK, ClientKnows, CopyIsGood, TokensConserved, WaitersCounted,
              Registered, FreedIsUnused
<1> QED
  BY <1>1, <1>2, DestroyStep, ReuseStep DEF Next, Step

LEMMA InductiveInvariant ==
  Spec => []IInv
<1> QED
  BY InitIInv, NextIInv, PTL DEF Spec

-----------------------------------------------------------------------------
\* For every number of threads, nwaiters is exactly the number of registered
\* waiters through every time-out, cancellation and successful wait, and the
\* value never passes SEM_VALUE_MAX.
THEOREM NwaitersExactHolds ==
  Spec => []NwaitersExact
<1>1. IInv => NwaitersExact
  BY DEF IInv, WaitersCounted, NwaitersExact
<1> QED
  BY <1>1, InductiveInvariant, PTL

\* No thread is about to access the semaphore when the client has freed it as
\* soon as POSIX allows: a sem_post that has provided its token only wakes.
THEOREM NoAccessAfterDestroyHolds ==
  Spec => []NoAccessAfterDestroy
<1>1. IInv => NoAccessAfterDestroy
  BY DEF IInv, TypeOK, ClientKnows, Inside, FreedIsUnused, Touching, NoAccessAfterDestroy
<1> QED
  BY <1>1, InductiveInvariant, PTL

\* No interleaving of the compare-and-swaps loses a token, makes one up or gives
\* one to two threads.
THEOREM TokensConservedHolds ==
  Spec => []TokensConserved
<1>1. IInv => TokensConserved
  BY DEF IInv
<1> QED
  BY <1>1, InductiveInvariant, PTL

\* Each step of a thread is a step of the abstract semaphore, or is invisible.
LEMMA StepRefines ==
  ASSUME IInv, NEW t \in Threads, Step(t)
  PROVE  S!Next \/ UNCHANGED <<data.v, waiting>>
<1>1. CASE SemWait(t) \/ SemTrywait(t)
  <2>1. S!Enter(t)
    BY <1>1 DEF IInv, ClientKnows, Inside, SemWait, SemTrywait, S!Enter
  <2> QED
    BY <2>1 DEF S!Next
<1>2. ASSUME waiting' = waiting \ {t}, data'.v = data.v - 1, data.v > 0, t \in waiting PROVE S!Next
  BY <1>2 DEF S!Take, S!Next
<1>3. ASSUME waiting' = waiting \ {t}, data'.v = data.v, t \in waiting PROVE S!Next
  BY <1>3 DEF S!Leave, S!Next
<1>4. CASE WaitFast(t)
  BY <1>2, <1>4 DEF IInv, TypeOK, Word, CopyIsGood, ClientKnows, Inside, Client, ReturnToken, WaitFast
<1>5. CASE TryFast(t)
  BY <1>2, <1>3, <1>5 DEF IInv, TypeOK, Word, CopyIsGood, ClientKnows, Inside, Client, ReturnToken,
                          ReturnError, TryFast
<1>6. CASE SlowTake(t)
  BY <1>2, <1>6 DEF IInv, TypeOK, Word, CopyIsGood, ClientKnows, Inside, Client, ReturnToken, SlowTake
<1>7. CASE Leave(t)
  BY <1>3, <1>7 DEF IInv, TypeOK, Word, ClientKnows, Inside, ReturnError, Leave
<1>8. CASE PostCas(t)
  <2>1. S!Post \/ UNCHANGED <<data.v, waiting>>
    BY <1>8 DEF IInv, TypeOK, Word, CopyIsGood, PostCas, S!Post
  <2> QED
    BY <2>1 DEF S!Next
<1>9. CASE \/ SemPost(t) \/ SlowEnter(t) \/ FutexWait(t) \/ Reload(t) \/ PostWake(t)
           \/ SpuriousWake(t) \/ WaitFails(t) \/ Cancel(t)
  BY <1>9 DEF IInv, TypeOK, Word, Client, SemPost, SlowEnter, FutexWait, Reload, PostWake,
              SpuriousWake, WaitFails, Cancel
<1> QED
  BY <1>1, <1>4, <1>5, <1>6, <1>7, <1>8, <1>9 DEF Step, Run

\* The semaphore implements the abstract one: each change of the value is the
\* Post of one token or the Take of one by a thread that waits.
THEOREM RefinesSemaphore ==
  Spec => S!Safety
<1>1. Init => S!Init
  BY DEF Init, S!Init
<1>2. IInv /\ [Next]_vars => [S!Next]_(S!vars)
  <2> SUFFICES ASSUME IInv, [Next]_vars PROVE S!Next \/ UNCHANGED <<data.v, waiting>>
    BY DEF S!vars
  <2>1. CASE Destroy
    BY <2>1 DEF Destroy
  <2>2. CASE Reuse
    BY <2>2, FreedIsEmpty DEF Reuse
  <2>3. CASE UNCHANGED vars
    BY <2>3 DEF vars
  <2> QED
    BY <2>1, <2>2, <2>3, StepRefines DEF Next, Step
<1> QED
  BY <1>1, <1>2, InductiveInvariant, PTL DEF Spec, S!Safety
=============================================================================
