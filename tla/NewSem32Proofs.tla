--------------------------- MODULE NewSem32Proofs ---------------------------
(* Machine-checked proofs about NewSem32, for any finite set of threads, any *)
(* SEM_VALUE_MAX and any number of posts.                                    *)
EXTENDS NewSem32, FiniteSetTheorems, TLAPS

\* The places inside sem_wait, sem_timedwait and sem_trywait: before the thread
\* has registered, while it is registered, and after that.
Unregistered == {"fast", "try", "enter"}
Waiter == {"load", "setbit", "wait", "blocked", "reload", "cas", "guess", "unset", "dec"}
Repairing == {"repair", "wakev"}
Inside == Unregistered \cup Waiter \cup Repairing

Registered == {t \in Threads : pc[t] \in Waiter}
Owners == {t \in Threads : got[t]}

\* What the client knows is where the threads are.
ClientKnows ==
  /\ waiting = {t \in Threads : pc[t] \in Inside}
  /\ posting = {t \in Threads : pc[t] = "post"}

\* A copy of value that a compare-and-swap will use was good when it was loaded.
CopyIsGood ==
  \A t \in Threads :
    /\ pc[t] \in {"fast", "try", "cas"} => v[t].v > 0
    /\ pc[t] = "post" => v[t].v < SEM_VALUE_MAX

\* A token is owned only in __sem_wait_32_finish, and only a thread that guesses
\* it is the last waiter clears the bit.
FinishKnows ==
  \A t \in Threads :
    /\ got[t] => pc[t] \in {"guess", "unset", "dec", "repair", "wakev"}
    /\ pc[t] = "unset" => guess[t]

\* No token is lost or made up: each one is still to be posted, about to be
\* provided, available, owned by a thread that has yet to return, or taken.
TokensConserved ==
  posts + Cardinality(posting) + value.v + Cardinality(Owners) + taken = MaxPosts

\* nwaiters counts the registered waiters exactly.
WaitersCounted ==
  nwaiters = Cardinality(Registered)

\* The memory is freed when nobody is inside and all the tokens are taken.
FreedIsUnused ==
  ~alive => waiting = {} /\ posting = {} /\ taken = MaxPosts

\* The inductive invariant.
IInv ==
  /\ TypeOK
  /\ ClientKnows
  /\ CopyIsGood
  /\ FinishKnows
  /\ TokensConserved
  /\ WaitersCounted
  /\ FreedIsUnused
  /\ MissingBitIsRepaired

-----------------------------------------------------------------------------
\* A set of threads has a size.
LEMMA CountBound ==
  ASSUME NEW A \in SUBSET Threads
  PROVE  /\ IsFiniteSet(A)
         /\ Cardinality(A) \in Nat
         /\ Cardinality(A) \in 0 .. Cardinality(Threads)
<1>1. IsFiniteSet(Threads) /\ IsFiniteSet(A) /\ Cardinality(A) <= Cardinality(Threads)
  BY Sem32Assumption, FS_Subset
<1>2. Cardinality(A) \in Nat /\ Cardinality(Threads) \in Nat
  BY <1>1, FS_CardinalityType
<1> QED
  BY <1>1, <1>2

\* The size of a set of threads, with one thread more or less.
LEMMA Counting ==
  ASSUME NEW A \in SUBSET Threads, NEW t \in Threads
  PROVE  /\ t \notin A => Cardinality(A \cup {t}) = Cardinality(A) + 1
         /\ t \in A => Cardinality(A \ {t}) = Cardinality(A) - 1
BY CountBound, FS_AddElement, FS_RemoveElement

\* Two threads in a set.
LEMMA CountTwo ==
  ASSUME NEW A \in SUBSET Threads, NEW s \in A, NEW t \in A, s # t
  PROVE  Cardinality(A) > 1
<1>1. Cardinality(A \ {t}) = Cardinality(A) - 1 /\ A \ {t} \in SUBSET Threads /\ s \in A \ {t}
  BY Counting
<1>2. Cardinality((A \ {t}) \ {s}) = Cardinality(A \ {t}) - 1 /\ (A \ {t}) \ {s} \in SUBSET Threads
  BY <1>1, Counting
<1> QED
  BY <1>1, <1>2, CountBound

\* A step of a thread.
Step(t) ==
  \/ SemWait(t) \/ SemTrywait(t) \/ SemPost(t) \/ Run(t)
  \/ SpuriousWake(t) \/ WaitFails(t)

\* A call is in progress for the client exactly while its thread is inside.
LEMMA ClientKnowsStep ==
  ASSUME TypeOK, ClientKnows, NEW t \in Threads, Step(t)
  PROVE  ClientKnows'
<1> USE DEF Inside, Unregistered, Waiter, Repairing
<1>1. CASE SemWait(t) \/ SemTrywait(t) \/ SemPost(t)
  BY <1>1 DEF TypeOK, ClientKnows, Goto, SemWait, SemTrywait, SemPost
<1>2. CASE WaitFast(t) \/ TryFast(t) \/ SlowEnter(t)
  BY <1>2 DEF TypeOK, ClientKnows, Goto, Client, Return, WaitFast, TryFast, SlowEnter
<1>3. CASE SlowLoad(t) \/ SetBit(t) \/ FutexWait(t) \/ Reload(t) \/ SlowTake(t)
  BY <1>3 DEF TypeOK, ClientKnows, Goto, Client, LoopPlace, SlowLoad, SetBit, FutexWait, Reload,
              SlowTake
<1>4. CASE SpuriousWake(t) \/ WaitFails(t) \/ FinishGuess(t) \/ FinishUnset(t)
  BY <1>4 DEF TypeOK, ClientKnows, Goto, Client, SpuriousWake, WaitFails, FinishGuess, FinishUnset
<1>5. CASE FinishDecrement(t) \/ FinishRepair(t)
  BY <1>5 DEF TypeOK, ClientKnows, Goto, Client, Return, FinishDecrement, FinishRepair
<1>6. CASE FinishWake(t)
  BY <1>6 DEF TypeOK, ClientKnows, FinishWake
<1>7. CASE PostCas(t)
  BY <1>7 DEF TypeOK, ClientKnows, Goto, PostCas
<1>8. CASE PostWake(t)
  BY <1>8 DEF TypeOK, ClientKnows, Client, PostWake
<1> QED
  BY <1>1, <1>2, <1>3, <1>4, <1>5, <1>6, <1>7, <1>8 DEF Step, Run

\* A thread goes to a compare-and-swap only with a value that allows it.
LEMMA CopyIsGoodStep ==
  ASSUME TypeOK, CopyIsGood, NEW t \in Threads, Step(t)
  PROVE  CopyIsGood'
<1>1. CASE SemWait(t) \/ SemTrywait(t)
  BY <1>1 DEF TypeOK, Word, CopyIsGood, Goto, SemWait, SemTrywait
<1>2. CASE SemPost(t)
  <2>1. value.v < SEM_VALUE_MAX
    BY <1>2, Sem32Assumption DEF TypeOK, Word, SemPost
  <2> QED
    BY <1>2, <2>1 DEF TypeOK, CopyIsGood, Goto, SemPost
<1>3. CASE WaitFast(t) \/ TryFast(t) \/ SlowEnter(t)
  BY <1>3 DEF TypeOK, Word, CopyIsGood, Goto, Return, WaitFast, TryFast, SlowEnter
<1>4. CASE SlowLoad(t) \/ SetBit(t) \/ FutexWait(t) \/ Reload(t) \/ SlowTake(t)
  BY <1>4 DEF TypeOK, Word, CopyIsGood, Goto, LoopPlace, SlowLoad, SetBit, FutexWait, Reload,
              SlowTake
<1>5. CASE SpuriousWake(t) \/ WaitFails(t) \/ FinishGuess(t) \/ FinishUnset(t)
  BY <1>5 DEF TypeOK, CopyIsGood, Goto, SpuriousWake, WaitFails, FinishGuess, FinishUnset
<1>6. CASE FinishDecrement(t) \/ FinishRepair(t)
  BY <1>6 DEF TypeOK, CopyIsGood, Goto, Return, FinishDecrement, FinishRepair
<1>7. CASE FinishWake(t)
  BY <1>7 DEF TypeOK, CopyIsGood, FinishWake
<1>8. CASE PostCas(t)
  BY <1>8, Sem32Assumption DEF TypeOK, Word, CopyIsGood, Goto, PostCas
<1>9. CASE PostWake(t)
  BY <1>9 DEF TypeOK, CopyIsGood, PostWake
<1> QED
  BY <1>1, <1>2, <1>3, <1>4, <1>5, <1>6, <1>7, <1>8, <1>9 DEF Step, Run

LEMMA FinishKnowsStep ==
  ASSUME TypeOK, FinishKnows, NEW t \in Threads, Step(t)
  PROVE  FinishKnows'
<1>1. CASE SemWait(t) \/ SemTrywait(t) \/ SemPost(t)
  BY <1>1 DEF TypeOK, FinishKnows, Goto, SemWait, SemTrywait, SemPost
<1>2. CASE WaitFast(t) \/ TryFast(t) \/ SlowEnter(t)
  BY <1>2 DEF TypeOK, FinishKnows, Goto, Client, Return, WaitFast, TryFast, SlowEnter
<1>3. CASE SlowLoad(t) \/ SetBit(t) \/ FutexWait(t) \/ Reload(t) \/ SlowTake(t)
  BY <1>3 DEF TypeOK, FinishKnows, Goto, LoopPlace, SlowLoad, SetBit, FutexWait, Reload, SlowTake
<1>4. CASE SpuriousWake(t) \/ WaitFails(t) \/ FinishGuess(t) \/ FinishUnset(t)
  BY <1>4 DEF TypeOK, FinishKnows, Goto, SpuriousWake, WaitFails, FinishGuess, FinishUnset
<1>5. CASE FinishDecrement(t) \/ FinishRepair(t)
  BY <1>5 DEF TypeOK, FinishKnows, Goto, Return, FinishDecrement, FinishRepair
<1>6. CASE FinishWake(t)
  BY <1>6 DEF TypeOK, FinishKnows, FinishWake
<1>7. CASE PostCas(t)
  BY <1>7 DEF TypeOK, FinishKnows, Goto, PostCas
<1>8. CASE PostWake(t)
  BY <1>8 DEF TypeOK, FinishKnows, PostWake
<1> QED
  BY <1>1, <1>2, <1>3, <1>4, <1>5, <1>6, <1>7, <1>8 DEF Step, Run

\* nwaiters changes when a thread starts or stops being registered.
LEMMA WaitersCountedStep ==
  ASSUME TypeOK, WaitersCounted, NEW t \in Threads, Step(t)
  PROVE  WaitersCounted' /\ Registered' \in SUBSET Threads
<1>0. Registered \in SUBSET Threads /\ Registered' \in SUBSET Threads
  BY DEF Registered
<1>1. CASE SlowEnter(t)
  <2>1. Registered' = Registered \cup {t} /\ t \notin Registered /\ nwaiters' = nwaiters + 1
    BY <1>1 DEF TypeOK, Goto, Registered, Waiter, SlowEnter
  <2> QED
    BY <1>0, <2>1, Counting DEF WaitersCounted
<1>2. CASE FinishDecrement(t)
  <2>1. Registered' = Registered \ {t} /\ t \in Registered /\ nwaiters' = nwaiters - 1
    BY <1>2 DEF TypeOK, Goto, Return, Registered, Waiter, FinishDecrement
  <2> QED
    BY <1>0, <2>1, Counting DEF WaitersCounted
<1>3. ASSUME Registered' = Registered, nwaiters' = nwaiters PROVE WaitersCounted'
  BY <1>3 DEF WaitersCounted
<1>4. CASE SemWait(t) \/ SemTrywait(t) \/ SemPost(t)
  BY <1>3, <1>4 DEF TypeOK, Goto, Registered, Waiter, SemWait, SemTrywait, SemPost
<1>5. CASE WaitFast(t) \/ TryFast(t) \/ FinishRepair(t)
  BY <1>3, <1>5 DEF TypeOK, Goto, Return, Registered, Waiter, WaitFast, TryFast, FinishRepair
<1>6. CASE SlowLoad(t) \/ SetBit(t) \/ FutexWait(t) \/ Reload(t) \/ SlowTake(t)
  BY <1>3, <1>6 DEF TypeOK, Goto, LoopPlace, Registered, Waiter, SlowLoad, SetBit, FutexWait, Reload,
                    SlowTake
<1>7. CASE SpuriousWake(t) \/ WaitFails(t) \/ FinishGuess(t) \/ FinishUnset(t)
  BY <1>3, <1>7 DEF TypeOK, Goto, Registered, Waiter, SpuriousWake, WaitFails, FinishGuess,
                    FinishUnset
<1>8. CASE FinishWake(t)
  BY <1>3, <1>8 DEF TypeOK, Registered, Waiter, FinishWake
<1>9. CASE PostCas(t)
  BY <1>3, <1>9 DEF TypeOK, Goto, Registered, Waiter, PostCas
<1>10. CASE PostWake(t)
  BY <1>3, <1>10 DEF TypeOK, Registered, Waiter, PostWake
<1> QED
  BY <1>0, <1>1, <1>2, <1>4, <1>5, <1>6, <1>7, <1>8, <1>9, <1>10 DEF Step, Run

\* A call returns the token that its thread owns.
Returned(t) ==
  /\ taken' = IF got[t] THEN taken + 1 ELSE taken
  /\ got' = [got EXCEPT ![t] = FALSE]
  /\ value'.v = value.v
  /\ UNCHANGED <<posting, posts>>

\* The value, the tokens that are owned or taken and the posts change together.
LEMMA TokensConservedStep ==
  ASSUME TypeOK, ClientKnows, CopyIsGood, FinishKnows, TokensConserved, NEW t \in Threads, Step(t)
  PROVE  TokensConserved' /\ value'.v \in 0 .. SEM_VALUE_MAX /\ posts' \in Nat /\ taken' \in Nat
<1>0. /\ posting \in SUBSET Threads /\ Cardinality(posting) \in Nat
      /\ Owners \in SUBSET Threads /\ Cardinality(Owners) \in Nat
  <2>1. posting \in SUBSET Threads /\ Owners \in SUBSET Threads
    BY DEF TypeOK, Owners
  <2> QED
    BY <2>1, CountBound
<1>1. value.v \in 0 .. SEM_VALUE_MAX /\ posts \in Nat /\ taken \in Nat
  BY DEF TypeOK, Word
<1>2. ASSUME value'.v = value.v, UNCHANGED <<got, posting, posts, taken>>
      PROVE  TokensConserved' /\ value'.v \in 0 .. SEM_VALUE_MAX /\ posts' \in Nat /\ taken' \in Nat
  BY <1>1, <1>2 DEF TokensConserved, Owners
<1>3. CASE SemWait(t) \/ SemTrywait(t) \/ SlowEnter(t) \/ SlowLoad(t) \/ FutexWait(t) \/ Reload(t)
  BY <1>2, <1>3 DEF Client, SemWait, SemTrywait, SlowEnter, SlowLoad, FutexWait, Reload
<1>4. CASE SpuriousWake(t) \/ WaitFails(t) \/ FinishGuess(t) \/ PostWake(t)
  BY <1>2, <1>4 DEF Client, SpuriousWake, WaitFails, FinishGuess, PostWake
<1>5. CASE FinishUnset(t) \/ SetBit(t)
  BY <1>2, <1>5 DEF TypeOK, Word, Client, FinishUnset, SetBit
<1>6. CASE SemPost(t)
  <2>1. posting' = posting \cup {t} /\ t \notin posting
    BY <1>6 DEF ClientKnows, SemPost
  <2>2. Cardinality(posting') = Cardinality(posting) + 1
    BY <1>0, <2>1, Counting
  <2>3. Owners' = Owners
    BY <1>6 DEF Owners, SemPost
  <2> QED
    BY <1>0, <1>1, <1>6, <2>2, <2>3 DEF TokensConserved, SemPost
<1>7. CASE PostCas(t)
  <2>1. t \in posting /\ Cardinality(posting \ {t}) = Cardinality(posting) - 1
    BY <1>0, <1>7, Counting DEF ClientKnows, PostCas
  <2>2. Owners' = Owners /\ taken' = taken
    BY <1>7 DEF Owners, PostCas
  <2>3. CASE posting' = posting \ {t}
    <3>1. \/ value'.v = value.v + 1 /\ value.v < SEM_VALUE_MAX /\ posts' = posts
          \/ value'.v = value.v /\ posts' = posts + 1
      BY <1>7, <2>1, <2>3 DEF TypeOK, Word, CopyIsGood, PostCas
    <3> QED
      BY <1>0, <1>1, <2>1, <2>2, <2>3, <3>1, Sem32Assumption DEF TokensConserved
  <2>4. CASE posting' # posting \ {t}
    BY <1>2, <1>7, <2>4 DEF PostCas
  <2> QED
    BY <2>3, <2>4
<1>8. ASSUME UNCHANGED <<posting, posts>>, value = v[t], v[t].v > 0, value'.v = value.v - 1,
             got' = [got EXCEPT ![t] = FALSE], ~got[t], taken' = taken + 1
      PROVE  TokensConserved' /\ value'.v \in 0 .. SEM_VALUE_MAX /\ posts' \in Nat /\ taken' \in Nat
  <2>1. Owners' = Owners
    BY <1>8 DEF TypeOK, Owners
  <2> QED
    BY <1>0, <1>1, <1>8, <2>1, Sem32Assumption DEF TokensConserved
<1>9. ASSUME Returned(t)
      PROVE  TokensConserved' /\ value'.v \in 0 .. SEM_VALUE_MAX /\ posts' \in Nat /\ taken' \in Nat
  <2>1. Owners' = Owners \ {t}
    BY <1>9 DEF TypeOK, Owners, Returned
  <2>2. CASE got[t]
    <3>1. Cardinality(Owners') = Cardinality(Owners) - 1 /\ taken' = taken + 1
      BY <1>0, <1>9, <2>1, <2>2, Counting DEF Owners, Returned
    <3> QED
      BY <1>0, <1>1, <1>9, <3>1 DEF TokensConserved, Returned
  <2>3. CASE ~got[t]
    <3>1. Owners' = Owners
      BY <2>1, <2>3 DEF Owners
    <3> QED
      BY <1>0, <1>1, <1>9, <2>3, <3>1 DEF TokensConserved, Returned
  <2> QED
    BY <2>2, <2>3
<1>10. CASE WaitFast(t)
  BY <1>2, <1>8, <1>10 DEF TypeOK, Word, CopyIsGood, FinishKnows, Client, Return, WaitFast
<1>11. CASE TryFast(t)
  <2>1. ASSUME Return(t, FALSE), value' = value PROVE Returned(t)
    BY <1>11, <2>1 DEF FinishKnows, Return, Returned, TryFast
  <2> QED
    BY <1>2, <1>8, <1>9, <1>11, <2>1 DEF TypeOK, Word, CopyIsGood, FinishKnows, Client, Return, TryFast
<1>12. CASE SlowTake(t)
  <2>1. CASE value = v[t]
    <3>1. Owners' = Owners \cup {t} /\ t \notin Owners /\ value'.v = value.v - 1 /\ value.v > 0
      BY <1>12, <2>1 DEF TypeOK, Word, CopyIsGood, FinishKnows, Owners, SlowTake
    <3>2. Cardinality(Owners') = Cardinality(Owners) + 1
      BY <1>0, <3>1, Counting
    <3> QED
      BY <1>0, <1>1, <1>12, <3>1, <3>2, Sem32Assumption DEF TokensConserved, Client, SlowTake
  <2>2. CASE value # v[t]
    BY <1>2, <1>12, <2>2 DEF Client, SlowTake
  <2> QED
    BY <2>1, <2>2
<1>13. CASE FinishDecrement(t) \/ FinishRepair(t) \/ FinishWake(t)
  <2>1. Returned(t) \/ (value'.v = value.v /\ UNCHANGED <<got, posting, posts, taken>>)
    BY <1>13 DEF TypeOK, Word, Client, Return, Returned, FinishDecrement, FinishRepair, FinishWake
  <2> QED
    BY <1>2, <1>9, <2>1
<1> QED
  BY <1>3, <1>4, <1>5, <1>6, <1>7, <1>10, <1>11, <1>12, <1>13 DEF Step, Run

\* Only the client frees the memory and makes a new semaphore of it.
LEMMA AliveStep ==
  ASSUME NEW t \in Threads, Step(t)
  PROVE  alive' = alive
BY DEF Step, Run, Client, Return, SemWait, SemTrywait, SemPost, WaitFast, TryFast, SlowEnter,
       SlowLoad, SetBit, FutexWait, Reload, SlowTake, FinishGuess, FinishUnset, FinishDecrement,
       FinishRepair, FinishWake, PostCas, PostWake, SpuriousWake, WaitFails

\* Nobody enters a semaphore whose memory is freed, so nothing changes in it.
LEMMA FreedIsUnusedStep ==
  ASSUME ClientKnows, FreedIsUnused, NEW t \in Threads, Step(t)
  PROVE  FreedIsUnused'
<1>1. alive' = alive
  BY AliveStep
<1>2. ASSUME ~alive PROVE PostWake(t)
  <2>1. pc[t] \notin Inside \cup {"post"}
    BY <1>2 DEF ClientKnows, FreedIsUnused
  <2> QED
    BY <1>2, <2>1
       DEF Inside, Unregistered, Waiter, Repairing, Step, Run, SemWait, SemTrywait, SemPost,
           WaitFast, TryFast, SlowEnter, SlowLoad, SetBit, FutexWait, Reload, SlowTake, FinishGuess,
           FinishUnset, FinishDecrement, FinishRepair, FinishWake, PostCas, SpuriousWake, WaitFails
<1> QED
  BY <1>1, <1>2 DEF FreedIsUnused, PostWake, Client

\* A thread goes from one place to another and keeps a copy of the word or not.
Moves(t) ==
  \E place \in Touching \cup {"idle", "blocked", "wake"} : Goto(t, place)

LEMMA StepMoves ==
  ASSUME NEW t \in Threads, Step(t)
  PROVE  Moves(t) \/ PostWake(t) \/ FinishWake(t)
<1>1. CASE SemWait(t) \/ SemTrywait(t) \/ SemPost(t) \/ WaitFast(t) \/ TryFast(t) \/ SlowEnter(t)
  BY <1>1 DEF Moves, Touching, Return, SemWait, SemTrywait, SemPost, WaitFast, TryFast, SlowEnter
<1>2. CASE SlowLoad(t) \/ SetBit(t) \/ FutexWait(t) \/ Reload(t) \/ SlowTake(t)
  BY <1>2 DEF Moves, Touching, LoopPlace, SlowLoad, SetBit, FutexWait, Reload, SlowTake
<1>3. CASE \/ SpuriousWake(t) \/ WaitFails(t) \/ FinishGuess(t) \/ FinishUnset(t)
           \/ FinishDecrement(t) \/ FinishRepair(t) \/ PostCas(t)
  BY <1>3 DEF Moves, Touching, Return, SpuriousWake, WaitFails, FinishGuess, FinishUnset,
              FinishDecrement, FinishRepair, PostCas
<1> QED
  BY <1>1, <1>2, <1>3 DEF Step, Run

\* The types follow, with the bounds of the counters, from what they count.
LEMMA TypeOKStep ==
  ASSUME IInv, NEW t \in Threads, Step(t)
  PROVE  TypeOK'
<1>0. TypeOK
  BY DEF IInv
<1>1. value'.v \in 0 .. SEM_VALUE_MAX /\ posts' \in Nat /\ taken' \in Nat /\ TokensConserved'
  BY TokensConservedStep DEF IInv
<1>2. nwaiters' \in 0 .. Cardinality(Threads)
  BY WaitersCountedStep, CountBound DEF IInv, WaitersCounted
<1>3. value' \in Word
  <2>1. value' = [v |-> value'.v, b |-> value'.b] /\ value'.b \in BOOLEAN
    BY <1>0 DEF Step, Run, TypeOK, Word, SemWait, SemTrywait, SemPost, WaitFast, TryFast, SlowEnter,
           SlowLoad, SetBit, FutexWait, Reload, SlowTake, FinishGuess, FinishUnset, FinishDecrement,
           FinishRepair, FinishWake, PostCas, PostWake, SpuriousWake, WaitFails
  <2> QED
    BY <1>1, <2>1 DEF Word
<1>4. waiting' \in SUBSET Threads /\ posting' \in SUBSET Threads
  BY ClientKnowsStep DEF IInv, ClientKnows
<1>5. posts' \in 0 .. MaxPosts /\ taken' \in 0 .. MaxPosts
  <2>1. Cardinality(posting') \in Nat
    BY <1>4, CountBound
  <2>2. Cardinality(Owners') \in Nat
    BY CountBound DEF Owners
  <2> QED
    BY <1>1, <2>1, <2>2, Sem32Assumption DEF TokensConserved
<1>6. v' \in [Threads -> Word] /\ pc' \in [Threads -> Touching \cup {"idle", "blocked", "wake"}]
  <2>1. Unread \in Word
    BY Sem32Assumption DEF Unread, Word
  <2>2. CASE Moves(t)
    BY <1>0, <2>1, <2>2 DEF TypeOK, Moves, Goto
  <2>3. CASE PostWake(t)
    BY <1>0, <2>3 DEF TypeOK, Touching, PostWake
  <2>4. CASE FinishWake(t)
    <3>1. v' \in [Threads -> Word]
      BY <1>0, <2>1, <2>4 DEF TypeOK, FinishWake
    <3>2. pc' \in [Threads -> Touching \cup {"idle", "blocked", "wake"}]
      BY <1>0, <2>4 DEF TypeOK, Touching, FinishWake
    <3> QED
      BY <3>1, <3>2
  <2> QED
    BY <2>2, <2>3, <2>4, StepMoves
<1>7. guess' \in [Threads -> BOOLEAN] /\ got' \in [Threads -> BOOLEAN]
  BY <1>0 DEF Step, Run, TypeOK, Client, Return, SemWait, SemTrywait, SemPost, WaitFast, TryFast,
         SlowEnter, SlowLoad, SetBit, FutexWait, Reload, SlowTake, FinishGuess, FinishUnset,
         FinishDecrement, FinishRepair, FinishWake, PostCas, PostWake, SpuriousWake, WaitFails
<1>8. alive' \in BOOLEAN
  BY <1>0, AliveStep DEF TypeOK
<1> QED
  BY <1>2, <1>3, <1>4, <1>5, <1>6, <1>7, <1>8 DEF TypeOK

\* The step of a thread does no more to another one than wake it.
LEMMA OthersKept ==
  ASSUME TypeOK, NEW t \in Threads, Step(t), NEW u \in Threads, u # t
  PROVE  /\ pc'[u] = pc[u] \/ (pc[u] = "blocked" /\ pc'[u] = "reload")
         /\ guess'[u] = guess[u]
<1>1. pc'[u] = pc[u] \/ (pc[u] = "blocked" /\ pc'[u] = "reload")
  <2>1. CASE Moves(t)
    BY <2>1 DEF TypeOK, Moves, Goto
  <2>2. CASE PostWake(t)
    BY <2>2 DEF TypeOK, PostWake
  <2>3. CASE FinishWake(t)
    BY <2>3 DEF TypeOK, FinishWake
  <2> QED
    BY <2>1, <2>2, <2>3, StepMoves
<1>2. guess'[u] = guess[u]
  BY DEF TypeOK, Step, Run, Return, SemWait, SemTrywait, SemPost, WaitFast, TryFast, SlowEnter,
         SlowLoad, SetBit, FutexWait, Reload, SlowTake, FinishGuess, FinishUnset, FinishDecrement,
         FinishRepair, FinishWake, PostCas, PostWake, SpuriousWake, WaitFails
<1> QED
  BY <1>1, <1>2

\* Only FinishUnset clears the bit.
LEMMA BitStep ==
  ASSUME TypeOK, NEW t \in Threads, Step(t), ~FinishUnset(t), value.b
  PROVE  value'.b
BY DEF TypeOK, Word, Step, Run, SemWait, SemTrywait, SemPost, WaitFast, TryFast, SlowEnter, SlowLoad,
       SetBit, FutexWait, Reload, SlowTake, FinishGuess, FinishDecrement, FinishRepair, FinishWake,
       PostCas, PostWake, SpuriousWake, WaitFails

\* A thread falls asleep only while the bit is set.
LEMMA FallsAsleep ==
  ASSUME TypeOK, NEW t \in Threads, Step(t), pc'[t] = "blocked"
  PROVE  value'.b
<1>1. CASE FutexWait(t)
  BY <1>1 DEF TypeOK, Goto, FutexWait
<1>2. CASE SemWait(t) \/ SemTrywait(t) \/ SemPost(t) \/ WaitFast(t) \/ TryFast(t) \/ SlowEnter(t)
  BY <1>2 DEF TypeOK, Goto, Return, SemWait, SemTrywait, SemPost, WaitFast, TryFast, SlowEnter
<1>3. CASE SlowLoad(t) \/ SetBit(t) \/ Reload(t) \/ SlowTake(t)
  BY <1>3 DEF TypeOK, Goto, LoopPlace, SlowLoad, SetBit, Reload, SlowTake
<1>4. CASE \/ SpuriousWake(t) \/ WaitFails(t) \/ FinishGuess(t) \/ FinishUnset(t)
           \/ FinishDecrement(t) \/ FinishRepair(t) \/ PostCas(t)
  BY <1>4 DEF TypeOK, Goto, Return, SpuriousWake, WaitFails, FinishGuess, FinishUnset,
              FinishDecrement, FinishRepair, PostCas
<1>5. CASE FinishWake(t) \/ PostWake(t)
  BY <1>5 DEF TypeOK, FinishWake, PostWake
<1> QED
  BY <1>1, <1>2, <1>3, <1>4, <1>5 DEF Step, Run

\* A thread that is on its way to notice and repair a wrong guess.
Repairs(t) ==
  \/ pc[t] = "repair"
  \/ pc[t] = "dec" /\ guess[t] /\ nwaiters > 1

\* The bit is cleared by a waiter that will see, as there is another one, that
\* it was not the last.  Others may leave meanwhile, but not the sleeper.
LEMMA MissingBitStep ==
  ASSUME IInv, NEW t \in Threads, Step(t)
  PROVE  MissingBitIsRepaired'
<1>0. TypeOK /\ MissingBitIsRepaired /\ WaitersCounted' /\ TypeOK' /\ FinishKnows
  BY TypeOKStep, WaitersCountedStep DEF IInv
<1> SUFFICES ASSUME ~value'.b, NEW s \in Threads, pc'[s] = "blocked"
             PROVE  \E u \in Threads : Repairs(u)'
  BY <1>0 DEF MissingBitIsRepaired, Repairs
<1>1. ASSUME NEW u \in Threads, pc'[u] = "dec", guess'[u]
      PROVE  Repairs(u)'
  <2>1. Registered' \in SUBSET Threads /\ u \in Registered' /\ s \in Registered' /\ u # s
    BY <1>1 DEF Registered, Waiter
  <2> QED
    BY <1>0, <1>1, <2>1, CountTwo DEF WaitersCounted, Repairs
<1>2. CASE FinishUnset(t)
  BY <1>0, <1>1, <1>2 DEF TypeOK, FinishKnows, Goto, FinishUnset
<1>3. CASE ~FinishUnset(t)
  <2>1. ~value.b /\ pc[s] = "blocked"
    <3>1. CASE s # t
      BY <1>0, <1>3, <3>1, OthersKept, BitStep
    <3>2. CASE s = t
      BY <1>0, <3>2, FallsAsleep
    <3> QED
      BY <3>1, <3>2
  <2>2. PICK u \in Threads : Repairs(u)
    BY <1>0, <2>1 DEF MissingBitIsRepaired, Repairs
  <2>3. CASE u # t
    <3>1. pc'[u] = pc[u] /\ guess'[u] = guess[u]
      BY <1>0, <2>2, <2>3, OthersKept DEF Repairs
    <3> QED
      BY <1>1, <2>2, <3>1 DEF Repairs
  <2>4. CASE u = t
    BY <1>0, <1>3, <2>2, <2>4 DEF Repairs, Step, Run, TypeOK, Word, Goto, Return, SemWait, SemTrywait,
         SemPost, WaitFast, TryFast, SlowEnter, SlowLoad, SetBit, FutexWait, Reload, SlowTake,
         FinishGuess, FinishDecrement, FinishRepair, FinishWake, PostCas, PostWake, SpuriousWake,
         WaitFails
  <2> QED
    BY <2>3, <2>4
<1> QED
  BY <1>2, <1>3

\* The client destroys a semaphore that nobody uses; a wake-up may be left.
LEMMA DestroyStep ==
  ASSUME IInv, Destroy
  PROVE  IInv'
<1>1. TypeOK' /\ ClientKnows' /\ CopyIsGood' /\ FinishKnows'
  BY DEF IInv, TypeOK, ClientKnows, CopyIsGood, FinishKnows, Destroy
<1>2. TokensConserved' /\ WaitersCounted' /\ FreedIsUnused'
  BY DEF IInv, TokensConserved, Owners, WaitersCounted, Registered, FreedIsUnused, Destroy
<1>3. MissingBitIsRepaired'
  BY <1>1 DEF IInv, MissingBitIsRepaired, Destroy
<1> QED
  BY <1>1, <1>2, <1>3 DEF IInv

\* The memory that is freed is that of a semaphore without tokens and waiters.
LEMMA FreedIsEmpty ==
  ASSUME IInv, ~alive
  PROVE  /\ value.v = 0
         /\ Registered = {} /\ Owners = {} /\ posting = {}
         /\ Cardinality({}) = 0
<1>1. Registered = {} /\ Owners = {} /\ posting = {} /\ taken = MaxPosts
  BY DEF IInv, ClientKnows, FinishKnows, FreedIsUnused, Registered, Owners, Inside, Waiter, Repairing
<1>2. Cardinality({}) = 0
  BY FS_EmptySet
<1>3. posts + 0 + value.v + 0 + MaxPosts = MaxPosts
  BY <1>1, <1>2 DEF IInv, TokensConserved
<1>4. posts \in Nat /\ value.v \in Nat
  BY Sem32Assumption DEF IInv, TypeOK, Word
<1> QED
  BY <1>1, <1>2, <1>3, <1>4, Sem32Assumption

\* The memory becomes a new semaphore.
LEMMA ReuseStep ==
  ASSUME IInv, Reuse
  PROVE  IInv'
<1>0. /\ Registered' = {} /\ Owners' = {} /\ posting = {} /\ Cardinality({}) = 0
      /\ Cardinality(Threads) \in Nat
  BY FreedIsEmpty, CountBound DEF Reuse, Registered, Owners
<1>1. TypeOK'
  BY <1>0, Sem32Assumption DEF IInv, TypeOK, Word, Unread, Reuse
<1>2. ClientKnows' /\ CopyIsGood' /\ FinishKnows'
  BY DEF IInv, ClientKnows, CopyIsGood, FinishKnows, Reuse
<1>3. TokensConserved' /\ WaitersCounted' /\ FreedIsUnused'
  BY <1>0, Sem32Assumption DEF TokensConserved, WaitersCounted, FreedIsUnused, Unread, Reuse
<1>4. MissingBitIsRepaired'
  BY <1>0, <1>1 DEF MissingBitIsRepaired, Registered, Waiter
<1> QED
  BY <1>1, <1>2, <1>3, <1>4 DEF IInv

LEMMA InitIInv ==
  Init => IInv
<1> SUFFICES ASSUME Init PROVE IInv
  OBVIOUS
<1>1. /\ Cardinality(Threads) \in Nat /\ Cardinality({}) = 0
      /\ Registered = {} /\ Owners = {}
  BY CountBound, FS_EmptySet DEF Init, Registered, Waiter, Owners
<1>2. TypeOK
  BY <1>1, Sem32Assumption DEF TypeOK, Word, Init, Touching, Unread
<1>3. ClientKnows /\ CopyIsGood /\ FinishKnows /\ FreedIsUnused
  BY DEF ClientKnows, Inside, Unregistered, Waiter, Repairing, CopyIsGood, FinishKnows,
         FreedIsUnused, Init
<1>4. TokensConserved /\ WaitersCounted
  BY <1>1, Sem32Assumption DEF TokensConserved, WaitersCounted, Init, Unread
<1>5. MissingBitIsRepaired
  BY <1>2 DEF MissingBitIsRepaired, Init
<1> QED
  BY <1>2, <1>3, <1>4, <1>5 DEF IInv

LEMMA NextIInv ==
  IInv /\ [Next]_vars => IInv'
<1> SUFFICES ASSUME IInv, [Next]_vars PROVE IInv'
  OBVIOUS
<1>1. ASSUME NEW t \in Threads, Step(t) PROVE IInv'
  BY <1>1, TypeOKStep, ClientKnowsStep, CopyIsGoodStep, FinishKnowsStep, TokensConservedStep,
     WaitersCountedStep, FreedIsUnusedStep, MissingBitStep DEF IInv
<1>2. CASE UNCHANGED vars
  BY <1>2 DEF vars, IInv, TypeOK, ClientKnows, CopyIsGood, FinishKnows, TokensConserved, Owners,
              WaitersCounted, Registered, FreedIsUnused, MissingBitIsRepaired
<1> QED
  BY <1>1, <1>2, DestroyStep, ReuseStep DEF Next, Step

LEMMA InductiveInvariant ==
  Spec => []IInv
<1> QED
  BY InitIInv, NextIInv, PTL DEF Spec

-----------------------------------------------------------------------------
\* For every number of threads: the waiters bit is missing next to a sleeper
\* only while the waiter that cleared it on a wrong guess is still on its way
\* to set it again.
THEOREM MissingBitIsRepairedHolds ==
  Spec => []MissingBitIsRepaired
<1>1. IInv => MissingBitIsRepaired
  BY DEF IInv
<1> QED
  BY <1>1, InductiveInvariant, PTL

\* No thread is about to access the semaphore when the client has freed it as
\* soon as POSIX allows, not even a waiter that repairs its guess.
THEOREM NoAccessAfterDestroyHolds ==
  Spec => []NoAccessAfterDestroy
<1>1. IInv => NoAccessAfterDestroy
  BY DEF IInv, TypeOK, ClientKnows, Inside, Unregistered, Waiter, Repairing, FreedIsUnused, Touching,
         NoAccessAfterDestroy
<1> QED
  BY <1>1, InductiveInvariant, PTL

\* No interleaving of the compare-and-swaps loses a token, makes one up or gives
\* one to two threads.
THEOREM TokensConservedHolds ==
  Spec => []TokensConserved
<1>1. IInv => TokensConserved
  BY DEF IInv
<1> QED
  BY <1>1, InductiveInvariant, PTL

\* The threads that wait for a token.
Wanting == {t \in waiting : ~got[t]}

\* Each step of a thread is a step of the abstract semaphore, or is invisible.
LEMMA StepRefines ==
  ASSUME IInv, NEW t \in Threads, Step(t)
  PROVE  S!Next \/ (value'.v = value.v /\ Wanting' = Wanting)
<1>0. TypeOK /\ FinishKnows /\ (t \in waiting <=> pc[t] \in Inside)
  BY DEF IInv, ClientKnows
<1>1. CASE SemWait(t) \/ SemTrywait(t)
  <2>1. S!Enter(t)
    BY <1>0, <1>1 DEF FinishKnows, Inside, Unregistered, Waiter, Repairing, SemWait, SemTrywait,
                      S!Enter
  <2> QED
    BY <2>1 DEF S!Next
<1>2. ASSUME Wanting' = Wanting \ {t}, value'.v = value.v - 1, value.v > 0, t \in Wanting PROVE S!Next
  BY <1>2 DEF Wanting, S!Take, S!Next
<1>3. ASSUME Wanting' = Wanting \ {t}, value'.v = value.v, t \in Wanting PROVE S!Next
  BY <1>3 DEF Wanting, S!Leave, S!Next
<1>4. ASSUME Return(t, TRUE), pc[t] \in {"fast", "try"} PROVE t \in Wanting /\ Wanting' = Wanting \ {t}
  BY <1>0, <1>4 DEF TypeOK, FinishKnows, Inside, Unregistered, Return, Wanting
<1>5. ASSUME waiting' = waiting \ {t}, got' = [got EXCEPT ![t] = FALSE], pc[t] \in Inside
      PROVE  Wanting' = Wanting \ {t} /\ (t \notin Wanting => Wanting' = Wanting)
  BY <1>0, <1>5 DEF TypeOK, Wanting
<1>6. CASE WaitFast(t)
  BY <1>2, <1>4, <1>6 DEF IInv, TypeOK, Word, CopyIsGood, Client, Wanting, WaitFast
<1>7. CASE TryFast(t)
  <2>1. CASE Return(t, FALSE) /\ value' = value
    BY <1>0, <1>3, <1>5, <1>7, <2>1 DEF Inside, Unregistered, Return, TryFast
  <2> QED
    BY <1>2, <1>4, <1>7, <2>1 DEF IInv, TypeOK, Word, CopyIsGood, Client, Wanting, TryFast
<1>8. CASE SlowTake(t)
  <2>1. CASE value = v[t]
    <3>1. t \in Wanting /\ Wanting' = Wanting \ {t}
      BY <1>0, <1>8, <2>1 DEF TypeOK, FinishKnows, Inside, Waiter, Client, Wanting, SlowTake
    <3> QED
      BY <1>2, <1>8, <2>1, <3>1 DEF IInv, TypeOK, Word, CopyIsGood, SlowTake
  <2>2. CASE value # v[t]
    BY <1>8, <2>2 DEF Client, Wanting, SlowTake
  <2> QED
    BY <2>1, <2>2
<1>9. CASE FinishDecrement(t) \/ FinishRepair(t) \/ FinishWake(t)
  <2>1. pc[t] \in Inside /\ value'.v = value.v
    BY <1>0, <1>9 DEF TypeOK, Word, Inside, Waiter, Repairing, FinishDecrement, FinishRepair, FinishWake
  <2>2. \/ waiting' = waiting \ {t} /\ got' = [got EXCEPT ![t] = FALSE]
        \/ waiting' = waiting /\ got' = got
    BY <1>9 DEF Client, Return, FinishDecrement, FinishRepair, FinishWake
  <2> QED
    BY <1>3, <1>5, <2>1, <2>2 DEF Wanting
<1>10. CASE PostCas(t)
  <2>1. S!Post \/ (value'.v = value.v /\ Wanting' = Wanting)
    BY <1>10 DEF IInv, TypeOK, Word, CopyIsGood, Wanting, PostCas, S!Post
  <2> QED
    BY <2>1 DEF S!Next
<1>11. CASE SemPost(t) \/ SlowEnter(t) \/ SlowLoad(t) \/ FutexWait(t) \/ Reload(t) \/ PostWake(t)
  BY <1>11 DEF Client, Wanting, SemPost, SlowEnter, SlowLoad, FutexWait, Reload, PostWake
<1>12. CASE SpuriousWake(t) \/ WaitFails(t) \/ FinishGuess(t) \/ FinishUnset(t) \/ SetBit(t)
  BY <1>0, <1>12 DEF TypeOK, Word, Client, Wanting, SpuriousWake, WaitFails, FinishGuess, FinishUnset,
                     SetBit
<1> QED
  BY <1>1, <1>6, <1>7, <1>8, <1>9, <1>10, <1>11, <1>12 DEF Step, Run

\* The semaphore implements the abstract one: each change of the value is the
\* Post of one token or the Take of one by a thread that waits.
THEOREM RefinesSemaphore ==
  Spec => S!Safety
<1>1. Init => S!Init
  BY DEF Init, Unread, S!Init
<1>2. IInv /\ [Next]_vars => [S!Next]_(S!vars)
  <2> SUFFICES ASSUME IInv, [Next]_vars PROVE S!Next \/ (value'.v = value.v /\ Wanting' = Wanting)
    BY DEF S!vars, Wanting
  <2>1. CASE Destroy
    BY <2>1 DEF Destroy, Wanting
  <2>2. CASE Reuse
    BY <2>2, FreedIsEmpty DEF Reuse, Unread, Wanting
  <2>3. CASE UNCHANGED vars
    BY <2>3 DEF vars, Wanting
  <2> QED
    BY <2>1, <2>2, <2>3, StepRefines DEF Next, Step
<1> QED
  BY <1>1, <1>2, InductiveInvariant, PTL DEF Spec, S!Safety
=============================================================================
