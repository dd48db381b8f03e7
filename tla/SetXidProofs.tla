----------------------------- MODULE SetXidProofs -----------------------------
(* Machine-checked proofs about SetXid, for any finite set of threads, any    *)
(* of them calling setxid and creating threads.                               *)
EXTENDS SetXid, TLAPS

ExitPlaces == {"exit", "exitwait", "exitasleep", "exitagain", "exitreset", "gone", "dead"}

\* The walks of __nptl_setxid over the list, and the places where cur is the
\* thread it is at.
MarkPlaces == {"mark", "markwait", "markasleep", "markhold", "markflag", "markrelease", "markwake"}
SignalPlaces == {"signal", "count", "cntrasleep"}
UnmarkPlaces == {"unmark", "unmarkrelease", "unmarkwake"}
CallPlaces == MarkPlaces \cup SignalPlaces \cup UnmarkPlaces
CurPlaces == {"markwait", "markasleep", "markhold", "markflag", "markrelease", "markwake",
              "unmarkrelease", "unmarkwake"}

\* TypeOK without the bounds of the counter, which follow from AnswersCounted.
Types ==
  /\ futex \in [Threads -> {-2, -1, 0, 1}]
  /\ flags \in [Threads -> SUBSET {"EXITING", "SETXID"}]
  /\ used \subseteq Threads /\ pending \subseteq Threads
  /\ holder \in Threads \cup {NoThread} /\ cur \in Threads \cup {NoThread}
  /\ xidcmd \in [cntr : Int, error : {-1, 0, 1}, id : Ids]
  /\ ids \in [Threads -> Ids] /\ arg \in [Threads -> Ids]
  /\ pc \in [Threads -> Places]
  /\ hpc \in [Threads -> {"no", "release", "count", "wake"}]
  /\ child \in [Threads -> Threads \cup {NoThread}]
  /\ called \subseteq Masters /\ {signalled, lost, aborted} \subseteq BOOLEAN

\* What belongs together in a thread and its descriptor.  A thread that owes an
\* answer does not exit, one that exits does not start to owe an answer, and
\* setxid_futex tells whether the thread has started.
Fits(t) ==
  /\ pc[t] # "none" <=> t \in used
  /\ "EXITING" \in flags[t] <=> pc[t] \in ExitPlaces
  /\ "SETXID" \in flags[t] => pc[t] \notin {"none", "embryo", "start", "exitreset", "gone", "dead"}
  /\ pc[t] \in {"embryo", "start"} <=> futex[t] \in {-2, -1}
  /\ pc[t] \in CallPlaces <=> holder = t
  /\ t \in pending \/ hpc[t] = "release" => "SETXID" \in flags[t]
  /\ hpc[t] # "no" => pc[t] \notin {"none", "embryo", "dead"}
  /\ t \in pending => hpc[t] \in {"no", "wake"}

LocalsFit == \A t \in Threads : Fits(t)

\* A thread that creates another one has a descriptor to itself.
Children ==
  \A a \in Threads : pc[a] \in {"clone", "undo"} =>
    /\ child[a] \in Threads /\ pc[child[a]] = "embryo"
    /\ \A b \in Threads : pc[b] \in {"clone", "undo"} /\ child[b] = child[a] => b = a

\* No flag is left behind by a call, and a thread that does not exist yet is
\* awaited by the call that is at it.
Idle == todo = {} /\ \A t \in Threads : "SETXID" \notin flags[t]

Busy ==
  /\ xidcmd.id = arg[holder]
  /\ todo \subseteq used /\ holder \notin todo /\ "SETXID" \notin flags[holder]
  /\ pc[holder] \in CurPlaces => cur \in used /\ cur # holder
  /\ pc[holder] \in {"markwait", "markasleep"} => futex[cur] # -1
  /\ pc[holder] \in {"markhold", "markflag", "markrelease", "markwake"} => futex[cur] \notin {-2, -1}
  /\ pc[holder] \in UnmarkPlaces => \A t \in Threads : "SETXID" \in flags[t] => t \in todo

CallFits ==
  /\ holder = NoThread => Idle
  /\ holder # NoThread => Busy
  /\ \A t \in Threads : futex[t] = -2 =>
       holder # NoThread /\ cur = t /\ pc[holder] \in {"markwait", "markasleep"}

\* The threads whose answer is awaited, which the counter counts; one that
\* was signalled in this round is not looked at again in it.
Answering == {t \in Threads : t \in pending \/ hpc[t] \in {"release", "count"}}
Signalling == holder # NoThread /\ pc[holder] \in SignalPlaces

AnswersCounted ==
  /\ ~Signalling => Answering = {} /\ xidcmd.cntr = 0
  /\ Signalling =>
       /\ xidcmd.cntr = Cardinality(Answering) - (IF pc[holder] = "count" THEN 1 ELSE 0)
       /\ holder \notin Answering
       /\ Answering \cap todo = {}

\* The threads that setxid_mark_thread is done with have started and are
\* marked, or exit.
Passed(t) ==
  /\ t \in used /\ t # holder
  /\ pc[holder] \in MarkPlaces => t \notin todo
  /\ pc[holder] \in {"markwait", "markasleep", "markhold", "markflag"} => t # cur

Marked ==
  holder # NoThread => \A t \in Threads : Passed(t) =>
    /\ futex[t] \notin {-2, -1}
    /\ pc[holder] \in MarkPlaces => flags[t] # {}

\* A round that has signalled nobody has found no mark so far.
RoundIsComplete ==
  holder # NoThread /\ pc[holder] \in {"signal", "cntrasleep"} /\ ~signalled /\ ~lost =>
    \A t \in Threads : "SETXID" \in flags[t] => t \in todo

\* What the command makes of the credentials of its caller.
New == IF ids[holder] \in {0, xidcmd.id} THEN xidcmd.id ELSE ids[holder]

\* The threads whose credentials count: all but those that exit and owe no
\* answer.
Follows(t) == Alive(t) /\ ("EXITING" \notin flags[t] \/ "SETXID" \in flags[t])

\* Up to the first signal a follower has the credentials of the caller, and those
\* it has later are the caller's or what the caller's will be.  Without a mark it
\* has got the new ones, and after the rounds of signals no marks are left.
Obeys(t) ==
  /\ Follows(t) => ids[t] \in {ids[holder], New}
  /\ Follows(t) /\ pc[holder] \in MarkPlaces => ids[t] = ids[holder]
  /\ Follows(t) /\ pc[holder] \in UnmarkPlaces => ids[t] = New
  /\ Alive(t) /\ flags[t] = {} /\ pc[holder] \notin MarkPlaces => ids[t] = New
  /\ hpc[t] = "release" => ids[t] = New

Agree == \A t, u \in Threads : Follows(t) /\ Follows(u) => ids[t] = ids[u]

Credentials ==
  ~lost =>
    /\ holder = NoThread => Agree
    /\ holder # NoThread =>
         /\ \A t \in Threads \ {holder} : Obeys(t)
         /\ xidcmd.error \in {-1, SyscallError(holder, xidcmd.id)}
    /\ ~aborted

\* The inductive invariant.
IInv ==
  /\ Types
  /\ LocalsFit
  /\ Children
  /\ CallFits
  /\ AnswersCounted
  /\ Marked
  /\ RoundIsComplete
  /\ Credentials

-------------------------------------------------------------------------------
\* A step of a thread.
Step(t) == Run(t) \/ Calls(t)

\* The types are preserved.
LEMMA TypesStep ==
  ASSUME Types, LocalsFit, Children, CallFits, NEW t \in Threads, Step(t)
  PROVE  Types'
<1>0. /\ pc[t] \in CurPlaces => cur \in Threads
      /\ pc[t] \in {"clone", "undo"} => child[t] \in Threads
      /\ pc[t] \in {"mark", "signal", "unmark"} => todo \subseteq Threads
  BY SetXidAssumption
     DEF Types, LocalsFit, Fits, Children, CallFits, Busy, CallPlaces, MarkPlaces, UnmarkPlaces, SignalPlaces, CurPlaces
<1>1. CASE hpc[t] = "no" /\ Clone(t)
  BY <1>1, <1>0, Zenon DEF Types, Places, Walk, Ghost, Clone
<1>2. CASE hpc[t] = "no" /\ DeallocateStack(t)
  BY <1>2, <1>0, Zenon DEF Types, Places, Ids, Freed, Walk, Ghost, DeallocateStack
<1>3. CASE hpc[t] = "no" /\ (Start(t) \/ StartWake(t))
  BY <1>3 DEF Types, Places, Walk, Ghost, Goto, Start, StartWake
<1>4. CASE hpc[t] = "no" /\ (Exit(t) \/ ExitTest(t) \/ ExitWait(t) \/ ExitReset(t))
  BY <1>4
     DEF Types, Places, Walk, Program, Ghost, Goto, Exit, Descriptors, ExitTest, ExitWait, ExitReset
<1>5. CASE hpc[t] = "no" /\ ExitDetached(t)
  BY <1>5, Zenon DEF Types, Places, Ids, Freed, Walk, Program, Ghost, Goto, ExitDetached
<1>6. CASE hpc[t] = "no" /\ ExitJoinable(t)
  BY <1>6, Zenon DEF Types, Places, Descriptors, Walk, Program, Ghost, Goto, ExitJoinable
<1>7. CASE hpc[t] = "no" /\ (Call(t) \/ Lock(t))
  BY <1>7 DEF Types, Places, Descriptors, Walk, Goto, Call, Program, Ghost, Lock
<1>8. CASE hpc[t] = "no" /\ MarkNext(t)
  BY <1>8, <1>0 DEF Types, Places, Program, Ghost, Goto, MarkNext
<1>9. CASE hpc[t] = "no" /\ (MarkWait(t) \/ MarkHold(t))
  BY <1>9 DEF Types, Places, Descriptors, Walk, Program, Ghost, Goto, MarkWait, MarkHold
<1>10. CASE hpc[t] = "no" /\ MarkFlag(t)
  BY <1>10 DEF Types, Places, Walk, Program, Ghost, Goto, MarkFlag
<1>11. CASE hpc[t] = "no" /\ (Release(t) \/ ReleaseWake(t))
  BY <1>11 DEF Types, Places, Walk, Program, Ghost, Goto, Release, Descriptors, ReleaseWake
<1>12. CASE hpc[t] = "no" /\ SignalRound(t)
  BY <1>12, <1>0, Zenon
     DEF Types, Places, Ids, SignalsSent, Descriptors, Program, Ghost, Goto, SignalRound
<1>13. CASE hpc[t] = "no" /\ Signal(t)
  <2>1. /\ pc' = pc \/ pc' = [pc EXCEPT ![t] = "count"]
        /\ pending' \subseteq pending \cup todo
        /\ lost' = lost \/ lost' = TRUE
    BY <1>13, Zenon DEF Signal, Goto
  <2>2. pc' \in [Threads -> Places]
    BY <2>1, Zenon DEF Types, Places
  <2>3. pending' \subseteq Threads /\ todo' \subseteq Threads
    BY <1>13, <1>0, Zenon DEF Types, Signal
  <2> QED
    BY <1>13, <2>1, <2>2, <2>3, Zenon DEF Types, Descriptors, Program, Signal
<1>14. CASE hpc[t] = "no" /\ SignalCount(t)
  BY <1>14 DEF Types, Places, Descriptors, Program, Ghost, Goto, SignalCount
<1>15. CASE hpc[t] = "no" /\ WaitAnswers(t)
  BY <1>15, Zenon DEF Types, Places, Descriptors, Walk, Program, Ghost, Goto, WaitAnswers
<1>16. CASE hpc[t] = "no" /\ (Unmark(t) \/ UnmarkNext(t))
  BY <1>16, <1>0 DEF Types, Places, Descriptors, Program, Ghost, Goto, Unmark, UnmarkNext
<1>17. CASE hpc[t] = "no" /\ SetSelf(t)
  BY <1>17 DEF Types, Places, Ids, Syscall, NoCommand, Descriptors, Goto, SetSelf
<1>18. CASE \E x \in Threads : AllocateStack(t, x)
  BY <1>18 DEF Types, Places, Walk, Ghost, AllocateStack
<1>19. CASE \E x \in Threads : Join(t, x)
  BY <1>19 DEF Types, Places, Ids, Freed, Walk, Program, Ghost, Goto, Join
<1>20. CASE Sighandler(t)
  BY <1>20, Zenon DEF Types, Places, Syscall, SyscallError, Descriptors, Walk, Program, Sighandler
<1>21. CASE HandlerRelease(t)
  BY <1>21, Zenon DEF Types, Walk, Program, Ghost, HandlerRelease
<1>22. CASE HandlerCount(t) \/ HandlerWake(t)
  BY <1>22 DEF Types, Places, Descriptors, Walk, Program, Ghost, HandlerCount, HandlerWake
<1> QED
  BY <1>1, <1>2, <1>3, <1>4, <1>5, <1>6, <1>7, <1>8, <1>9, <1>10, <1>11, <1>12, <1>13, <1>14,
     <1>15, <1>16, <1>17, <1>18, <1>19, <1>20, <1>21, <1>22, ZenonT(60)
     DEF Step, Run, Body, SetXid, Handler, Calls

\* What a thread in a call knows.
LEMMA InCall ==
  ASSUME Types, LocalsFit, CallFits, NEW t \in Threads
  PROVE  /\ pc[t] \in CallPlaces => holder = t /\ holder # NoThread /\ Busy /\ todo \subseteq Threads
         /\ pc[t] \in CurPlaces => cur \in Threads /\ cur \in used /\ cur # t
         /\ pc[t] \in {"markhold", "markflag", "markrelease", "markwake"} => futex[cur] \notin {-2, -1}
<1>1. pc[t] \in CurPlaces \cup {"markhold", "markflag", "markrelease", "markwake"} => pc[t] \in CallPlaces
  BY Zenon DEF CurPlaces, CallPlaces, MarkPlaces, UnmarkPlaces
<1> QED
  BY <1>1, SetXidAssumption DEF Types, LocalsFit, Fits, CallFits, Busy

\* Who follows, and whose credentials change in a step.
LEMMA FollowsStep ==
  ASSUME Types, LocalsFit, Children, CallFits, NEW t \in Threads, Step(t), NEW u \in Threads
  PROVE  /\ Follows(u)' => Follows(u) \/ (Clone(t) /\ u = child[t])
         /\ Alive(u)' => Alive(u) \/ (Clone(t) /\ u = child[t])
         /\ \/ ids'[u] = ids[u]
            \/ ~Alive(u)' /\ hpc'[u] # "release"
            \/ Clone(t) /\ u = child[t]
            \/ (Sighandler(t) \/ SetSelf(t)) /\ u = t
         /\ hpc'[u] = "release" => hpc[u] = "release" \/ (Sighandler(t) /\ u = t)
<1>0. /\ Fits(t) /\ Fits(u)
      /\ pc[t] \in {"clone", "undo"} => child[t] \in Threads /\ Fits(child[t]) /\ pc[child[t]] = "embryo"
  BY Zenon DEF LocalsFit, Children
<1>a. pc[t] \in CurPlaces => cur \in Threads /\ cur # t
  BY InCall, Zenon
<1>1. CASE hpc[t] = "no" /\ Clone(t)
  BY <1>1, Zenon DEF Types, Follows, Alive, Walk, Ghost, Clone
<1>2. CASE hpc[t] = "no" /\ DeallocateStack(t)
  BY <1>2, <1>0 DEF Types, Fits, Follows, Alive, Freed, Walk, Ghost, DeallocateStack
<1>3. CASE hpc[t] = "no" /\ (Start(t) \/ StartWake(t))
  BY <1>3, Zenon DEF Types, Follows, Alive, Walk, Ghost, Goto, Start, StartWake
<1>4. CASE hpc[t] = "no" /\ (Exit(t) \/ ExitTest(t) \/ ExitWait(t) \/ ExitReset(t))
  BY <1>4
     DEF Types, Follows, Alive, Walk, Program, Ghost, Goto, Exit, Descriptors, ExitTest, ExitWait,
         ExitReset
<1>5. CASE hpc[t] = "no" /\ ExitDetached(t)
  BY <1>5, Zenon DEF Types, Follows, Alive, Freed, Walk, Program, Ghost, Goto, ExitDetached
<1>6. CASE hpc[t] = "no" /\ ExitJoinable(t)
  BY <1>6 DEF Follows, Alive, Descriptors, Walk, Program, Ghost, Goto, ExitJoinable
<1>7. CASE hpc[t] = "no" /\ Call(t)
  BY <1>7 DEF Follows, Alive, Descriptors, Walk, Goto, Call
<1>8. CASE hpc[t] = "no" /\ Lock(t)
  BY <1>8, <1>0, <1>a, ZenonT(60)
     DEF Types, Places, Fits, Follows, Alive, ExitPlaces, Descriptors, Program, Ghost, Goto, Lock
<1>9. CASE hpc[t] = "no" /\ MarkNext(t)
  BY <1>9 DEF Follows, Alive, Program, Ghost, Goto, MarkNext
<1>10. CASE hpc[t] = "no" /\ (MarkWait(t) \/ MarkHold(t))
  BY <1>10, Zenon
     DEF Types, Follows, Alive, Descriptors, Walk, Program, Ghost, Goto, MarkWait, MarkHold
<1>11. CASE hpc[t] = "no" /\ MarkFlag(t)
  BY <1>11, Zenon DEF Types, Follows, Alive, Walk, Program, Ghost, Goto, MarkFlag
<1>12. CASE hpc[t] = "no" /\ (Release(t) \/ ReleaseWake(t))
  BY <1>12, Zenon
     DEF Types, Follows, Alive, Walk, Program, Ghost, Goto, Release, Descriptors, ReleaseWake
<1>13. CASE hpc[t] = "no" /\ SignalRound(t)
  BY <1>13 DEF Follows, Alive, SignalsSent, Descriptors, Program, Ghost, Goto, SignalRound
<1>14. CASE hpc[t] = "no" /\ Signal(t)
  BY <1>14, Zenon DEF Types, Follows, Alive, Descriptors, Program, Goto, Signal
<1>15. CASE hpc[t] = "no" /\ SignalCount(t)
  BY <1>15 DEF Follows, Alive, Descriptors, Program, Ghost, Goto, SignalCount
<1>16. CASE hpc[t] = "no" /\ WaitAnswers(t)
  BY <1>16 DEF Follows, Alive, SignalsSent, Descriptors, Walk, Program, Ghost, Goto, WaitAnswers
<1>17. CASE hpc[t] = "no" /\ Unmark(t)
  BY <1>17 DEF Follows, Alive, SignalsSent, Descriptors, Program, Ghost, Goto, Unmark
<1>18. CASE hpc[t] = "no" /\ UnmarkNext(t)
  BY <1>18 DEF Follows, Alive, Program, Ghost, Goto, UnmarkNext
<1>19. CASE hpc[t] = "no" /\ SetSelf(t)
  BY <1>19 DEF Follows, Alive, Syscall, Descriptors, Goto, SetSelf
<1>20. CASE \E x \in Threads : AllocateStack(t, x)
  BY <1>20 DEF Types, Follows, Alive, Walk, Ghost, AllocateStack
<1>21. CASE \E x \in Threads : Join(t, x)
  BY <1>21, <1>0 DEF Fits, Follows, Alive, Freed, Walk, Program, Ghost, Goto, Join
<1>22. CASE Sighandler(t)
  BY <1>22 DEF Follows, Alive, Syscall, Descriptors, Walk, Program, Sighandler
<1>23. CASE HandlerRelease(t)
  BY <1>23 DEF Follows, Alive, Walk, Program, Ghost, HandlerRelease
<1>24. CASE HandlerCount(t)
  BY <1>24, Zenon DEF Types, Follows, Alive, Descriptors, Walk, Program, Ghost, HandlerCount
<1>25. CASE HandlerWake(t)
  BY <1>25 DEF Follows, Alive, Descriptors, Walk, Program, Ghost, HandlerWake
<1> QED
  BY <1>1, <1>2, <1>3, <1>4, <1>5, <1>6, <1>7, <1>8, <1>9, <1>10, <1>11, <1>12, <1>13, <1>14,
     <1>15, <1>16, <1>17, <1>18, <1>19, <1>20, <1>21, <1>22, <1>23, <1>24, <1>25, ZenonT(60)
     DEF Step, Run, Body, SetXid, Handler, Calls

\* What belongs together in a thread stays together.
LEMMA FitsStep ==
  ASSUME Types, LocalsFit, Children, CallFits, AnswersCounted, Marked,
         NEW t \in Threads, Step(t), NEW u \in Threads
  PROVE  Fits(u)'
<1>0. Fits(t) /\ Fits(u)
  BY Zenon DEF LocalsFit
<1>a. /\ pc[t] \in CallPlaces => holder = t /\ holder # NoThread /\ todo \subseteq Threads
      /\ pc[t] \in CurPlaces => cur \in Threads /\ cur \in used /\ cur # t /\ Fits(cur)
      /\ pc[t] \in {"markhold", "markflag", "markrelease", "markwake"} => futex[cur] \notin {-2, -1}
  BY InCall, Zenon DEF LocalsFit
<1>b. /\ pc[t] = "unmarkrelease" => futex[cur] \notin {-2, -1}
      /\ pc[t] \in UnmarkPlaces => pending = {} /\ hpc[u] # "release"
      /\ pc[t] = "signal" /\ u \in todo => hpc[u] \in {"no", "wake"}
      /\ pc[t] \in {"clone", "undo"} => child[t] \in Threads /\ child[t] # t /\ pc[child[t]] = "embryo" /\ Fits(child[t])
  <2>1. pc[t] \in CallPlaces => holder = t /\ holder # NoThread
    BY <1>a, Zenon
  <2>2. pc[t] = "unmarkrelease" => futex[cur] \notin {-2, -1}
    BY <1>a, Zenon DEF Marked, Passed, CallPlaces, CurPlaces, UnmarkPlaces, MarkPlaces
  <2>3. pc[t] \in UnmarkPlaces => pending = {} /\ hpc[u] # "release"
    BY <2>1, Zenon
       DEF AnswersCounted, Answering, Signalling, Types, CallPlaces, UnmarkPlaces, SignalPlaces
  <2>4. pc[t] = "signal" /\ u \in todo => hpc[u] \in {"no", "wake"}
    BY Zenon DEF AnswersCounted, Answering, Types, SignalPlaces
  <2>5. pc[t] \in {"clone", "undo"} => child[t] \in Threads /\ child[t] # t /\ pc[child[t]] = "embryo" /\ Fits(child[t])
    BY Zenon DEF Children, LocalsFit
  <2> QED
    BY <2>2, <2>3, <2>4, <2>5, Zenon
<1>1. CASE hpc[t] = "no" /\ Clone(t)
  BY <1>1, <1>0, <1>b
     DEF Types, Fits, ExitPlaces, CallPlaces, MarkPlaces, SignalPlaces, UnmarkPlaces, Walk, Ghost,
         Clone
<1>2. CASE hpc[t] = "no" /\ DeallocateStack(t)
  BY <1>2, <1>0, <1>b
     DEF Types, Fits, ExitPlaces, CallPlaces, MarkPlaces, SignalPlaces, UnmarkPlaces, Freed, Walk,
         Ghost, DeallocateStack
<1>3. CASE hpc[t] = "no" /\ Start(t)
  BY <1>3, <1>0
     DEF Types, Fits, ExitPlaces, CallPlaces, MarkPlaces, SignalPlaces, UnmarkPlaces, Walk, Ghost,
         Goto, Start
<1>4. CASE hpc[t] = "no" /\ StartWake(t)
  BY <1>4, <1>0, Zenon
     DEF Fits, ExitPlaces, CallPlaces, MarkPlaces, SignalPlaces, UnmarkPlaces, Walk, Ghost,
         StartWake
<1>5. CASE hpc[t] = "no" /\ (Exit(t) \/ ExitTest(t) \/ ExitWait(t) \/ ExitReset(t))
  BY <1>5, <1>0
     DEF Types, Fits, ExitPlaces, CallPlaces, MarkPlaces, SignalPlaces, UnmarkPlaces, Walk, Program,
         Ghost, Goto, Exit, Descriptors, ExitTest, ExitWait, ExitReset
<1>6. CASE hpc[t] = "no" /\ ExitDetached(t)
  BY <1>6, <1>0
     DEF Types, Fits, ExitPlaces, CallPlaces, MarkPlaces, SignalPlaces, UnmarkPlaces, Freed, Walk,
         Program, Ghost, Goto, ExitDetached
<1>7. CASE hpc[t] = "no" /\ ExitJoinable(t)
  BY <1>7, <1>0
     DEF Fits, ExitPlaces, CallPlaces, MarkPlaces, SignalPlaces, UnmarkPlaces, Descriptors, Walk,
         Program, Ghost, Goto, ExitJoinable
<1>8. CASE hpc[t] = "no" /\ Call(t)
  BY <1>8, <1>0, Zenon
     DEF Types, Fits, ExitPlaces, CallPlaces, MarkPlaces, SignalPlaces, UnmarkPlaces, Descriptors,
         Walk, Goto, Call
<1>9. CASE hpc[t] = "no" /\ Lock(t)
  BY <1>9, <1>0, SetXidAssumption, Zenon
     DEF Types, Fits, ExitPlaces, CallPlaces, MarkPlaces, Descriptors, Program, Ghost, Goto, Lock
<1>10. CASE hpc[t] = "no" /\ MarkNext(t)
  BY <1>10, <1>0 DEF Fits, ExitPlaces, CallPlaces, MarkPlaces, Program, Ghost, Goto, MarkNext
<1>11. CASE hpc[t] = "no" /\ (MarkWait(t) \/ MarkHold(t))
  BY <1>11, <1>0, <1>a
     DEF Types, Fits, ExitPlaces, CallPlaces, MarkPlaces, Descriptors, Walk, Program, Ghost, Goto,
         MarkWait, MarkHold
<1>12. CASE hpc[t] = "no" /\ MarkFlag(t)
  BY <1>12, <1>0, <1>a
     DEF Types, Fits, ExitPlaces, CallPlaces, MarkPlaces, CurPlaces, Walk, Program, Ghost, Goto,
         MarkFlag
<1>13. CASE hpc[t] = "no" /\ (Release(t) \/ ReleaseWake(t))
  BY <1>13, <1>0, <1>a, <1>b
     DEF Types, Fits, ExitPlaces, CallPlaces, MarkPlaces, SignalPlaces, UnmarkPlaces, CurPlaces,
         Walk, Program, Ghost, Goto, Release, Descriptors, ReleaseWake
<1>14. CASE hpc[t] = "no" /\ SignalRound(t)
  BY <1>14, <1>0
     DEF Fits, ExitPlaces, CallPlaces, MarkPlaces, SignalPlaces, CurPlaces, SignalsSent,
         Descriptors, Program, Ghost, Goto, SignalRound
<1>15. CASE hpc[t] = "no" /\ Signal(t)
  BY <1>15, <1>0, <1>b
     DEF Types, Fits, ExitPlaces, CallPlaces, SignalPlaces, Descriptors, Program, Goto, Signal
<1>16. CASE hpc[t] = "no" /\ SignalCount(t)
  BY <1>16, <1>0
     DEF Fits, ExitPlaces, CallPlaces, SignalPlaces, Descriptors, Program, Ghost, Goto, SignalCount
<1>17. CASE hpc[t] = "no" /\ WaitAnswers(t)
  BY <1>17, <1>0
     DEF Fits, ExitPlaces, CallPlaces, SignalPlaces, SignalsSent, Descriptors, Walk, Program, Ghost,
         Goto, WaitAnswers
<1>18. CASE hpc[t] = "no" /\ Unmark(t)
  BY <1>18, <1>0
     DEF Fits, ExitPlaces, CallPlaces, SignalPlaces, UnmarkPlaces, SignalsSent, Descriptors,
         Program, Ghost, Goto, Unmark
<1>19. CASE hpc[t] = "no" /\ UnmarkNext(t)
  BY <1>19, <1>0, <1>b
     DEF Fits, ExitPlaces, CallPlaces, UnmarkPlaces, Program, Ghost, Goto, UnmarkNext
<1>20. CASE hpc[t] = "no" /\ SetSelf(t)
  BY <1>20, <1>0, SetXidAssumption, Zenon
     DEF Types, Fits, ExitPlaces, CallPlaces, MarkPlaces, SignalPlaces, UnmarkPlaces, Descriptors,
         Goto, SetSelf
<1>21. CASE \E x \in Threads : AllocateStack(t, x)
  BY <1>21, <1>0
     DEF Types, Fits, ExitPlaces, CallPlaces, MarkPlaces, SignalPlaces, UnmarkPlaces, Walk, Ghost,
         AllocateStack
<1>22. CASE \E x \in Threads : Join(t, x)
  BY <1>22, <1>0
     DEF Types, Fits, ExitPlaces, CallPlaces, MarkPlaces, SignalPlaces, UnmarkPlaces, Freed, Walk,
         Program, Ghost, Goto, Join
<1>23. CASE Sighandler(t)
  BY <1>23, <1>0
     DEF Fits, ExitPlaces, CallPlaces, MarkPlaces, SignalPlaces, UnmarkPlaces, Descriptors, Walk,
         Program, Sighandler
<1>24. CASE HandlerRelease(t)
  BY <1>24, <1>0 DEF Types, Fits, Walk, Program, Ghost, HandlerRelease
<1>25. CASE HandlerCount(t) \/ HandlerWake(t)
  BY <1>25, <1>0, <1>b
     DEF Types, Fits, ExitPlaces, CallPlaces, MarkPlaces, SignalPlaces, UnmarkPlaces, CurPlaces,
         Descriptors, Walk, Program, Ghost, HandlerCount, HandlerWake
<1> QED
  BY <1>1, <1>2, <1>3, <1>4, <1>5, <1>6, <1>7, <1>8, <1>9, <1>10, <1>11, <1>12, <1>13, <1>14,
     <1>15, <1>16, <1>17, <1>18, <1>19, <1>20, <1>21, <1>22, <1>23, <1>24, <1>25, ZenonT(60)
     DEF Step, Run, Body, SetXid, Handler, Calls

\* A round that signals nobody finds no mark.
LEMMA RoundIsCompleteStep ==
  ASSUME Types, LocalsFit, Children, CallFits, AnswersCounted, RoundIsComplete,
         NEW t \in Threads, Step(t)
  PROVE  RoundIsComplete'
<1> SUFFICES ASSUME holder' # NoThread, pc'[holder'] \in {"signal", "cntrasleep"}, ~signalled', ~lost',
                    NEW u \in Threads, "SETXID" \in flags'[u]
             PROVE  u \in todo'
  BY Zenon DEF RoundIsComplete
<1>0. /\ Fits(t) /\ Fits(u)
      /\ holder # NoThread /\ pc[holder] \in {"signal", "cntrasleep"} /\ ~signalled /\ ~lost =>
           ("SETXID" \in flags[u] => u \in todo)
      /\ holder # NoThread => holder \in Threads /\ Fits(holder) /\ "SETXID" \notin flags[holder]
      /\ pc[t] \in {"clone", "undo"} => child[t] \in Threads /\ pc[child[t]] = "embryo"
  BY ZenonT(60) DEF Types, LocalsFit, RoundIsComplete, Children, CallFits, Busy
<1>a. /\ pc[t] \in CallPlaces => holder = t /\ holder # NoThread
      /\ pc[t] \in CurPlaces => cur \in Threads /\ cur # t
  BY InCall, Zenon
<1>1. CASE hpc[t] = "no" /\ Clone(t)
  BY <1>1, <1>0, <1>a, ZenonT(60)
     DEF Types, Fits, CallPlaces, MarkPlaces, SignalPlaces, UnmarkPlaces, CurPlaces, Walk, Ghost,
         Clone
<1>2. CASE hpc[t] = "no" /\ DeallocateStack(t)
  BY <1>2, <1>0, <1>a, ZenonT(60)
     DEF Types, Fits, CallPlaces, MarkPlaces, SignalPlaces, UnmarkPlaces, CurPlaces, Freed, Walk,
         Ghost, DeallocateStack
<1>3. CASE hpc[t] = "no" /\ (Start(t) \/ StartWake(t))
  BY <1>3, <1>0 DEF Types, SignalPlaces, Walk, Ghost, Goto, Start, StartWake
<1>4. CASE hpc[t] = "no" /\ (Exit(t) \/ ExitTest(t) \/ ExitWait(t) \/ ExitReset(t))
  BY <1>4, <1>0
     DEF Types, CallPlaces, SignalPlaces, CurPlaces, Walk, Program, Ghost, Goto, Exit, Descriptors,
         ExitTest, ExitWait, ExitReset
<1>5. CASE hpc[t] = "no" /\ ExitDetached(t)
  BY <1>5, <1>0, <1>a, ZenonT(60)
     DEF Types, Fits, CallPlaces, MarkPlaces, SignalPlaces, UnmarkPlaces, CurPlaces, Freed, Walk,
         Program, Ghost, Goto, ExitDetached
<1>6. CASE hpc[t] = "no" /\ ExitJoinable(t)
  BY <1>6, <1>0, <1>a, ZenonT(60)
     DEF Types, Fits, CallPlaces, MarkPlaces, SignalPlaces, UnmarkPlaces, CurPlaces, Descriptors,
         Walk, Program, Ghost, Goto, ExitJoinable
<1>7. CASE hpc[t] = "no" /\ Call(t)
  BY <1>7, <1>0, <1>a, ZenonT(60)
     DEF Types, Fits, CallPlaces, MarkPlaces, SignalPlaces, UnmarkPlaces, CurPlaces, Descriptors,
         Walk, Goto, Call
<1>8. CASE hpc[t] = "no" /\ Lock(t)
  BY <1>8, <1>0, <1>a, ZenonT(60)
     DEF Types, Fits, CallPlaces, MarkPlaces, SignalPlaces, UnmarkPlaces, CurPlaces, Descriptors,
         Program, Ghost, Goto, Lock
<1>9. CASE hpc[t] = "no" /\ MarkNext(t)
  BY <1>9, <1>a DEF CallPlaces, MarkPlaces, Program, Ghost, Goto, MarkNext
<1>10. CASE hpc[t] = "no" /\ (MarkWait(t) \/ MarkHold(t))
  BY <1>10, <1>a, Zenon
     DEF Types, CallPlaces, MarkPlaces, Descriptors, Walk, Program, Ghost, Goto, MarkWait, MarkHold
<1>11. CASE hpc[t] = "no" /\ MarkFlag(t)
  BY <1>11, <1>a, Zenon DEF Types, CallPlaces, MarkPlaces, Walk, Program, Ghost, Goto, MarkFlag
<1>12. CASE hpc[t] = "no" /\ (Release(t) \/ ReleaseWake(t))
  BY <1>12, <1>a, Zenon
     DEF Types, CallPlaces, MarkPlaces, UnmarkPlaces, CurPlaces, Walk, Program, Ghost, Goto,
         Release, Descriptors, ReleaseWake
<1>13. CASE hpc[t] = "no" /\ SignalRound(t)
  BY <1>13, <1>0, <1>a, ZenonT(60)
     DEF Types, Fits, CallPlaces, MarkPlaces, SignalPlaces, UnmarkPlaces, CurPlaces, SignalsSent,
         Descriptors, Program, Ghost, Goto, SignalRound
<1>14. CASE hpc[t] = "no" /\ Signal(t)
  BY <1>14, <1>0, <1>a, ZenonT(60)
     DEF Types, Fits, CallPlaces, MarkPlaces, SignalPlaces, UnmarkPlaces, CurPlaces, Alive,
         Descriptors, Program, Goto, Signal
<1>15. CASE hpc[t] = "no" /\ SignalCount(t)
  BY <1>15, Zenon DEF Descriptors, Program, Ghost, Goto, SignalCount
<1>16. CASE hpc[t] = "no" /\ WaitAnswers(t)
  BY <1>16, <1>0, <1>a, ZenonT(60)
     DEF Types, Fits, CallPlaces, MarkPlaces, SignalPlaces, UnmarkPlaces, CurPlaces, SignalsSent,
         Descriptors, Walk, Program, Ghost, Goto, WaitAnswers
<1>17. CASE hpc[t] = "no" /\ Unmark(t)
  BY <1>17, <1>0, <1>a, ZenonT(60)
     DEF Types, Fits, CallPlaces, MarkPlaces, SignalPlaces, UnmarkPlaces, CurPlaces, SignalsSent,
         Descriptors, Program, Ghost, Goto, Unmark
<1>18. CASE hpc[t] = "no" /\ UnmarkNext(t)
  BY <1>18, <1>0, <1>a, ZenonT(60)
     DEF Types, Fits, CallPlaces, MarkPlaces, SignalPlaces, UnmarkPlaces, CurPlaces, Program,
         Ghost, Goto, UnmarkNext
<1>19. CASE hpc[t] = "no" /\ SetSelf(t)
  BY <1>19, <1>0, <1>a, Zenon
     DEF Types, Fits, CallPlaces, MarkPlaces, SignalPlaces, UnmarkPlaces, CurPlaces, Descriptors,
         Goto, SetSelf
<1>20. CASE \E x \in Threads : AllocateStack(t, x)
  BY <1>20, <1>0, <1>a, ZenonT(60)
     DEF Types, Fits, CallPlaces, MarkPlaces, SignalPlaces, UnmarkPlaces, CurPlaces, Walk, Ghost,
         AllocateStack
<1>21. CASE \E x \in Threads : Join(t, x)
  BY <1>21, <1>0, <1>a, ZenonT(60)
     DEF Types, Fits, CallPlaces, MarkPlaces, SignalPlaces, UnmarkPlaces, CurPlaces, Freed, Walk,
         Program, Ghost, Goto, Join
<1>22. CASE Sighandler(t)
  BY <1>22, <1>0 DEF CurPlaces, Descriptors, Walk, Program, Sighandler
<1>23. CASE HandlerRelease(t)
  BY <1>23, <1>0, <1>a, ZenonT(60)
     DEF Types, Fits, CallPlaces, MarkPlaces, SignalPlaces, UnmarkPlaces, CurPlaces, Walk,
         Program, Ghost, HandlerRelease
<1>24. CASE HandlerCount(t) \/ HandlerWake(t)
  BY <1>24, <1>0 DEF Descriptors, Walk, Program, Ghost, HandlerCount, HandlerWake
<1> QED
  BY <1>1, <1>2, <1>3, <1>4, <1>5, <1>6, <1>7, <1>8, <1>9, <1>10, <1>11, <1>12, <1>13, <1>14,
     <1>15, <1>16, <1>17, <1>18, <1>19, <1>20, <1>21, <1>22, <1>23, <1>24, Zenon
     DEF Step, Run, Body, SetXid, Handler, Calls

\* Each creating thread keeps a descriptor to itself.
LEMMA ChildrenStep ==
  ASSUME Types, LocalsFit, Children, CallFits, NEW t \in Threads, Step(t)
  PROVE  Children'
<1> SUFFICES ASSUME NEW a \in Threads, pc'[a] \in {"clone", "undo"}
             PROVE  /\ child'[a] \in Threads /\ pc'[child'[a]] = "embryo"
                    /\ \A b \in Threads : pc'[b] \in {"clone", "undo"} /\ child'[b] = child'[a] => b = a
  BY Zenon DEF Children
<1>0. /\ \A b \in Threads : pc[b] \in {"clone", "undo"} =>
           /\ child[b] \in Threads /\ pc[child[b]] = "embryo"
           /\ \A c \in Threads : pc[c] \in {"clone", "undo"} /\ child[c] = child[b] => c = b
  BY Zenon DEF Children
<1>a. pc[t] \in CurPlaces => cur \in Threads
  BY InCall, Zenon
<1>1. CASE hpc[t] = "no" /\ Clone(t)
  BY <1>1, <1>0, Zenon DEF Types, Walk, Ghost, Clone
<1>2. CASE hpc[t] = "no" /\ DeallocateStack(t)
  BY <1>2, <1>0, Zenon DEF Types, Places, Walk, Ghost, DeallocateStack
<1>3. CASE hpc[t] = "no" /\ (Start(t) \/ StartWake(t))
  BY <1>3, <1>0 DEF Types, Places, Walk, Ghost, Goto, Start, StartWake
<1>4. CASE hpc[t] = "no" /\ (Exit(t) \/ ExitTest(t) \/ ExitWait(t) \/ ExitReset(t))
  BY <1>4, <1>0
     DEF Types, Walk, Program, Ghost, Goto, Exit, Descriptors, ExitTest, ExitWait, ExitReset
<1>5. CASE hpc[t] = "no" /\ ExitDetached(t)
  BY <1>5, <1>0 DEF Walk, Program, Ghost, Goto, ExitDetached
<1>6. CASE hpc[t] = "no" /\ ExitJoinable(t)
  BY <1>6, <1>0 DEF Descriptors, Walk, Program, Ghost, Goto, ExitJoinable
<1>7. CASE hpc[t] = "no" /\ (Call(t) \/ Lock(t))
  BY <1>7, <1>0 DEF Types, Descriptors, Walk, Goto, Call, Program, Ghost, Lock
<1>8. CASE hpc[t] = "no" /\ MarkNext(t)
  BY <1>8, <1>0 DEF Program, Ghost, Goto, MarkNext
<1>9. CASE hpc[t] = "no" /\ (MarkWait(t) \/ MarkHold(t))
  BY <1>9, <1>0 DEF Types, Descriptors, Walk, Program, Ghost, Goto, MarkWait, MarkHold
<1>10. CASE hpc[t] = "no" /\ MarkFlag(t)
  BY <1>10, <1>0 DEF Types, Walk, Program, Ghost, Goto, MarkFlag
<1>11. CASE hpc[t] = "no" /\ (Release(t) \/ ReleaseWake(t))
  BY <1>11, <1>0 DEF Types, Walk, Program, Ghost, Goto, Release, Descriptors, ReleaseWake
<1>12. CASE hpc[t] = "no" /\ SignalRound(t)
  BY <1>12, <1>0 DEF SignalsSent, Descriptors, Program, Ghost, Goto, SignalRound
<1>13. CASE hpc[t] = "no" /\ Signal(t)
  BY <1>13, <1>0, Zenon DEF Types, Descriptors, Program, Goto, Signal
<1>14. CASE hpc[t] = "no" /\ (SignalCount(t) \/ WaitAnswers(t))
  BY <1>14, <1>0
     DEF Types, Descriptors, Program, Ghost, Goto, SignalCount, SignalsSent, Walk, WaitAnswers
<1>15. CASE hpc[t] = "no" /\ (Unmark(t) \/ UnmarkNext(t))
  BY <1>15, <1>0 DEF Types, SignalsSent, Descriptors, Program, Ghost, Goto, Unmark, UnmarkNext
<1>16. CASE hpc[t] = "no" /\ SetSelf(t)
  BY <1>16, <1>0 DEF Descriptors, Goto, SetSelf
<1>17. CASE \E x \in Threads : AllocateStack(t, x)
  BY <1>17, <1>0 DEF Types, Walk, Ghost, AllocateStack
<1>18. CASE \E x \in Threads : Join(t, x)
  BY <1>18, <1>0 DEF Walk, Program, Ghost, Goto, Join
<1>19. CASE Sighandler(t)
  BY <1>19, <1>0 DEF Descriptors, Walk, Program, Sighandler
<1>20. CASE HandlerRelease(t)
  BY <1>20, <1>0, Zenon DEF Walk, Program, Ghost, HandlerRelease
<1>21. CASE HandlerCount(t) \/ HandlerWake(t)
  BY <1>21, <1>0 DEF Descriptors, Walk, Program, Ghost, HandlerCount, HandlerWake
<1> QED
  BY <1>1, <1>2, <1>3, <1>4, <1>5, <1>6, <1>7, <1>8, <1>9, <1>10, <1>11, <1>12, <1>13, <1>14,
     <1>15, <1>16, <1>17, <1>18, <1>19, <1>20, <1>21, ZenonT(60)
     DEF Step, Run, Body, SetXid, Handler, Calls

\* No mark is left when no call is in progress.
LEMMA IdleStep ==
  ASSUME Types, LocalsFit, Children, CallFits, NEW t \in Threads, Step(t), holder' = NoThread
  PROVE  Idle'
<1>0. /\ Fits(t)
      /\ holder = NoThread => Idle
      /\ pc[t] \in CallPlaces => holder = t /\ holder # NoThread
      /\ pc[t] = "unmark" => \A u \in Threads : "SETXID" \in flags[u] => u \in todo
      /\ pc[t] \in {"clone", "undo"} => child[t] \in Threads
  BY InCall, Zenon DEF LocalsFit, CallFits, Busy, Children, CallPlaces, UnmarkPlaces
<1>1. CASE hpc[t] = "no" /\ Clone(t)
  BY <1>1, <1>0, Zenon DEF Idle, Walk, Ghost, Clone
<1>2. CASE hpc[t] = "no" /\ DeallocateStack(t)
  BY <1>2, <1>0 DEF Idle, SignalPlaces, Freed, Walk, Ghost, DeallocateStack
<1>3. CASE hpc[t] = "no" /\ (Start(t) \/ StartWake(t))
  BY <1>3, <1>0, Zenon DEF Idle, Walk, Ghost, Goto, Start, StartWake
<1>4. CASE hpc[t] = "no" /\ (Exit(t) \/ ExitTest(t) \/ ExitWait(t) \/ ExitReset(t))
  BY <1>4, <1>0
     DEF Types, Idle, Walk, Program, Ghost, Goto, Exit, Descriptors, ExitTest, ExitWait, ExitReset
<1>5. CASE hpc[t] = "no" /\ ExitDetached(t)
  BY <1>5, <1>0 DEF Idle, Freed, Walk, Program, Ghost, Goto, ExitDetached
<1>6. CASE hpc[t] = "no" /\ ExitJoinable(t)
  BY <1>6, <1>0, Zenon DEF Idle, Descriptors, Walk, Program, Ghost, Goto, ExitJoinable
<1>7. CASE hpc[t] = "no" /\ Call(t)
  BY <1>7, <1>0, Zenon DEF Idle, MarkPlaces, Descriptors, Walk, Goto, Call
<1>8. CASE hpc[t] = "no" /\ Lock(t)
  BY <1>8, <1>0, Zenon DEF Fits, Descriptors, Program, Ghost, Goto, Lock
<1>9. CASE hpc[t] = "no" /\ MarkNext(t)
  BY <1>9, <1>0, Zenon DEF CallPlaces, MarkPlaces, Program, Ghost, Goto, MarkNext
<1>10. CASE hpc[t] = "no" /\ (MarkWait(t) \/ MarkHold(t))
  BY <1>10, <1>0, Zenon
     DEF Types, CallPlaces, MarkPlaces, Descriptors, Walk, Program, Ghost, Goto, MarkWait, MarkHold
<1>11. CASE hpc[t] = "no" /\ MarkFlag(t)
  BY <1>11, <1>0, Zenon DEF CallPlaces, MarkPlaces, Walk, Program, Ghost, Goto, MarkFlag
<1>12. CASE hpc[t] = "no" /\ (Release(t) \/ ReleaseWake(t))
  BY <1>12, <1>0, Zenon
     DEF CallPlaces, MarkPlaces, UnmarkPlaces, Walk, Program, Ghost, Goto, Release, Descriptors,
         ReleaseWake
<1>13. CASE hpc[t] = "no" /\ SignalRound(t)
  BY <1>13, <1>0, Zenon
     DEF CallPlaces, MarkPlaces, SignalPlaces, SignalsSent, Descriptors, Program, Ghost, Goto,
         SignalRound
<1>14. CASE hpc[t] = "no" /\ Signal(t)
  BY <1>14, <1>0, Zenon DEF CallPlaces, SignalPlaces, Descriptors, Program, Goto, Signal
<1>15. CASE hpc[t] = "no" /\ SignalCount(t)
  BY <1>15, <1>0, Zenon DEF CallPlaces, SignalPlaces, Descriptors, Program, Ghost, Goto, SignalCount
<1>16. CASE hpc[t] = "no" /\ WaitAnswers(t)
  BY <1>16, <1>0, Zenon
     DEF CallPlaces, SignalPlaces, SignalsSent, Descriptors, Walk, Program, Ghost, Goto, WaitAnswers
<1>17. CASE hpc[t] = "no" /\ Unmark(t)
  BY <1>17, <1>0, Zenon
     DEF CallPlaces, SignalPlaces, SignalsSent, Descriptors, Program, Ghost, Goto, Unmark
<1>18. CASE hpc[t] = "no" /\ UnmarkNext(t)
  BY <1>18, <1>0, Zenon DEF CallPlaces, UnmarkPlaces, Program, Ghost, Goto, UnmarkNext
<1>19. CASE hpc[t] = "no" /\ SetSelf(t)
  BY <1>19, <1>0, Zenon DEF Idle, MarkPlaces, Descriptors, Goto, SetSelf
<1>20. CASE \E x \in Threads : AllocateStack(t, x)
  BY <1>20, <1>0, Zenon DEF Idle, Walk, Ghost, AllocateStack
<1>21. CASE \E x \in Threads : Join(t, x)
  BY <1>21, <1>0 DEF Idle, Freed, Walk, Program, Ghost, Goto, Join
<1>22. CASE Sighandler(t)
  BY <1>22, <1>0, Zenon DEF Idle, Descriptors, Walk, Program, Sighandler
<1>23. CASE HandlerRelease(t)
  BY <1>23, <1>0 DEF Idle, Walk, Program, Ghost, HandlerRelease
<1>24. CASE HandlerCount(t) \/ HandlerWake(t)
  BY <1>24, <1>0, Zenon DEF Idle, Descriptors, Walk, Program, Ghost, HandlerCount, HandlerWake
<1> QED
  BY <1>1, <1>2, <1>3, <1>4, <1>5, <1>6, <1>7, <1>8, <1>9, <1>10, <1>11, <1>12, <1>13, <1>14,
     <1>15, <1>16, <1>17, <1>18, <1>19, <1>20, <1>21, <1>22, <1>23, <1>24, SetXidAssumption,
     ZenonT(60) DEF Step, Run, Body, SetXid, Handler, Calls

\* A call in progress knows its command and the thread it is at.
LEMMA BusyStep ==
  ASSUME Types, LocalsFit, Children, CallFits, NEW t \in Threads, Step(t), holder' # NoThread
  PROVE  Busy'
<1>0. /\ Fits(t)
      /\ holder # NoThread => Busy /\ holder \in Threads /\ Fits(holder) /\ (cur \in Threads => Fits(cur))
      /\ holder = NoThread => Idle
      /\ \A u \in Threads : "SETXID" \in flags[u] => u \in used
      /\ pc[t] \in {"clone", "undo"} => child[t] \in Threads /\ pc[child[t]] = "embryo"
  BY Zenon DEF Types, LocalsFit, CallFits, Children, Fits
<1>a. pc[t] \in CallPlaces => holder = t /\ holder # NoThread
  BY InCall, Zenon
<1>1. CASE hpc[t] = "no" /\ Clone(t)
  BY <1>1, <1>0, Zenon DEF Types, Busy, ExitPlaces, UnmarkPlaces, CurPlaces, Walk, Ghost, Clone
<1>2. CASE hpc[t] = "no" /\ DeallocateStack(t)
  BY <1>2, Zenon DEF Walk, Ghost, DeallocateStack
<1>3. CASE hpc[t] = "no" /\ (Start(t) \/ StartWake(t))
  BY <1>3, <1>0 DEF Types, Busy, UnmarkPlaces, CurPlaces, Walk, Ghost, Goto, Start, StartWake
<1>4. CASE hpc[t] = "no" /\ (Exit(t) \/ ExitTest(t) \/ ExitWait(t) \/ ExitReset(t))
  BY <1>4, <1>0
     DEF Types, Busy, UnmarkPlaces, CurPlaces, Walk, Program, Ghost, Goto, Exit, Descriptors,
         ExitTest, ExitWait, ExitReset
<1>5. CASE hpc[t] = "no" /\ ExitDetached(t)
  BY <1>5, Zenon DEF Walk, Program, Ghost, Goto, ExitDetached
<1>6. CASE hpc[t] = "no" /\ ExitJoinable(t)
  BY <1>6, <1>0
     DEF Busy, UnmarkPlaces, CurPlaces, Descriptors, Walk, Program, Ghost, Goto, ExitJoinable
<1>7. CASE hpc[t] = "no" /\ Call(t)
  <2>1. holder \in Threads /\ holder # t /\ holder' = holder
    BY <1>7, <1>0, Zenon DEF Fits, Call, CallPlaces, MarkPlaces, SignalPlaces, UnmarkPlaces
  <2>2. arg'[holder] = arg[holder] /\ pc'[holder] = pc[holder]
    BY <1>7, <2>1 DEF Call, Goto
  <2> QED
    BY <1>7, <1>0, <2>2, Zenon DEF Busy, Call, Descriptors, Walk
<1>8. CASE hpc[t] = "no" /\ Lock(t)
  <2>1. holder' = t /\ xidcmd'.id = arg[t] /\ arg' = arg /\ pc'[t] = "mark"
    BY <1>8, Zenon DEF Types, Lock, Goto, Program
  <2>2. todo' = used \ {t} /\ used' = used /\ "SETXID" \notin flags'[t]
    BY <1>8, <1>0, Zenon DEF Lock, Descriptors, Idle
  <2> QED
    BY <2>1, <2>2, Zenon DEF Busy, CurPlaces, UnmarkPlaces
<1>9. CASE hpc[t] = "no" /\ MarkNext(t)
  <2>1. PICK x \in todo :
          /\ todo' = todo \ {x} /\ cur' = x
          /\ futex' = IF futex[x] = -1 THEN [futex EXCEPT ![x] = -2] ELSE futex
          /\ pc' = [pc EXCEPT ![t] = IF futex[x] = -1 THEN "markwait" ELSE "markhold"]
    BY <1>9, Zenon DEF MarkNext, Goto
  <2>2. holder = t /\ Busy
    BY <1>9, <1>0, <1>a, Zenon DEF MarkNext, CallPlaces, MarkPlaces
  <2>3. x \in Threads /\ x \in used /\ x # t /\ (futex[x] = -2 => pc[t] \in {"markwait", "markasleep"})
    BY <2>2, Zenon DEF Busy, Types, CallFits
  <2>4. futex'[x] # -1 /\ (pc'[t] = "markhold" => futex'[x] \notin {-2, -1})
    BY <1>9, <2>1, <2>3, Zenon DEF Types, MarkNext
  <2>5. pc'[t] \in {"markwait", "markhold"}
    BY <2>1, Zenon DEF Types
  <2> QED
    BY <1>9, <2>1, <2>2, <2>4 DEF Busy, MarkNext, Program, UnmarkPlaces
<1>10. CASE hpc[t] = "no" /\ (MarkWait(t) \/ MarkHold(t))
  BY <1>10, <1>0
     DEF Types, Busy, ExitPlaces, SignalPlaces, UnmarkPlaces, CurPlaces, Descriptors, Walk, Program,
         Ghost, Goto, MarkWait, MarkHold
<1>11. CASE hpc[t] = "no" /\ MarkFlag(t)
  BY <1>11, <1>0
     DEF Types, Fits, Busy, CallPlaces, MarkPlaces, SignalPlaces, UnmarkPlaces, CurPlaces, Walk,
         Program, Ghost, Goto, MarkFlag
<1>12. CASE hpc[t] = "no" /\ (Release(t) \/ ReleaseWake(t))
  BY <1>12, <1>0
     DEF Types, Busy, ExitPlaces, UnmarkPlaces, CurPlaces, Walk, Program, Ghost, Goto, Release,
         Descriptors, ReleaseWake
<1>13. CASE hpc[t] = "no" /\ SignalRound(t)
  BY <1>13, <1>0
     DEF Fits, Busy, CallPlaces, MarkPlaces, SignalPlaces, UnmarkPlaces, CurPlaces, SignalsSent,
         Descriptors, Program, Ghost, Goto, SignalRound
<1>14. CASE hpc[t] = "no" /\ Signal(t)
  BY <1>14, <1>0, <1>a
     DEF Types, Busy, CallPlaces, SignalPlaces, UnmarkPlaces, CurPlaces, Descriptors, Program, Goto,
         Signal
<1>15. CASE hpc[t] = "no" /\ SignalCount(t)
  BY <1>15, <1>0 DEF Busy, UnmarkPlaces, CurPlaces, Descriptors, Program, Ghost, Goto, SignalCount
<1>16. CASE hpc[t] = "no" /\ WaitAnswers(t)
  BY <1>16, <1>0
     DEF Busy, UnmarkPlaces, CurPlaces, Descriptors, Walk, Program, Ghost, Goto, WaitAnswers
<1>17. CASE hpc[t] = "no" /\ Unmark(t)
  BY <1>17, <1>0
     DEF Fits, Busy, CallPlaces, SignalPlaces, CurPlaces, SignalsSent, Descriptors, Program, Ghost,
         Goto, Unmark
<1>18. CASE hpc[t] = "no" /\ UnmarkNext(t)
  BY <1>18, <1>0 DEF Types, Fits, Busy, CallPlaces, UnmarkPlaces, Program, Ghost, Goto, UnmarkNext
<1>19. CASE hpc[t] = "no" /\ SetSelf(t)
  BY <1>19, Zenon DEF Descriptors, Goto, SetSelf
<1>20. CASE \E x \in Threads : AllocateStack(t, x)
  BY <1>20, Zenon DEF Walk, Ghost, AllocateStack
<1>21. CASE \E x \in Threads : Join(t, x)
  BY <1>21, Zenon DEF Walk, Program, Ghost, Goto, Join
<1>22. CASE Sighandler(t)
  BY <1>22, <1>0
     DEF Busy, SignalPlaces, UnmarkPlaces, CurPlaces, Descriptors, Walk, Program, Sighandler
<1>23. CASE HandlerRelease(t)
  BY <1>23, <1>0 DEF Types, Busy, Walk, Program, Ghost, HandlerRelease
<1>24. CASE HandlerCount(t) \/ HandlerWake(t)
  BY <1>24, <1>0
     DEF Types, Busy, UnmarkPlaces, CurPlaces, Descriptors, Walk, Program, Ghost, HandlerCount,
         HandlerWake
<1> QED
  BY <1>1, <1>2, <1>3, <1>4, <1>5, <1>6, <1>7, <1>8, <1>9, <1>10, <1>11, <1>12, <1>13, <1>14,
     <1>15, <1>16, <1>17, <1>18, <1>19, <1>20, <1>21, <1>22, <1>23, <1>24, SetXidAssumption,
     ZenonT(60) DEF Step, Run, Body, SetXid, Handler, Calls

\* Only the thread the caller is at is awaited.
LEMMA AwaitedStep ==
  ASSUME Types, LocalsFit, Children, CallFits, NEW t \in Threads, Step(t),
         NEW u \in Threads, futex'[u] = -2
  PROVE  holder' # NoThread /\ cur' = u /\ pc'[holder'] \in {"markwait", "markasleep"}
<1>0. /\ Fits(t)
      /\ holder # NoThread => holder \in Threads /\ Fits(holder)
      /\ futex[u] = -2 => holder # NoThread /\ cur = u /\ pc[holder] \in {"markwait", "markasleep"}
      /\ pc[t] \in {"clone", "undo"} => child[t] \in Threads /\ pc[child[t]] = "embryo"
  BY Zenon DEF Types, LocalsFit, CallFits, Children
<1>a. pc[t] \in CallPlaces => holder = t /\ holder # NoThread
  BY InCall, ZenonT(60)
<1>1. CASE hpc[t] = "no" /\ Clone(t)
  BY <1>1, <1>0, Zenon DEF Types, Walk, Ghost, Clone
<1>2. CASE hpc[t] = "no" /\ DeallocateStack(t)
  BY <1>2, <1>0, <1>a DEF Freed, Walk, Ghost, DeallocateStack
<1>3. CASE hpc[t] = "no" /\ (Start(t) \/ StartWake(t))
  BY <1>3, <1>0 DEF Types, CallPlaces, CurPlaces, Walk, Ghost, Goto, Start, StartWake
<1>4. CASE hpc[t] = "no" /\ (Exit(t) \/ ExitTest(t) \/ ExitWait(t) \/ ExitReset(t))
  BY <1>4, <1>0
     DEF Types, CallPlaces, Walk, Program, Ghost, Goto, Exit, Descriptors, ExitTest, ExitWait,
         ExitReset
<1>5. CASE hpc[t] = "no" /\ ExitDetached(t)
  BY <1>5, <1>0 DEF Freed, Walk, Program, Ghost, Goto, ExitDetached
<1>6. CASE hpc[t] = "no" /\ ExitJoinable(t)
  BY <1>6, <1>0 DEF Descriptors, Walk, Program, Ghost, Goto, ExitJoinable
<1>7. CASE hpc[t] = "no" /\ Call(t)
  BY <1>7, <1>0 DEF Descriptors, Walk, Goto, Call
<1>8. CASE hpc[t] = "no" /\ Lock(t)
  BY <1>8, <1>0, Zenon DEF Descriptors, Program, Ghost, Goto, Lock
<1>9. CASE hpc[t] = "no" /\ MarkNext(t)
  BY <1>9, <1>0, <1>a, Zenon DEF Types, CallPlaces, MarkPlaces, Program, Ghost, Goto, MarkNext
<1>10. CASE hpc[t] = "no" /\ (MarkWait(t) \/ MarkHold(t))
  BY <1>10, <1>0 DEF Types, Descriptors, Walk, Program, Ghost, Goto, MarkWait, MarkHold
<1>11. CASE hpc[t] = "no" /\ MarkFlag(t)
  BY <1>11, <1>0, Zenon DEF Fits, CallPlaces, MarkPlaces, Walk, Program, Ghost, Goto, MarkFlag
<1>12. CASE hpc[t] = "no" /\ (Release(t) \/ ReleaseWake(t))
  BY <1>12, <1>0
     DEF Types, MarkPlaces, UnmarkPlaces, Walk, Program, Ghost, Goto, Release, Descriptors,
         ReleaseWake
<1>13. CASE hpc[t] = "no" /\ SignalRound(t)
  BY <1>13, <1>0, Zenon
     DEF Fits, CallPlaces, MarkPlaces, SignalPlaces, SignalsSent, Descriptors, Program, Ghost, Goto,
         SignalRound
<1>14. CASE hpc[t] = "no" /\ Signal(t)
  BY <1>14, <1>0, Zenon
     DEF Fits, Busy, CallPlaces, MarkPlaces, SignalPlaces, UnmarkPlaces, CurPlaces, Alive,
         Descriptors, Program, Goto, Signal
<1>15. CASE hpc[t] = "no" /\ SignalCount(t)
  BY <1>15, <1>0 DEF Descriptors, Program, Ghost, Goto, SignalCount
<1>16. CASE hpc[t] = "no" /\ WaitAnswers(t)
  BY <1>16, <1>0 DEF SignalsSent, Descriptors, Walk, Program, Ghost, Goto, WaitAnswers
<1>17. CASE hpc[t] = "no" /\ Unmark(t)
  BY <1>17, <1>0 DEF SignalsSent, Descriptors, Program, Ghost, Goto, Unmark
<1>18. CASE hpc[t] = "no" /\ UnmarkNext(t)
  BY <1>18, <1>0, Zenon DEF Fits, CallPlaces, UnmarkPlaces, Program, Ghost, Goto, UnmarkNext
<1>19. CASE hpc[t] = "no" /\ SetSelf(t)
  BY <1>19, <1>0, Zenon DEF Fits, CallPlaces, UnmarkPlaces, Descriptors, Goto, SetSelf
<1>20. CASE \E x \in Threads : AllocateStack(t, x)
  BY <1>20, <1>0 DEF Walk, Ghost, AllocateStack
<1>21. CASE \E x \in Threads : Join(t, x)
  BY <1>21, <1>0 DEF Freed, Walk, Program, Ghost, Goto, Join
<1>22. CASE Sighandler(t)
  BY <1>22, <1>0 DEF Descriptors, Walk, Program, Sighandler
<1>23. CASE HandlerRelease(t)
  BY <1>23, <1>0 DEF Walk, Program, Ghost, HandlerRelease
<1>24. CASE HandlerCount(t) \/ HandlerWake(t)
  BY <1>24, <1>0 DEF SignalPlaces, Descriptors, Walk, Program, Ghost, HandlerCount, HandlerWake
<1> QED
  BY <1>1, <1>2, <1>3, <1>4, <1>5, <1>6, <1>7, <1>8, <1>9, <1>10, <1>11, <1>12, <1>13, <1>14,
     <1>15, <1>16, <1>17, <1>18, <1>19, <1>20, <1>21, <1>22, <1>23, <1>24, SetXidAssumption,
     ZenonT(60) DEF Step, Run, Body, SetXid, Handler, Calls

\* A step that neither signals nor counts.
Quiet ==
  /\ Answering' = Answering /\ xidcmd'.cntr = xidcmd.cntr
  /\ Signalling' <=> Signalling
  /\ Signalling =>
       /\ holder' = holder /\ todo' \subseteq todo
       /\ pc'[holder] = "count" <=> pc[holder] = "count"

Counts(t) == SignalRound(t) \/ Signal(t) \/ SignalCount(t) \/ Unmark(t) \/ HandlerCount(t)

\* All other steps leave the counter and those it counts alone.
LEMMA QuietStep ==
  ASSUME Types, LocalsFit, Children, CallFits, AnswersCounted, NEW t \in Threads, Step(t), ~Counts(t)
  PROVE  Quiet
<1>0. /\ Fits(t)
      /\ holder # NoThread => holder \in Threads /\ Fits(holder)
      /\ ~Signalling => xidcmd.cntr = 0
      /\ pc[t] \in {"clone", "undo"} => child[t] \in Threads /\ pc[child[t]] = "embryo"
  BY Zenon DEF Types, LocalsFit, AnswersCounted, Children
<1>a. /\ pc[t] \in CallPlaces => holder = t /\ holder # NoThread
      /\ pc[t] \in CurPlaces => cur \in Threads /\ cur # t
  BY InCall, Zenon
<1>1. CASE hpc[t] = "no" /\ Clone(t)
  BY <1>1, <1>0, Zenon DEF Types, Quiet, Signalling, Answering, SignalPlaces, Walk, Ghost, Clone
<1>2. CASE hpc[t] = "no" /\ DeallocateStack(t)
  BY <1>2, Zenon DEF Quiet, Signalling, Answering, Walk, Ghost, DeallocateStack
<1>3. CASE hpc[t] = "no" /\ (Start(t) \/ StartWake(t))
  BY <1>3
     DEF Types, Quiet, Signalling, Answering, MarkPlaces, SignalPlaces, Walk, Ghost, Goto, Start,
         StartWake
<1>4. CASE hpc[t] = "no" /\ (Exit(t) \/ ExitTest(t) \/ ExitWait(t) \/ ExitReset(t))
  BY <1>4
     DEF Types, Quiet, Signalling, Answering, SignalPlaces, Walk, Program, Ghost, Goto, Exit,
         Descriptors, ExitTest, ExitWait, ExitReset
<1>5. CASE hpc[t] = "no" /\ ExitDetached(t)
  BY <1>5, <1>0, Zenon
     DEF Fits, Quiet, Signalling, Answering, Walk, Program, Ghost, Goto, ExitDetached
<1>6. CASE hpc[t] = "no" /\ ExitJoinable(t)
  BY <1>6, <1>0
     DEF Fits, Quiet, Signalling, Answering, SignalPlaces, Descriptors, Walk, Program, Ghost, Goto,
         ExitJoinable
<1>7. CASE hpc[t] = "no" /\ Call(t)
  BY <1>7 DEF Quiet, Signalling, Answering, SignalPlaces, Descriptors, Walk, Goto, Call
<1>8. CASE hpc[t] = "no" /\ Lock(t)
  BY <1>8, <1>0, SetXidAssumption
     DEF Quiet, Signalling, Answering, SignalPlaces, UnmarkPlaces, Descriptors, Program, Ghost,
         Goto, Lock
<1>9. CASE hpc[t] = "no" /\ MarkNext(t)
  BY <1>9 DEF Quiet, Signalling, Answering, SignalPlaces, Program, Ghost, Goto, MarkNext
<1>10. CASE hpc[t] = "no" /\ (MarkWait(t) \/ MarkHold(t))
  BY <1>10
     DEF Types, Quiet, Signalling, Answering, SignalPlaces, Descriptors, Walk, Program, Ghost, Goto,
         MarkWait, MarkHold
<1>11. CASE hpc[t] = "no" /\ MarkFlag(t)
  BY <1>11, Zenon
     DEF Types, Quiet, Signalling, Answering, SignalPlaces, Walk, Program, Ghost, Goto, MarkFlag
<1>12. CASE hpc[t] = "no" /\ (Release(t) \/ ReleaseWake(t))
  BY <1>12
     DEF Types, Quiet, Signalling, Answering, CallPlaces, MarkPlaces, SignalPlaces, CurPlaces, Walk,
         Program, Ghost, Goto, Release, Descriptors, ReleaseWake
<1>13. CASE hpc[t] = "no" /\ WaitAnswers(t)
  BY <1>13
     DEF Quiet, Signalling, Answering, CallPlaces, SignalPlaces, UnmarkPlaces, SignalsSent,
         Descriptors, Walk, Program, Ghost, Goto, WaitAnswers
<1>14. CASE hpc[t] = "no" /\ UnmarkNext(t)
  BY <1>14
     DEF Quiet, Signalling, Answering, CallPlaces, SignalPlaces, Program, Ghost, Goto, UnmarkNext
<1>15. CASE hpc[t] = "no" /\ SetSelf(t)
  BY <1>15, <1>0, Zenon
     DEF Fits, Quiet, Signalling, Answering, CallPlaces, SignalPlaces, UnmarkPlaces, NoCommand,
         Descriptors, Goto, SetSelf
<1>16. CASE \E x \in Threads : AllocateStack(t, x)
  BY <1>16, Zenon DEF Quiet, Signalling, Answering, Walk, Ghost, AllocateStack
<1>17. CASE \E x \in Threads : Join(t, x)
  BY <1>17, Zenon DEF Quiet, Signalling, Answering, Walk, Program, Ghost, Goto, Join
<1>18. CASE Sighandler(t)
  BY <1>18, Zenon
     DEF Types, Quiet, Signalling, Answering, SignalPlaces, UnmarkPlaces, Descriptors, Walk,
         Program, Sighandler
<1>19. CASE HandlerRelease(t)
  BY <1>19 DEF Quiet, Signalling, Answering, Walk, Program, Ghost, HandlerRelease
<1>20. CASE HandlerWake(t)
  BY <1>20, Zenon
     DEF Types, Quiet, Signalling, Answering, SignalPlaces, CurPlaces, Descriptors, Walk, Program,
         Ghost, HandlerWake
<1> QED
  BY <1>1, <1>2, <1>3, <1>4, <1>5, <1>6, <1>7, <1>8, <1>9, <1>10, <1>11, <1>12, <1>13, <1>14,
     <1>15, <1>16, <1>17, <1>18, <1>19, <1>20
     DEF Step, Run, Body, SetXid, Handler, Calls, Counts

\* What Cardinality says of the threads whose answer is awaited: n of them, none exactly when the
\* set is empty, one more with another thread, one less without one of them.
CountsAnswers(n) ==
  /\ n = Cardinality(Answering) /\ n \in Nat
  /\ n = 0 <=> Answering = {}
  /\ \A x \in Threads \ Answering : Cardinality(Answering \cup {x}) = n + 1
  /\ \A x \in Answering : Cardinality(Answering \ {x}) = n - 1

\* The counter counts the answers that are awaited.
LEMMA AnswersCountedStep ==
  ASSUME Types, LocalsFit, Children, CallFits, AnswersCounted, NEW t \in Threads, Step(t),
         NEW n, CountsAnswers(n)
  PROVE  AnswersCounted'
<1>0. /\ n = Cardinality(Answering) /\ n \in Nat
      /\ n = 0 <=> Answering = {}
  BY Zenon DEF CountsAnswers
<1>a. pc[t] \in CallPlaces => holder = t /\ holder # NoThread
  BY InCall, Zenon
<1>b. xidcmd.cntr \in Int
  BY Zenon DEF Types
<1>c. ~(t \in pending /\ hpc[t] = "count")
  BY Zenon DEF LocalsFit, Fits
<1>1. CASE ~Counts(t)
  <2>1. Quiet
    BY <1>1, QuietStep, Zenon
  <2>2. CASE ~Signalling
    BY <2>1, Zenon DEF Quiet, AnswersCounted
  <2>3. CASE Signalling
    <3>1. holder' = holder /\ Cardinality(Answering') = n /\ Signalling'
      BY <1>0, <2>1, <2>3, Zenon DEF Quiet
    <3>2. (IF pc'[holder'] = "count" THEN 1 ELSE 0) = (IF pc[holder] = "count" THEN 1 ELSE 0)
      BY <2>1, <2>3, Zenon DEF Quiet
    <3>3. xidcmd'.cntr = Cardinality(Answering') - (IF pc'[holder'] = "count" THEN 1 ELSE 0)
      BY <2>1, <3>1, Zenon DEF Quiet, AnswersCounted
    <3> QED
      BY <2>1, Zenon DEF Quiet, AnswersCounted
  <2> QED
    BY <2>2, <2>3, Zenon
<1>2. CASE SignalRound(t)
  <2>1. holder = t /\ holder # NoThread /\ holder' = holder
    BY <1>2, <1>a, Zenon DEF SignalRound, SignalsSent, CallPlaces, MarkPlaces, SignalPlaces
  <2>2. pc'[t] = "signal"
    BY <1>2, Zenon DEF SignalRound, Types, Goto
  <2>3. Answering' = Answering /\ xidcmd' = xidcmd
    BY <1>2, Zenon DEF SignalRound, Answering
  <2>4. Answering = {} /\ xidcmd.cntr = 0
    <3>1. CASE pc[t] = "mark"
      BY <2>1, <3>1, Zenon DEF AnswersCounted, Signalling, SignalPlaces
    <3>2. CASE pc[t] # "mark"
      <4>1. Signalling /\ pc[holder] # "count" /\ xidcmd.cntr = 0
        BY <1>2, <2>1, <3>2, Zenon DEF SignalRound, SignalsSent, Signalling, SignalPlaces
      <4>2. xidcmd.cntr = n - 0
        BY <1>0, <4>1, Zenon DEF AnswersCounted
      <4> QED
        BY <1>0, <4>1, <4>2
    <3> QED
      BY <3>1, <3>2, Zenon
  <2>5. Signalling'
    BY <2>1, <2>2, Zenon DEF Signalling, SignalPlaces
  <2>6. Cardinality(Answering') = 0
    BY <1>0, <2>3, <2>4, Zenon
  <2> QED
    BY <2>1, <2>2, <2>3, <2>4, <2>5, <2>6 DEF AnswersCounted
<1>3. CASE Signal(t)
  <2>1. holder = t /\ holder # NoThread /\ holder' = holder /\ xidcmd' = xidcmd /\ hpc' = hpc /\ pc[t] = "signal"
    BY <1>3, <1>a, Zenon DEF Signal, CallPlaces, SignalPlaces
  <2>2. Signalling /\ xidcmd.cntr = n - 0 /\ t \notin Answering /\ Answering \cap todo = {}
    BY <1>0, <2>1, Zenon DEF AnswersCounted, Signalling, SignalPlaces
  <2>3. PICK x \in todo :
          /\ todo' = todo \ {x}
          /\ \/ pending' = pending \cup {x} /\ pc' = [pc EXCEPT ![t] = "count"]
             \/ pending' = pending /\ pc' = pc
    BY <1>3, Zenon DEF Signal, Goto
  <2>4. x \in Threads /\ x # t
    BY <2>1, Zenon DEF CallFits, Busy, Types
  <2>5. CASE pending' = pending \cup {x} /\ pc' = [pc EXCEPT ![t] = "count"]
    <3>1. Answering' = Answering \cup {x}
      BY <2>1, <2>4, <2>5, Zenon DEF Answering
    <3>2. x \notin Answering
      BY <2>2, Zenon
    <3>3. Cardinality(Answering') = n + 1
      BY <2>4, <3>1, <3>2, Zenon DEF CountsAnswers
    <3>4. pc'[holder'] = "count" /\ Signalling'
      BY <2>1, <2>5, Zenon DEF Types, Signalling, SignalPlaces
    <3>5. xidcmd'.cntr = Cardinality(Answering') - 1
      BY <1>0, <2>1, <2>2, <3>3
    <3>6. holder' \notin Answering' /\ Answering' \cap todo' = {}
      BY <2>1, <2>2, <2>3, <2>4, <3>1, Zenon
    <3> QED
      BY <3>4, <3>5, <3>6, Zenon DEF AnswersCounted
  <2>6. CASE pending' = pending /\ pc' = pc
    <3>1. Answering' = Answering
      BY <2>1, <2>6, Zenon DEF Answering
    <3>2. pc'[holder'] = "signal" /\ Signalling'
      BY <2>1, <2>6, Zenon DEF Signalling, SignalPlaces
    <3> QED
      BY <2>1, <2>2, <2>3, <3>1, <3>2, Zenon DEF AnswersCounted
  <2> QED
    BY <2>3, <2>5, <2>6, Zenon
<1>4. CASE SignalCount(t)
  <2>1. /\ holder = t /\ holder # NoThread /\ holder' = holder /\ todo' = todo
        /\ Answering' = Answering /\ pc[t] = "count" /\ pc'[t] = "signal"
    BY <1>4, <1>a, Zenon DEF SignalCount, CallPlaces, SignalPlaces, Types, Answering, Goto
  <2>2. xidcmd'.cntr = xidcmd.cntr + 1
    BY <1>4 DEF SignalCount
  <2>3. Signalling /\ Signalling'
    BY <2>1, Zenon DEF Signalling, SignalPlaces
  <2>4. xidcmd.cntr = n - 1
    BY <1>0, <2>1, <2>3, Zenon DEF AnswersCounted
  <2>5. Cardinality(Answering') = n
    BY <1>0, <2>1, Zenon
  <2>6. xidcmd'.cntr = Cardinality(Answering') - 0
    BY <1>0, <2>2, <2>4, <2>5
  <2> QED
    BY <2>1, <2>3, <2>6, Zenon DEF AnswersCounted
<1>5. CASE Unmark(t)
  <2>1. /\ holder = t /\ holder # NoThread /\ holder' = holder /\ Answering' = Answering
        /\ pc[t] = "signal" /\ pc'[t] = "unmark" /\ xidcmd' = xidcmd /\ xidcmd.cntr = 0
    BY <1>5, <1>a, Zenon DEF Unmark, SignalsSent, CallPlaces, SignalPlaces, Types, Answering, Goto
  <2>2. xidcmd.cntr = n - 0
    BY <1>0, <2>1 DEF AnswersCounted
  <2>3. Answering = {}
    BY <1>0, <2>1, <2>2
  <2>4. ~Signalling'
    BY <2>1, Zenon DEF Signalling, SignalPlaces
  <2> QED
    BY <2>1, <2>3, <2>4, Zenon DEF AnswersCounted
<1>6. CASE HandlerCount(t)
  <2>1. /\ holder' = holder /\ todo' = todo /\ pc' = pc
        /\ Answering' = Answering \ {t} /\ t \in Answering
    BY <1>6, <1>c, Zenon DEF HandlerCount, Types, Answering, Walk
  <2>2. xidcmd'.cntr = xidcmd.cntr - 1
    BY <1>6 DEF HandlerCount
  <2>3. Signalling /\ Signalling'
    BY <2>1, Zenon DEF AnswersCounted, Signalling
  <2>4. PICK k \in {0, 1} : k = IF pc[holder] = "count" THEN 1 ELSE 0
    OBVIOUS
  <2>5. xidcmd.cntr = n - k
    BY <1>0, <2>3, <2>4, Zenon DEF AnswersCounted
  <2>6. Cardinality(Answering') = n - 1
    BY <2>1, Zenon DEF CountsAnswers
  <2>7. xidcmd'.cntr = Cardinality(Answering') - k
    BY <1>0, <2>2, <2>5, <2>6
  <2> QED
    BY <2>1, <2>3, <2>4, <2>7, Zenon DEF AnswersCounted
<1> QED
  BY <1>1, <1>2, <1>3, <1>4, <1>5, <1>6, Zenon DEF Counts

\* The threads the first walk has passed are marked, or exit.
LEMMA MarkedStep ==
  ASSUME Types, LocalsFit, Children, CallFits, AnswersCounted, Marked, NEW t \in Threads, Step(t)
  PROVE  Marked'
<1> SUFFICES ASSUME holder' # NoThread, NEW u \in Threads, Passed(u)'
             PROVE  /\ futex'[u] \notin {-2, -1}
                    /\ pc'[holder'] \in MarkPlaces => flags'[u] # {}
  BY Zenon DEF Marked
<1>0. /\ Fits(t)
      /\ holder # NoThread /\ Passed(u) =>
           futex[u] \notin {-2, -1} /\ (pc[holder] \in MarkPlaces => flags[u] # {})
      /\ holder # NoThread => holder \in Threads /\ Fits(holder)
      /\ holder # NoThread /\ pc[holder] \in MarkPlaces => hpc[t] # "release"
      /\ pc[t] \in {"clone", "undo"} => child[t] \in Threads /\ pc[child[t]] = "embryo"
  BY Zenon
     DEF Types, LocalsFit, AnswersCounted, Signalling, Answering, MarkPlaces, SignalPlaces, Marked,
         Children
<1>a. /\ pc[t] \in CallPlaces => holder = t /\ holder # NoThread
      /\ pc[t] \in CurPlaces => cur \in Threads /\ cur # t
      /\ pc[t] \in {"markhold", "markflag", "markrelease", "markwake"} => futex[cur] \notin {-2, -1}
  BY InCall, Zenon
<1>1. CASE hpc[t] = "no" /\ Clone(t)
  BY <1>1, <1>0, Zenon DEF Types, Passed, MarkPlaces, SignalPlaces, Walk, Ghost, Clone
<1>2. CASE hpc[t] = "no" /\ DeallocateStack(t)
  BY <1>2, Zenon DEF Freed, Walk, Ghost, DeallocateStack
<1>3. CASE hpc[t] = "no" /\ (Start(t) \/ StartWake(t))
  BY <1>3, <1>0
     DEF Types, Passed, MarkPlaces, SignalPlaces, CurPlaces, Walk, Ghost, Goto, Start, StartWake
<1>4. CASE hpc[t] = "no" /\ (Exit(t) \/ ExitTest(t) \/ ExitWait(t) \/ ExitReset(t))
  BY <1>4, <1>0
     DEF Types, Passed, MarkPlaces, UnmarkPlaces, CurPlaces, Walk, Program, Ghost, Goto, Exit,
         Descriptors, ExitTest, ExitWait, ExitReset
<1>5. CASE hpc[t] = "no" /\ ExitDetached(t)
  BY <1>5, <1>0, <1>a, ZenonT(60)
     DEF Types, Fits, Passed, ExitPlaces, CallPlaces, MarkPlaces, SignalPlaces, UnmarkPlaces,
         CurPlaces, Freed, Walk, Program, Ghost, Goto, ExitDetached
<1>6. CASE hpc[t] = "no" /\ ExitJoinable(t)
  BY <1>6, <1>0
     DEF Passed, ExitPlaces, CallPlaces, MarkPlaces, UnmarkPlaces, Descriptors, Walk, Program,
         Ghost, Goto, ExitJoinable
<1>7. CASE hpc[t] = "no" /\ Call(t)
  BY <1>7, <1>0 DEF Passed, MarkPlaces, UnmarkPlaces, Descriptors, Walk, Goto, Call
<1>8. CASE hpc[t] = "no" /\ Lock(t)
  BY <1>8, <1>0, <1>a, ZenonT(60)
     DEF Types, Fits, Passed, ExitPlaces, CallPlaces, MarkPlaces, SignalPlaces, UnmarkPlaces,
         CurPlaces, Descriptors, Program, Ghost, Goto, Lock
<1>9. CASE hpc[t] = "no" /\ MarkNext(t)
  BY <1>9, <1>0 DEF Types, Fits, Passed, CallPlaces, MarkPlaces, Program, Ghost, Goto, MarkNext
<1>10. CASE hpc[t] = "no" /\ (MarkWait(t) \/ MarkHold(t))
  BY <1>10, <1>0
     DEF Types, Passed, CallPlaces, MarkPlaces, SignalPlaces, UnmarkPlaces, CurPlaces, Descriptors,
         Walk, Program, Ghost, Goto, MarkWait, MarkHold
<1>11. CASE hpc[t] = "no" /\ MarkFlag(t)
  <2>1. /\ holder = t /\ holder' = t /\ pc[t] = "markflag" /\ pc'[t] \in {"mark", "markrelease"}
        /\ cur \in Threads /\ cur' = cur /\ todo' = todo /\ used' = used /\ futex' = futex
    BY <1>11, <1>a, Zenon DEF Types, MarkFlag, Goto, Walk, CallPlaces, MarkPlaces, CurPlaces
  <2>2. flags'[cur] # {} /\ (u # cur => flags'[u] = flags[u])
    <3>1. CASE "EXITING" \in flags[cur]
      BY <1>11, <3>1, ZenonT(60) DEF MarkFlag
    <3>2. CASE "EXITING" \notin flags[cur]
      <4>1. flags' = [flags EXCEPT ![cur] = flags[cur] \cup {"SETXID"}]
        BY <1>11, <3>2, Zenon DEF MarkFlag
      <4>2. "SETXID" \in flags'[cur]
        BY <2>1, <4>1, Zenon DEF Types
      <4> QED
        BY <4>1, <4>2
    <3> QED
      BY <3>1, <3>2, Zenon
  <2>3. CASE u = cur
    BY <2>1, <2>2, <2>3, <1>a, Zenon
  <2>4. CASE u # cur
    <3>1. Passed(u)
      BY <2>1, <2>4, Zenon DEF Passed, MarkPlaces
    <3> QED
      BY <1>0, <1>a, <2>1, <2>2, <2>4, <3>1, ZenonT(60) DEF CallPlaces, MarkPlaces
  <2> QED
    BY <2>3, <2>4, Zenon
<1>12. CASE hpc[t] = "no" /\ (Release(t) \/ ReleaseWake(t))
  BY <1>12, <1>0
     DEF Types, Passed, CallPlaces, MarkPlaces, UnmarkPlaces, Walk, Program, Ghost, Goto, Release,
         Descriptors, ReleaseWake
<1>13. CASE hpc[t] = "no" /\ SignalRound(t)
  BY <1>13, <1>0, <1>a, Zenon
     DEF Types, Fits, Passed, ExitPlaces, CallPlaces, MarkPlaces, SignalPlaces, UnmarkPlaces,
         CurPlaces, SignalsSent, Descriptors, Program, Ghost, Goto, SignalRound
<1>14. CASE hpc[t] = "no" /\ Signal(t)
  BY <1>14, <1>0
     DEF Types, Fits, Passed, CallPlaces, MarkPlaces, SignalPlaces, UnmarkPlaces, Descriptors,
         Program, Goto, Signal
<1>15. CASE hpc[t] = "no" /\ SignalCount(t)
  BY <1>15, <1>0
     DEF Passed, MarkPlaces, SignalPlaces, Descriptors, Program, Ghost, Goto, SignalCount
<1>16. CASE hpc[t] = "no" /\ WaitAnswers(t)
  BY <1>16, <1>0, <1>a, ZenonT(60)
     DEF Types, Fits, Passed, ExitPlaces, CallPlaces, MarkPlaces, SignalPlaces, UnmarkPlaces,
         CurPlaces, SignalsSent, Descriptors, Walk, Program, Ghost, Goto, WaitAnswers
<1>17. CASE hpc[t] = "no" /\ Unmark(t)
  BY <1>17, <1>0, <1>a, ZenonT(60)
     DEF Types, Fits, Passed, ExitPlaces, CallPlaces, MarkPlaces, SignalPlaces, UnmarkPlaces,
         CurPlaces, SignalsSent, Descriptors, Program, Ghost, Goto, Unmark
<1>18. CASE hpc[t] = "no" /\ UnmarkNext(t)
  BY <1>18, <1>0
     DEF Fits, Passed, CallPlaces, MarkPlaces, UnmarkPlaces, CurPlaces, Program, Ghost, Goto,
         UnmarkNext
<1>19. CASE hpc[t] = "no" /\ SetSelf(t)
  BY <1>19, <1>0, <1>a, Zenon
     DEF Types, Fits, Passed, ExitPlaces, CallPlaces, MarkPlaces, SignalPlaces, UnmarkPlaces,
         CurPlaces, Descriptors, Goto, SetSelf
<1>20. CASE \E x \in Threads : AllocateStack(t, x)
  BY <1>20, <1>0, <1>a, ZenonT(60)
     DEF Types, Fits, Passed, ExitPlaces, CallPlaces, MarkPlaces, SignalPlaces, UnmarkPlaces,
         CurPlaces, Walk, Ghost, AllocateStack
<1>21. CASE \E x \in Threads : Join(t, x)
  BY <1>21, <1>0, <1>a, ZenonT(60)
     DEF Types, Fits, Passed, ExitPlaces, CallPlaces, MarkPlaces, SignalPlaces, UnmarkPlaces,
         CurPlaces, Freed, Walk, Program, Ghost, Goto, Join
<1>22. CASE Sighandler(t)
  BY <1>22, <1>0
     DEF Passed, MarkPlaces, SignalPlaces, Blocked, Descriptors, Walk, Program, Sighandler
<1>23. CASE HandlerRelease(t)
  BY <1>23, <1>0, <1>a
     DEF Types, Fits, Passed, ExitPlaces, MarkPlaces, Walk, Program, Ghost, HandlerRelease
<1>24. CASE HandlerCount(t) \/ HandlerWake(t)
  BY <1>24, <1>0
     DEF Passed, MarkPlaces, UnmarkPlaces, CurPlaces, Descriptors, Walk, Program, Ghost,
         HandlerCount, HandlerWake
<1> QED
  BY <1>1, <1>2, <1>3, <1>4, <1>5, <1>6, <1>7, <1>8, <1>9, <1>10, <1>11, <1>12, <1>13, <1>14,
     <1>15, <1>16, <1>17, <1>18, <1>19, <1>20, <1>21, <1>22, <1>23, <1>24, Zenon
     DEF Step, Run, Body, SetXid, Handler, Calls

\* A call in progress keeps its caller, its command and the caller's credentials.
LEMMA CommandKept ==
  ASSUME Types, LocalsFit, Children, CallFits, AnswersCounted, NEW t \in Threads, Step(t),
         holder # NoThread, holder' # NoThread
  PROVE  /\ holder' = holder /\ xidcmd'.id = xidcmd.id /\ ids'[holder] = ids[holder]
         /\ Sighandler(t) \/ (xidcmd'.error = xidcmd.error /\ aborted' = aborted)
         /\ pc'[holder] \in MarkPlaces => pc[holder] \in MarkPlaces
         /\ pc'[holder] \notin MarkPlaces => pc[holder] \notin MarkPlaces \/ (SignalRound(t) /\ holder = t)
         /\ pc'[holder] \in UnmarkPlaces => pc[holder] \in UnmarkPlaces \/ (Unmark(t) /\ holder = t)
<1>0. /\ Fits(t) /\ Fits(holder) /\ holder \in Threads
      /\ pc[t] \in {"clone", "undo"} => child[t] \in Threads /\ pc[child[t]] = "embryo"
  BY Zenon DEF LocalsFit, Children, Types
<1>a. /\ pc[t] \in CallPlaces => holder = t
      /\ pc[t] \in CurPlaces => cur \in Threads /\ cur # t
  BY InCall, ZenonT(60)
<1>b. holder \notin pending
  BY <1>0, ZenonT(60) DEF AnswersCounted, Answering
<1>1. CASE hpc[t] = "no" /\ Clone(t)
  BY <1>1, <1>0, <1>a, ZenonT(60)
     DEF Types, Fits, CallPlaces, MarkPlaces, SignalPlaces, UnmarkPlaces, CurPlaces, Walk, Ghost,
         Clone
<1>2. CASE hpc[t] = "no" /\ DeallocateStack(t)
  BY <1>2, <1>0, <1>a, ZenonT(60)
     DEF Types, Fits, CallPlaces, MarkPlaces, SignalPlaces, UnmarkPlaces, CurPlaces, Freed, Walk,
         Ghost, DeallocateStack
<1>3. CASE hpc[t] = "no" /\ (Start(t) \/ StartWake(t))
  BY <1>3 DEF Types, MarkPlaces, UnmarkPlaces, Walk, Ghost, Goto, Start, StartWake
<1>4. CASE hpc[t] = "no" /\ (Exit(t) \/ ExitTest(t) \/ ExitWait(t) \/ ExitReset(t))
  BY <1>4
     DEF Types, MarkPlaces, UnmarkPlaces, Walk, Program, Ghost, Goto, Exit, Descriptors, ExitTest,
         ExitWait, ExitReset
<1>5. CASE hpc[t] = "no" /\ ExitDetached(t)
  BY <1>5, <1>0, <1>a, ZenonT(60)
     DEF Types, Fits, CallPlaces, MarkPlaces, SignalPlaces, UnmarkPlaces, CurPlaces, Freed, Walk,
         Program, Ghost, Goto, ExitDetached
<1>6. CASE hpc[t] = "no" /\ ExitJoinable(t)
  BY <1>6, <1>0, <1>a, ZenonT(60)
     DEF Types, Fits, CallPlaces, MarkPlaces, SignalPlaces, UnmarkPlaces, CurPlaces, Descriptors,
         Walk, Program, Ghost, Goto, ExitJoinable
<1>7. CASE hpc[t] = "no" /\ Call(t)
  BY <1>7, <1>0, <1>a, ZenonT(60)
     DEF Types, Fits, CallPlaces, MarkPlaces, SignalPlaces, UnmarkPlaces, CurPlaces, Descriptors,
         Walk, Goto, Call
<1>8. CASE hpc[t] = "no" /\ Lock(t)
  BY <1>8, <1>0, <1>a, ZenonT(60)
     DEF Types, Fits, CallPlaces, MarkPlaces, SignalPlaces, UnmarkPlaces, CurPlaces, Descriptors,
         Program, Ghost, Goto, Lock
<1>9. CASE hpc[t] = "no" /\ MarkNext(t)
  BY <1>9, <1>0, <1>a, ZenonT(60)
     DEF Types, Fits, CallPlaces, MarkPlaces, SignalPlaces, UnmarkPlaces, CurPlaces, Program,
         Ghost, Goto, MarkNext
<1>10. CASE hpc[t] = "no" /\ (MarkWait(t) \/ MarkHold(t))
  BY <1>10, Zenon
     DEF Types, CallPlaces, MarkPlaces, SignalPlaces, UnmarkPlaces, CurPlaces, Descriptors, Walk,
         Program, Ghost, Goto, MarkWait, MarkHold
<1>11. CASE hpc[t] = "no" /\ MarkFlag(t)
  BY <1>11, Zenon DEF Types, MarkPlaces, UnmarkPlaces, Walk, Program, Ghost, Goto, MarkFlag
<1>12. CASE hpc[t] = "no" /\ (Release(t) \/ ReleaseWake(t))
  BY <1>12
     DEF Types, CallPlaces, MarkPlaces, UnmarkPlaces, Walk, Program, Ghost, Goto, Release,
         Descriptors, ReleaseWake
<1>13. CASE hpc[t] = "no" /\ SignalRound(t)
  BY <1>13, <1>0, <1>a, ZenonT(60)
     DEF Types, Fits, CallPlaces, MarkPlaces, SignalPlaces, UnmarkPlaces, CurPlaces, SignalsSent,
         Descriptors, Program, Ghost, Goto, SignalRound
<1>14. CASE hpc[t] = "no" /\ Signal(t)
  BY <1>14, Zenon
     DEF Types, Fits, CallPlaces, MarkPlaces, UnmarkPlaces, CurPlaces, Descriptors, Program, Goto,
         Signal
<1>15. CASE hpc[t] = "no" /\ SignalCount(t)
  BY <1>15 DEF MarkPlaces, UnmarkPlaces, Descriptors, Program, Ghost, Goto, SignalCount
<1>16. CASE hpc[t] = "no" /\ WaitAnswers(t)
  BY <1>16, <1>0, <1>a, ZenonT(60)
     DEF Types, Fits, CallPlaces, MarkPlaces, SignalPlaces, UnmarkPlaces, CurPlaces, SignalsSent,
         Descriptors, Walk, Program, Ghost, Goto, WaitAnswers
<1>17. CASE hpc[t] = "no" /\ Unmark(t)
  BY <1>17, <1>0, <1>a, ZenonT(60)
     DEF Types, Fits, CallPlaces, MarkPlaces, SignalPlaces, UnmarkPlaces, CurPlaces, SignalsSent,
         Descriptors, Program, Ghost, Goto, Unmark
<1>18. CASE hpc[t] = "no" /\ UnmarkNext(t)
  BY <1>18, <1>0, <1>a, ZenonT(60)
     DEF Types, Fits, CallPlaces, MarkPlaces, SignalPlaces, UnmarkPlaces, CurPlaces, Program,
         Ghost, Goto, UnmarkNext
<1>19. CASE hpc[t] = "no" /\ SetSelf(t)
  BY <1>19, <1>0, <1>a, Zenon
     DEF Types, Fits, CallPlaces, MarkPlaces, SignalPlaces, UnmarkPlaces, CurPlaces, Syscall,
         Descriptors, Goto, SetSelf
<1>20. CASE \E x \in Threads : AllocateStack(t, x)
  BY <1>20, <1>0, <1>a, ZenonT(60)
     DEF Types, Fits, CallPlaces, MarkPlaces, SignalPlaces, UnmarkPlaces, CurPlaces, Walk, Ghost,
         AllocateStack
<1>21. CASE \E x \in Threads : Join(t, x)
  BY <1>21, <1>0, <1>a, ZenonT(60)
     DEF Types, Fits, CallPlaces, MarkPlaces, SignalPlaces, UnmarkPlaces, CurPlaces, Freed, Walk,
         Program, Ghost, Goto, Join
<1>22. CASE Sighandler(t)
  BY <1>22, <1>b
     DEF MarkPlaces, SignalPlaces, CurPlaces, Syscall, Descriptors, Walk, Program, Sighandler
<1>23. CASE HandlerRelease(t)
  BY <1>23, <1>0, <1>a, ZenonT(60)
     DEF Types, Fits, CallPlaces, MarkPlaces, SignalPlaces, UnmarkPlaces, CurPlaces, Walk,
         Program, Ghost, HandlerRelease
<1>24. CASE HandlerCount(t)
  BY <1>24 DEF Descriptors, Walk, Program, Ghost, HandlerCount
<1>25. CASE HandlerWake(t)
  BY <1>25, <1>0, <1>a, Zenon
     DEF Types, Fits, CallPlaces, MarkPlaces, SignalPlaces, UnmarkPlaces, CurPlaces, Descriptors,
         Walk, Program, Ghost, HandlerWake
<1> QED
  BY <1>1, <1>2, <1>3, <1>4, <1>5, <1>6, <1>7, <1>8, <1>9, <1>10, <1>11, <1>12, <1>13, <1>14,
     <1>15, <1>16, <1>17, <1>18, <1>19, <1>20, <1>21, <1>22, <1>23, <1>24, <1>25, Zenon
     DEF Step, Run, Body, SetXid, Handler, Calls

\* Only the handler and the last walk take marks away, from threads that live.
LEMMA UnmarkedBy ==
  ASSUME Types, LocalsFit, Children, CallFits, NEW t \in Threads, Step(t),
         NEW u \in Threads, flags[u] # {}, flags'[u] = {}, Alive(u)'
  PROVE  \/ hpc[u] = "release"
         \/ "EXITING" \notin flags[u] /\ "SETXID" \in flags[u] /\ pc[t] = "unmark" /\ Alive(u)
<1>0. /\ Fits(t) /\ Fits(u)
      /\ pc[t] \in {"clone", "undo"} => child[t] \in Threads /\ pc[child[t]] = "embryo"
      /\ flags[u] \subseteq {"EXITING", "SETXID"}
  BY ZenonT(60) DEF LocalsFit, Children, Types
<1>a. pc[t] \in CurPlaces => cur \in Threads /\ cur # t
  BY InCall, Zenon
<1>1. CASE hpc[t] = "no" /\ Clone(t)
  BY <1>1, Zenon DEF Walk, Ghost, Clone
<1>2. CASE hpc[t] = "no" /\ DeallocateStack(t)
  BY <1>2, Zenon DEF Types, Alive, Freed, Walk, Ghost, DeallocateStack
<1>3. CASE hpc[t] = "no" /\ (Start(t) \/ StartWake(t))
  BY <1>3, Zenon DEF Walk, Ghost, Goto, Start, StartWake
<1>4. CASE hpc[t] = "no" /\ (Exit(t) \/ ExitTest(t) \/ ExitWait(t) \/ ExitReset(t))
  BY <1>4 DEF Types, Walk, Program, Ghost, Goto, Exit, Descriptors, ExitTest, ExitWait, ExitReset
<1>5. CASE hpc[t] = "no" /\ ExitDetached(t)
  BY <1>5, Zenon DEF Types, Alive, Freed, Walk, Program, Ghost, Goto, ExitDetached
<1>6. CASE hpc[t] = "no" /\ ExitJoinable(t)
  BY <1>6, <1>0, <1>a, ZenonT(60)
     DEF Types, Alive, Idle, Fits, CurPlaces, CallPlaces, MarkPlaces, SignalPlaces, UnmarkPlaces,
         Descriptors, Walk, Program, Ghost, Goto, ExitJoinable
<1>7. CASE hpc[t] = "no" /\ Call(t)
  BY <1>7, <1>0, <1>a, ZenonT(60)
     DEF Types, Alive, Idle, Fits, CurPlaces, CallPlaces, MarkPlaces, SignalPlaces, UnmarkPlaces,
         Descriptors, Walk, Goto, Call
<1>8. CASE hpc[t] = "no" /\ Lock(t)
  BY <1>8, <1>0, <1>a, ZenonT(60)
     DEF Types, Alive, Idle, Fits, CurPlaces, CallPlaces, MarkPlaces, SignalPlaces, UnmarkPlaces,
         Descriptors, Program, Ghost, Goto, Lock
<1>9. CASE hpc[t] = "no" /\ MarkNext(t)
  BY <1>9, <1>0, <1>a, ZenonT(60)
     DEF Types, Alive, Idle, Fits, CurPlaces, CallPlaces, MarkPlaces, SignalPlaces, UnmarkPlaces,
         Program, Ghost, Goto, MarkNext
<1>10. CASE hpc[t] = "no" /\ (MarkWait(t) \/ MarkHold(t))
  BY <1>10, <1>0, <1>a, ZenonT(60)
     DEF Types, Alive, Idle, Fits, CurPlaces, CallPlaces, MarkPlaces, SignalPlaces, UnmarkPlaces,
         Descriptors, Walk, Program, Ghost, Goto, MarkWait, MarkHold
<1>11. CASE hpc[t] = "no" /\ MarkFlag(t)
  BY <1>11 DEF Types, Alive, Walk, Program, Ghost, Goto, MarkFlag
<1>12. CASE hpc[t] = "no" /\ (Release(t) \/ ReleaseWake(t))
  BY <1>12, <1>0, <1>a, Zenon
     DEF Types, Alive, Idle, Fits, CurPlaces, CallPlaces, MarkPlaces, SignalPlaces, UnmarkPlaces,
         Walk, Program, Ghost, Goto, Release, Descriptors, ReleaseWake
<1>13. CASE hpc[t] = "no" /\ SignalRound(t)
  BY <1>13, <1>0, <1>a, ZenonT(60)
     DEF Types, Alive, Idle, Fits, CurPlaces, CallPlaces, MarkPlaces, SignalPlaces, UnmarkPlaces,
         SignalsSent, Descriptors, Program, Ghost, Goto, SignalRound
<1>14. CASE hpc[t] = "no" /\ Signal(t)
  BY <1>14, <1>0, <1>a, Zenon
     DEF Types, Alive, Idle, Fits, CurPlaces, CallPlaces, MarkPlaces, SignalPlaces, UnmarkPlaces,
         Descriptors, Program, Goto, Signal
<1>15. CASE hpc[t] = "no" /\ SignalCount(t)
  BY <1>15, Zenon DEF Descriptors, Program, Ghost, Goto, SignalCount
<1>16. CASE hpc[t] = "no" /\ WaitAnswers(t)
  BY <1>16, <1>0, <1>a, ZenonT(60)
     DEF Types, Alive, Idle, Fits, CurPlaces, CallPlaces, MarkPlaces, SignalPlaces, UnmarkPlaces,
         SignalsSent, Descriptors, Walk, Program, Ghost, Goto, WaitAnswers
<1>17. CASE hpc[t] = "no" /\ Unmark(t)
  BY <1>17, <1>0, <1>a, ZenonT(60)
     DEF Types, Alive, Idle, Fits, CurPlaces, CallPlaces, MarkPlaces, SignalPlaces, UnmarkPlaces,
         SignalsSent, Descriptors, Program, Ghost, Goto, Unmark
<1>18. CASE hpc[t] = "no" /\ UnmarkNext(t)
  BY <1>18 DEF Alive, Program, Ghost, Goto, UnmarkNext
<1>19. CASE hpc[t] = "no" /\ SetSelf(t)
  BY <1>19, <1>0, <1>a, Zenon
     DEF Types, Alive, Idle, Fits, CurPlaces, CallPlaces, MarkPlaces, SignalPlaces, UnmarkPlaces,
         Syscall, Descriptors, Goto, SetSelf
<1>20. CASE \E x \in Threads : AllocateStack(t, x)
  BY <1>20, <1>0, <1>a, ZenonT(60)
     DEF Types, Alive, Idle, Fits, CurPlaces, CallPlaces, MarkPlaces, SignalPlaces, UnmarkPlaces,
         Walk, Ghost, AllocateStack
<1>21. CASE \E x \in Threads : Join(t, x)
  BY <1>21 DEF Alive, Freed, Walk, Program, Ghost, Goto, Join
<1>22. CASE Sighandler(t)
  BY <1>22, Zenon DEF Descriptors, Walk, Program, Sighandler
<1>23. CASE HandlerRelease(t)
  BY <1>23, <1>0, <1>a, ZenonT(60)
     DEF Types, Alive, Idle, Fits, CurPlaces, CallPlaces, MarkPlaces, SignalPlaces, UnmarkPlaces,
         Walk, Program, Ghost, HandlerRelease
<1>24. CASE HandlerCount(t)
  BY <1>24, Zenon DEF Descriptors, Walk, Program, Ghost, HandlerCount
<1>25. CASE HandlerWake(t)
  BY <1>25, <1>0, <1>a, ZenonT(60)
     DEF Types, Alive, Idle, Fits, CurPlaces, CallPlaces, MarkPlaces, SignalPlaces, UnmarkPlaces,
         Descriptors, Walk, Program, Ghost, HandlerWake
<1> QED
  BY <1>1, <1>2, <1>3, <1>4, <1>5, <1>6, <1>7, <1>8, <1>9, <1>10, <1>11, <1>12, <1>13, <1>14,
     <1>15, <1>16, <1>17, <1>18, <1>19, <1>20, <1>21, <1>22, <1>23, <1>24, <1>25, ZenonT(60)
     DEF Step, Run, Body, SetXid, Handler, Calls

\* A lost signal is not forgotten.
LEMMA LostStays ==
  ASSUME Types, NEW t \in Threads, Step(t), ~lost'
  PROVE  ~lost
<1>1. lost' = lost \/ lost' = TRUE
  BY ZenonT(60)
     DEF Step, Run, Body, Handler, Calls, SetXid, Ghost, Clone, DeallocateStack, Start, StartWake,
         ExitTest, ExitWait, ExitReset, ExitDetached, ExitJoinable, Lock, MarkNext, MarkWait,
         MarkHold, MarkFlag, Release, ReleaseWake, SignalRound, Signal, SignalCount, WaitAnswers,
         Unmark, UnmarkNext, SetSelf, Exit, Call, Sighandler, HandlerRelease, HandlerCount,
         HandlerWake, AllocateStack, Join
<1> QED
  BY <1>1, Zenon

\* The system call of a thread that obeys goes as the caller's will.
LEMMA SyscallMakesNew ==
  ASSUME Types, NEW t \in Threads, holder \in Threads, ids[t] \in {ids[holder], New},
         Syscall(t, xidcmd.id)
  PROVE  ids'[t] = New /\ SyscallError(t, xidcmd.id) = SyscallError(holder, xidcmd.id)
<1>1. ids[t] \in {0, 1} /\ ids[holder] \in {0, 1} /\ xidcmd.id \in {0, 1}
  BY Zenon DEF Types, Ids
<1>2. SyscallError(t, xidcmd.id) = SyscallError(holder, xidcmd.id)
  BY <1>1, Zenon DEF SyscallError, New
<1>3. ids'[t] = IF SyscallError(t, xidcmd.id) = 0 THEN xidcmd.id ELSE ids[t]
  BY Zenon DEF Syscall, Types
<1> QED
  BY <1>1, <1>2, <1>3, ZenonT(60) DEF SyscallError, New

\* During a call, every other thread keeps to the credentials of the caller.
LEMMA ObeysStep ==
  ASSUME IInv, NEW t \in Threads, Step(t), ~lost, holder # NoThread, holder' # NoThread,
         NEW u \in Threads, u # holder
  PROVE  Obeys(u)'
<1> USE DEF IInv
<1>1. /\ holder' = holder /\ holder \in Threads /\ ids'[holder] = ids[holder]
      /\ pc'[holder] \in MarkPlaces => pc[holder] \in MarkPlaces
      /\ pc'[holder] \notin MarkPlaces => pc[holder] \notin MarkPlaces \/ (SignalRound(t) /\ holder = t)
      /\ pc'[holder] \in UnmarkPlaces => pc[holder] \in UnmarkPlaces \/ (Unmark(t) /\ holder = t)
  BY CommandKept, ZenonT(60) DEF Types
<1>2. New' = New
  BY CommandKept, Zenon DEF New
<1>3. Obeys(u)
  BY Zenon DEF Credentials
<1>4. /\ Fits(t) /\ Fits(u)
      /\ pc[t] \in CallPlaces => holder = t
  BY InCall, Zenon DEF LocalsFit
<1>5. CASE Clone(t) /\ u = child[t]
  <2>1. u \in Threads /\ pc[u] = "embryo" /\ t # holder /\ pc[t] = "clone"
    BY <1>4, <1>5, <1>1, ZenonT(60)
       DEF Clone, Children, LocalsFit, Fits, CallPlaces, MarkPlaces, SignalPlaces, UnmarkPlaces
  <2>2. pc[holder] \in MarkPlaces
    BY <1>4, <2>1, ZenonT(60) DEF Marked, Passed, Fits, MarkPlaces
  <2>3. Follows(t)
    BY <1>4, <2>1, ZenonT(60) DEF Follows, Alive, Fits, ExitPlaces
  <2>4. ids[t] = ids[holder]
    BY <2>1, <2>2, <2>3, ZenonT(60) DEF Credentials, Obeys
  <2>5. ids'[u] = ids[holder] /\ pc'[holder] = pc[holder] /\ hpc'[u] # "release"
    BY <1>1, <1>4, <1>5, <2>1, <2>2, <2>4, ZenonT(60) DEF Clone, Types, Fits, MarkPlaces
  <2> QED
    BY <1>1, <2>2, <2>5, ZenonT(60) DEF Obeys, MarkPlaces, UnmarkPlaces
<1>6. CASE Sighandler(t) /\ u = t
  <2>1. t \in pending /\ Syscall(t, xidcmd.id) /\ flags' = flags
    BY <1>6, Zenon DEF Sighandler, Descriptors
  <2>2. pc[holder] \in SignalPlaces
    BY <2>1, ZenonT(60) DEF AnswersCounted, Answering, Signalling
  <2>3. Follows(t)
    BY <1>4, <2>1, ZenonT(60) DEF Fits, Follows, Alive
  <2>4. ids'[t] = New
    BY <1>1, <1>3, <1>6, <2>1, <2>3, SyscallMakesNew, ZenonT(60) DEF Obeys
  <2>5. pc'[holder] \notin MarkPlaces
    BY <1>1, <2>2, Zenon DEF SignalPlaces, MarkPlaces
  <2> QED
    BY <1>1, <1>2, <1>6, <2>4, <2>5, ZenonT(60) DEF Obeys
<1>7. CASE ~(Clone(t) /\ u = child[t]) /\ ~(Sighandler(t) /\ u = t)
  <2>1. ~(SetSelf(t) /\ u = t)
    BY Zenon DEF SetSelf
  <2>2. /\ Follows(u)' => Follows(u)
        /\ Alive(u)' => Alive(u)
        /\ ids'[u] = ids[u] \/ (~Alive(u)' /\ hpc'[u] # "release")
        /\ hpc'[u] = "release" => hpc[u] = "release"
    BY <1>7, <2>1, FollowsStep, ZenonT(60)
  <2>3. Follows(u)' => Alive(u)'
    BY ZenonT(60) DEF Follows
  <2>4. Unmark(t) /\ holder = t /\ Follows(u) => ids[u] = New
    <3>1. SUFFICES ASSUME Unmark(t), holder = t, Follows(u)
                   PROVE  ids[u] = New
      OBVIOUS
    <3>2. pc[holder] = "signal" /\ todo = {} /\ ~signalled
      BY <3>1, Zenon DEF Unmark, SignalsSent
    <3>3. "SETXID" \notin flags[u]
      BY <3>2, Zenon DEF RoundIsComplete
    <3>4. flags[u] = {} /\ Alive(u)
      BY <3>1, <3>3, Zenon DEF Follows, Types
    <3> QED
      BY <1>3, <3>2, <3>4, Zenon DEF Obeys, MarkPlaces
  <2>5. Alive(u)' /\ flags'[u] = {} /\ pc'[holder] \notin MarkPlaces => ids[u] = New
    <3>1. SUFFICES ASSUME Alive(u)', flags'[u] = {}, pc'[holder] \notin MarkPlaces
                   PROVE  ids[u] = New
      OBVIOUS
    <3>2. CASE flags[u] # {}
      <4>1. CASE hpc[u] = "release"
        BY <1>3, <4>1, ZenonT(60) DEF Obeys
      <4>2. CASE /\ "EXITING" \notin flags[u] /\ "SETXID" \in flags[u]
                 /\ pc[t] = "unmark" /\ Alive(u)
        <5>1. holder = t /\ pc[holder] \in UnmarkPlaces
          BY <1>4, <4>2, Zenon DEF CallPlaces, UnmarkPlaces
        <5>2. Follows(u)
          BY <4>2, Zenon DEF Follows
        <5> QED
          BY <1>3, <5>1, <5>2, ZenonT(60) DEF Obeys
      <4> QED
        BY <3>1, <3>2, <4>1, <4>2, UnmarkedBy, ZenonT(60)
    <3>3. CASE flags[u] = {} /\ pc[holder] \notin MarkPlaces
      BY <1>3, <2>2, <3>1, <3>3, ZenonT(60) DEF Obeys
    <3>4. CASE flags[u] = {} /\ pc[holder] \in MarkPlaces
      <4>1. SignalRound(t) /\ holder = t
        BY <1>1, <3>1, <3>4, ZenonT(60)
      <4>2. pc[holder] = "mark" /\ todo = {}
        BY <3>4, <4>1, ZenonT(60) DEF SignalRound, SignalsSent, MarkPlaces
      <4>3. u \in used
        BY <1>4, <2>2, <3>1, ZenonT(60) DEF Fits, Alive
      <4>4. Passed(u)
        BY <4>2, <4>3, Zenon DEF Passed
      <4> QED
        BY <3>4, <4>4, Zenon DEF Marked
    <3> QED
      BY <3>2, <3>3, <3>4, Zenon
  <2>6. Follows(u)' /\ pc'[holder] \in UnmarkPlaces => ids[u] = New
    BY <1>1, <1>3, <2>2, <2>4, ZenonT(60) DEF Obeys
  <2> QED
    BY <1>1, <1>2, <1>3, <2>2, <2>3, <2>5, <2>6, ZenonT(60) DEF Obeys
<1> QED
  BY <1>5, <1>6, <1>7, ZenonT(60)

\* Who takes and leaves the lock, and who may abort.
LEMMA HolderStep ==
  ASSUME NEW t \in Threads, Step(t)
  PROVE  /\ holder' = holder \/ Lock(t) \/ SetSelf(t)
         /\ aborted' = aborted \/ Sighandler(t) \/ SetSelf(t)
<1>1. CASE Body(t)
  BY <1>1, Zenon
     DEF Body, SetXid, Ghost, Clone, DeallocateStack, Start, StartWake, ExitTest, ExitWait,
         ExitReset, ExitDetached, ExitJoinable, Lock, MarkNext, MarkWait, MarkHold, MarkFlag,
         Release, ReleaseWake, SignalRound, Signal, SignalCount, WaitAnswers, Unmark, UnmarkNext
<1>2. CASE Handler(t)
  BY <1>2, Zenon DEF Handler, Ghost, HandlerRelease, HandlerCount, HandlerWake, Sighandler
<1>3. CASE Calls(t)
  BY <1>3, Zenon DEF Calls, Exit, Call, AllocateStack, Join, Ghost
<1> QED
  BY <1>1, <1>2, <1>3, Zenon DEF Step, Run

\* The credentials agree again when the call is over.
LEMMA CredentialsStep ==
  ASSUME IInv, NEW t \in Threads, Step(t)
  PROVE  Credentials'
<1> USE DEF IInv
<1> SUFFICES ASSUME ~lost'
             PROVE  Credentials'
  BY Zenon DEF Credentials
<1>1. ~lost /\ ~aborted
  BY LostStays, Zenon DEF Credentials
<1>2. Fits(t) /\ (pc[t] \in CallPlaces => holder = t /\ holder # NoThread)
  BY InCall, Zenon DEF LocalsFit
<1>3. CASE holder = NoThread /\ holder' = NoThread
  <2>1. ~SetSelf(t) /\ ~Sighandler(t)
    <3>1. ~SetSelf(t)
      BY <1>2, <1>3, Zenon DEF SetSelf, CallPlaces, UnmarkPlaces
    <3>2. t \notin pending
      BY <1>3, ZenonT(60) DEF AnswersCounted, Signalling, Answering
    <3> QED
      BY <3>1, <3>2, Zenon DEF Sighandler
  <2>2. ASSUME NEW u \in Threads, Follows(u)'
        PROVE  \E w \in Threads : Follows(w) /\ ids'[u] = ids[w]
    <3>1. CASE Clone(t) /\ u = child[t]
      <4>1. Follows(t)
        BY <1>2, <3>1, Zenon DEF Clone, Follows, Alive, Fits, ExitPlaces
      <4>2. ids'[u] = ids[t]
        BY <3>1, Zenon DEF Clone, Types
      <4> QED
        BY <4>1, <4>2, Zenon
    <3>2. CASE ~(Clone(t) /\ u = child[t])
      <4>1. Follows(u) /\ Alive(u)'
        BY <2>2, <3>2, FollowsStep, ZenonT(60) DEF Follows
      <4>2. ids'[u] = ids[u]
        BY <2>1, <3>2, <4>1, FollowsStep, ZenonT(60)
      <4> QED
        BY <4>1, <4>2, Zenon
    <3> QED
      BY <3>1, <3>2, Zenon
  <2>3. Agree
    BY <1>1, <1>3, Zenon DEF Credentials
  <2>4. Agree'
    <3>1. SUFFICES ASSUME NEW u \in Threads, NEW v \in Threads, Follows(u)', Follows(v)'
                   PROVE  ids'[u] = ids'[v]
      BY Zenon DEF Agree
    <3>2. PICK w \in Threads : Follows(w) /\ ids'[u] = ids[w]
      BY <2>2, <3>1, Zenon
    <3>3. PICK x \in Threads : Follows(x) /\ ids'[v] = ids[x]
      BY <2>2, <3>1, Zenon
    <3> QED
      BY <2>3, <3>2, <3>3, ZenonT(60) DEF Agree
  <2>5. ~aborted'
    BY <1>1, <2>1, HolderStep, Zenon
  <2> QED
    BY <1>3, <2>4, <2>5, Zenon DEF Credentials
<1>4. CASE holder = NoThread /\ holder' # NoThread
  <2>1. Lock(t)
    BY <1>4, HolderStep, Zenon DEF SetSelf
  <2>2. /\ holder' = t /\ pc[t] = "lock" /\ pc'[t] = "mark" /\ ids' = ids /\ hpc' = hpc
        /\ xidcmd'.error = -1 /\ flags' = flags /\ aborted' = aborted
    BY <2>1, Zenon DEF Lock, Types, Goto, Descriptors, Ghost
  <2>3. Agree
    BY <1>1, <1>4, Zenon DEF Credentials
  <2>4. Follows(t)
    BY <1>2, <2>2, ZenonT(60) DEF Follows, Alive, Fits, ExitPlaces
  <2>5. ASSUME NEW u \in Threads, u # t
        PROVE  Obeys(u)'
    <3>1. Follows(u)' => ids'[u] = ids'[t]
      <4>1. ~Clone(t)
        BY <2>2, Zenon DEF Clone
      <4>2. Follows(u)' => Follows(u)
        BY <4>1, FollowsStep, ZenonT(60)
      <4> QED
        BY <2>2, <2>3, <2>4, <4>2, Zenon DEF Agree
    <3>2. hpc'[u] # "release"
      BY <1>4, <2>2, Zenon DEF AnswersCounted, Signalling, Answering
    <3> QED
      BY <2>2, <3>1, <3>2, ZenonT(60) DEF Obeys, MarkPlaces, UnmarkPlaces
  <2> QED
    BY <1>1, <1>4, <2>2, <2>5, ZenonT(60) DEF Credentials
<1>5. CASE holder # NoThread /\ holder' # NoThread
  <2>1. /\ holder' = holder /\ holder \in Threads
        /\ xidcmd'.id = xidcmd.id /\ ids'[holder] = ids[holder]
        /\ Sighandler(t) \/ (xidcmd'.error = xidcmd.error /\ aborted' = aborted)
    BY <1>5, CommandKept, ZenonT(60) DEF Types
  <2>2. \A u \in Threads \ {holder'} : Obeys(u)'
    BY <1>1, <1>5, <2>1, ObeysStep, ZenonT(60)
  <2>3. SyscallError(holder, xidcmd.id)' = SyscallError(holder, xidcmd.id)
    BY <2>1, Zenon DEF SyscallError
  <2>4. xidcmd.error \in {-1, SyscallError(holder, xidcmd.id)}
    BY <1>1, <1>5, Zenon DEF Credentials
  <2>5. xidcmd'.error \in {-1, SyscallError(holder, xidcmd.id)} /\ ~aborted'
    <3>1. CASE Sighandler(t)
      <4>1. t \in pending /\ Syscall(t, xidcmd.id) /\ xidcmd'.error = SyscallError(t, xidcmd.id)
        BY <3>1 DEF Sighandler
      <4>2. t # holder
        BY <4>1, Zenon DEF AnswersCounted, Answering
      <4>3. Follows(t) /\ Obeys(t)
        BY <1>1, <1>2, <1>5, <4>1, <4>2, ZenonT(60) DEF Fits, Follows, Alive, Credentials
      <4>4. SyscallError(t, xidcmd.id) = SyscallError(holder, xidcmd.id)
        BY <2>1, <4>1, <4>3, SyscallMakesNew, Zenon DEF Obeys
      <4>5. ~aborted'
        BY <1>1, <2>4, <4>1, <4>4, ZenonT(60) DEF Syscall
      <4> QED
        BY <4>1, <4>4, <4>5, Zenon
    <3>2. CASE ~Sighandler(t)
      BY <1>1, <2>1, <2>4, <3>2
    <3> QED
      BY <3>1, <3>2, Zenon
  <2> QED
    BY <1>5, <2>2, <2>3, <2>5, Zenon DEF Credentials
<1>6. CASE holder # NoThread /\ holder' = NoThread
  <2>1. SetSelf(t)
    BY <1>6, HolderStep, SetXidAssumption, ZenonT(60) DEF Lock
  <2>2. holder = t /\ pc[holder] \in UnmarkPlaces /\ xidcmd.id = arg[t]
    BY <1>2, <2>1, Zenon DEF SetSelf, CallPlaces, UnmarkPlaces, CallFits, Busy
  <2>3. Syscall(t, xidcmd.id)
    BY <2>1, <2>2, Zenon DEF SetSelf
  <2>4. ids'[t] = New
    BY <2>2, <2>3, SyscallMakesNew, Zenon
  <2>5. ~aborted'
    BY <1>1, <1>6, <2>2, <2>3, Zenon DEF Syscall, Credentials
  <2>6. ASSUME NEW u \in Threads, Follows(u)'
        PROVE  ids'[u] = New
    <3>1. CASE u = t
      BY <2>4, <3>1, Zenon
    <3>2. CASE u # t
      <4>1. ~Clone(t) /\ Alive(u)'
        BY <2>1, <2>6, Zenon DEF Clone, SetSelf, Follows
      <4>2. Follows(u) /\ ids'[u] = ids[u]
        BY <2>6, <3>2, <4>1, FollowsStep, Zenon
      <4> QED
        BY <1>1, <1>6, <2>2, <3>2, <4>2, ZenonT(60) DEF Credentials, Obeys
    <3> QED
      BY <3>1, <3>2, Zenon
  <2>7. Agree'
    BY <2>6, Zenon DEF Agree
  <2> QED
    BY <1>6, <2>5, <2>7, Zenon DEF Credentials
<1> QED
  BY <1>3, <1>4, <1>5, <1>6, Zenon

-------------------------------------------------------------------------------
\* The inductive invariant holds initially.
LEMMA InitIInv ==
  ASSUME Init
  PROVE  IInv
<1>1. Types
  <2>1. xidcmd \in [cntr : Int, error : {-1, 0, 1}, id : Ids]
    BY DEF Init, Ids, NoCommand
  <2>2. pc \in [Threads -> Places] /\ hpc \in [Threads -> {"no", "release", "count", "wake"}]
    BY Zenon DEF Init, Places
  <2>3. futex \in [Threads -> {-2, -1, 0, 1}] /\ flags \in [Threads -> SUBSET {"EXITING", "SETXID"}]
    BY Zenon DEF Init
  <2>4. {signalled, lost, aborted} \subseteq BOOLEAN
    BY Zenon DEF Init
  <2> QED
    BY <2>1, <2>2, <2>4, SetXidAssumption, Zenon DEF Init, Types, Ids
<1>2. LocalsFit
  BY SetXidAssumption DEF Init, LocalsFit, Fits, ExitPlaces, CallPlaces, MarkPlaces, SignalPlaces, UnmarkPlaces
<1>3. Children /\ CallFits
  BY DEF Init, Children, CallFits, Idle
<1>4. AnswersCounted /\ Marked /\ RoundIsComplete
  BY Zenon DEF Init, AnswersCounted, Signalling, Answering, Marked, RoundIsComplete, NoCommand
<1>5. Credentials
  BY Zenon DEF Init, Credentials, Agree
<1> QED
  BY <1>1, <1>2, <1>3, <1>4, <1>5, Zenon DEF IInv

INSTANCE FiniteSetTheorems

\* The threads whose answer is awaited can be counted.
LEMMA AnswersFinite ==
  ASSUME Types
  PROVE  /\ CountsAnswers(Cardinality(Answering))
         /\ Cardinality(Answering) <= Cardinality(Threads)
<1>1. Answering \subseteq Threads
  BY Zenon DEF Answering
<1>2. IsFiniteSet(Answering) /\ Cardinality(Answering) <= Cardinality(Threads)
  BY <1>1, SetXidAssumption, FS_Subset, Zenon
<1>3. Cardinality(Answering) \in Nat /\ (Cardinality(Answering) = 0 <=> Answering = {})
  BY <1>2, FS_CardinalityType, FS_EmptySet, Zenon
<1>4. ASSUME NEW x \in Threads \ Answering
      PROVE  Cardinality(Answering \cup {x}) = Cardinality(Answering) + 1
  BY <1>2, FS_AddElement, Zenon
<1>5. ASSUME NEW x \in Answering
      PROVE  Cardinality(Answering \ {x}) = Cardinality(Answering) - 1
  BY <1>2, FS_RemoveElement, Zenon
<1> QED
  BY <1>2, <1>3, <1>4, <1>5, Zenon DEF CountsAnswers

\* The inductive invariant is preserved by every step.
LEMMA NextIInv ==
  ASSUME IInv, [Next]_vars
  PROVE  IInv'
<1>1. CASE Next
  <2>1. PICK t \in Threads : Step(t)
    BY <1>1, Zenon DEF Next, Step
  <2>2. Types'
    BY <2>1, TypesStep, Zenon DEF IInv
  <2>3. LocalsFit'
    BY <2>1, FitsStep, Zenon DEF IInv, LocalsFit
  <2>4. Children'
    BY <2>1, ChildrenStep, Zenon DEF IInv
  <2>5. CallFits'
    BY <2>1, IdleStep, BusyStep, AwaitedStep, Zenon DEF IInv, CallFits
  <2>6. AnswersCounted'
    BY <2>1, AnswersCountedStep, AnswersFinite, Zenon DEF IInv
  <2>7. Marked' /\ RoundIsComplete'
    BY <2>1, MarkedStep, RoundIsCompleteStep, Zenon DEF IInv
  <2>8. Credentials'
    BY <2>1, CredentialsStep, Zenon
  <2> QED
    BY <2>2, <2>3, <2>4, <2>5, <2>6, <2>7, <2>8, Zenon DEF IInv
<1>2. CASE UNCHANGED vars
  <2>1. Types' /\ LocalsFit' /\ Children'
    BY <1>2, ZenonT(60) DEF vars, IInv, Types, LocalsFit, Fits, Children
  <2>2. CallFits' /\ Marked' /\ RoundIsComplete'
    BY <1>2, Zenon DEF vars, IInv, CallFits, Idle, Busy, Marked, Passed, RoundIsComplete
  <2>3. Answering' = Answering /\ (Signalling' <=> Signalling)
    BY <1>2, Zenon DEF vars, Signalling, Answering
  <2>4. AnswersCounted'
    BY <1>2, <2>3, Zenon DEF vars, IInv, AnswersCounted
  <2>5. Credentials'
    BY <1>2, ZenonT(60)
       DEF vars, IInv, Credentials, Agree, Obeys, New, Follows, Alive, SyscallError
  <2> QED
    BY <2>1, <2>2, <2>4, <2>5, Zenon DEF IInv
<1> QED
  BY <1>1, <1>2, Zenon

\* The inductive invariant holds in every reachable state.
THEOREM IInvHolds == Spec => []IInv
<1>1. Init => IInv
  BY InitIInv, Zenon
<1>2. IInv /\ [Next]_vars => IInv'
  BY NextIInv, Zenon
<1> QED
  BY <1>1, <1>2, PTL DEF Spec

\* The inductive invariant implies the type invariant with its bounds.
LEMMA IInvTypeOK ==
  ASSUME IInv
  PROVE  TypeOK
<1>1. Types
  BY Zenon DEF IInv
<1>2. PICK n \in Nat : n = Cardinality(Answering) /\ n <= Cardinality(Threads)
  BY <1>1, AnswersFinite, Zenon DEF CountsAnswers
<1>3. Cardinality(Threads) \in Nat
  BY SetXidAssumption, FS_CardinalityType, Zenon
<1>4. xidcmd.cntr \in -1 .. Cardinality(Threads)
  <2>1. CASE ~Signalling
    BY <1>3, <2>1 DEF IInv, AnswersCounted
  <2>2. CASE Signalling
    <3>1. xidcmd.cntr = n \/ xidcmd.cntr = n - 1
      BY <1>2, <2>2 DEF IInv, AnswersCounted
    <3> QED
      BY <1>2, <1>3, <3>1
  <2> QED
    BY <2>1, <2>2, Zenon
<1>5. ASSUME NEW t \in Threads, pc[t] = "cntrasleep"
      PROVE  xidcmd.cntr >= 0
  <2>1. holder = t /\ holder # NoThread
    BY <1>5, SetXidAssumption, Zenon DEF IInv, LocalsFit, Fits, CallPlaces, SignalPlaces
  <2>2. Signalling /\ pc[holder] # "count"
    BY <1>5, <2>1, Zenon DEF Signalling, SignalPlaces
  <2>3. xidcmd.cntr = n - 0
    BY <1>2, <2>2, Zenon DEF IInv, AnswersCounted
  <2> QED
    BY <1>2, <2>3
<1>6. todo \subseteq used
  BY Zenon DEF IInv, CallFits, Idle, Busy
<1>7. xidcmd \in [cntr : -1 .. Cardinality(Threads), error : {-1, 0, 1}, id : Ids]
  BY <1>1, <1>4, Zenon DEF Types
<1> QED
  BY <1>1, <1>5, <1>6, <1>7, Zenon DEF Types, TypeOK

\* When no call of __nptl_setxid is in progress and no signal was lost, all
\* threads that do not exit have the same credentials, and the counter is
\* never below zero when it is waited for.
THEOREM CredentialsAgreeHolds == Spec => []CredentialsAgree
<1>1. ASSUME IInv
      PROVE  CredentialsAgree
  <2>1. TypeOK
    BY <1>1, IInvTypeOK, Zenon
  <2>2. ASSUME holder = NoThread, ~lost, NEW t \in Threads, NEW u \in Threads,
               Alive(t), Alive(u), "EXITING" \notin flags[t] \cup flags[u]
        PROVE  ids[t] = ids[u]
    BY <1>1, <2>2, Zenon DEF IInv, Credentials, Agree, Follows
  <2> QED
    BY <2>1, <2>2, Zenon DEF CredentialsAgree
<1> QED
  BY <1>1, IInvHolds, PTL

\* setxid_error never finds that the system call of the command went otherwise
\* in another thread, so it never aborts, unless a signal was lost.
THEOREM NoMismatchHolds == Spec => []NoMismatch
<1>1. IInv => NoMismatch
  BY Zenon DEF IInv, Credentials, NoMismatch
<1> QED
  BY <1>1, IInvHolds, PTL

\* While a SIGSETXID is pending or a handler has not counted down, the caller
\* whose stack holds the command waits in the signalling rounds of __nptl_setxid.
THEOREM HandlerSeesCommandHolds == Spec => []HandlerSeesCommand
<1>1. ASSUME IInv
      PROVE  HandlerSeesCommand
  BY <1>1, Zenon DEF IInv, AnswersCounted, Answering, Signalling, SignalPlaces, HandlerSeesCommand
<1> QED
  BY <1>1, IInvHolds, PTL
===============================================================================
