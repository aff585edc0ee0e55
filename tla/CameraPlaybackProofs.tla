------------------------ MODULE CameraPlaybackProofs ------------------------
(***************************************************************************)
(* What the camera tab keeps for every number of views and pauses: the     *)
(* type invariant, the safety invariants of CameraPlayback and its action  *)
(* property, from one inductive invariant.                                 *)
(***************************************************************************)
EXTENDS CameraPlayback, SequenceTheorems, FiniteSetTheorems, TLAPS

current == views[mv]

(* A thread that has started and not ended is the one its view holds, is   *)
(* told to run unless it is being joined, and works on the stream only for *)
(* the view of the fragment and while that has its surface.  A view the    *)
(* user has left keeps a thread only in the idle part of the loop.         *)
ThreadOK(t) ==
  /\ threads[t].view < mv \/ life # "resumed" => ViewOf(t).late
  /\ threads[t].view < mv => threads[t].pc \in {"loop", "look"}
  /\ threads[t].view = mv =>
       /\ t = current.thread
       /\ joining = "no" => current.mRun /\ ~current.suspending
       /\ threads[t].pc \in {"loop", "look"} \/ current.surface

ThreadInv == \A t \in LiveThreads : ThreadOK(t)

SurfaceInv ==
  /\ \A i \in 1..(mv - 1) : ~views[i].surfaceDone
  /\ current.surfaceDone => current.surface
  /\ life = "hidden" => ~current.surface
  /\ current.thread # 0 => threads[current.thread].view = mv

(* Where the main thread is when it joins, and what it remembers.          *)
StopInv ==
  /\ joining \in {"pause", "hide"} => life = "resumed"
  /\ joining = "surface" => life \in {"paused", "destroyed"} /\ ~streamed
  /\ joining = "pause" => streamed
  /\ joining = "no" => ~streamed
  /\ joining # "no" => ~current.mRun
  /\ life = "hidden" => blocked
  /\ life = "resumed" => ~suspending
  /\ life = "paused" /\ current.mRun => current.late

pending == pool + serial

(* onResume will open the stream anew.                                     *)
owed == IF joining = "pause" \/ (life = "paused" /\ suspending) THEN 1 ELSE 0

CountInv ==
  /\ pool <= mv
  /\ serial + owed <= pauses
  /\ Len(threads) + pending + owed <= 2 * mv + pauses

(* As long as no two DoReads were under way at once, one that is expects a *)
(* view without a stream and a thread that was not started, or none.       *)
AwaitsStream ==
  /\ ~current.mIn /\ ~current.mRun /\ ~streamed
  /\ current.thread = 0 \/ threads[current.thread].pc = "new"

CrowdInv ==
  ~crowded =>
    /\ pending <= 1
    /\ pending > 0 \/ suspending => AwaitsStream
    /\ suspending => pending = 0
    /\ \A t \in LiveThreads : threads[t].view = mv => current.mIn
    /\ crash \notin {"started twice", "no source"}

DarkInv ==
  /\ life \in {"resumed", "paused"} /\ joining \in {"no", "surface"} /\ ~current.mRun
  => suspending \/ pending > 0
       \/ current.refused \/ current.starved \/ current.late

IInv ==
  /\ TypeOK /\ ThreadInv /\ SurfaceInv /\ StopInv
  /\ CountInv /\ CrowdInv /\ DarkInv
-----------------------------------------------------------------------------
(* The operators on a view and on the sequences of views and threads.      *)

LEMMA StoppingFields ==
  ASSUME NEW V \in View
  PROVE  /\ Stopping(V) \in View /\ ~Stopping(V).mRun
         /\ Stopping(V).thread = V.thread /\ Stopping(V).mIn = V.mIn
         /\ Stopping(V).surfaceDone = V.surfaceDone /\ Stopping(V).surface = V.surface
         /\ Stopping(V).late = V.late /\ Stopping(V).refused = V.refused
         /\ Stopping(V).starved = V.starved
  BY DEF Stopping, View

LEMMA StoppedFields ==
  ASSUME NEW V \in View
  PROVE  /\ Stopped(V) \in View /\ Stopped(V).thread = 0 /\ ~Stopped(V).mIn
         /\ Stopped(V).mRun = V.mRun /\ Stopped(V).suspending = V.suspending
         /\ Stopped(V).surfaceDone = V.surfaceDone /\ Stopped(V).surface = V.surface
         /\ Stopped(V).late = V.late /\ Stopped(V).refused = V.refused
         /\ Stopped(V).starved = V.starved
  BY DEF Stopped, View

\* The types of views and threads, without the rest of the state.
LEMMA SeqTypes ==
  ASSUME TypeOK
  PROVE  /\ views \in Seq(View) /\ threads \in Seq(Thread)
         /\ Len(views) \in Nat /\ Len(threads) \in Nat
         /\ Len(views) \in 1..Len(views) /\ Len(views) \in 1..MaxViews
<1>1. views \in Seq(View) /\ threads \in Seq(Thread) /\ Len(views) \in 1..MaxViews
  BY DEF TypeOK
<1>2. Len(views) \in Nat /\ Len(threads) \in Nat
  BY <1>1, LenProperties
<1> QED
  BY <1>1, <1>2, CameraAssumption

\* Only the view of the fragment is ever assigned to.
LEMMA CurrentUpdate ==
  ASSUME TypeOK, NEW V \in View, views' = [views EXCEPT ![mv] = V]
  PROVE  /\ views' \in Seq(View) /\ Len(views') = Len(views) /\ mv' = mv
         /\ current' = V
         /\ \A i \in 1..Len(views) : views'[i] = IF i = mv THEN V ELSE views[i]
<1>1. /\ views' \in Seq(View) /\ Len(views') = Len(views)
      /\ \A i \in 1..Len(views) : views'[i] = IF i = Len(views) THEN V ELSE views[i]
  <2> DEFINE w == [views EXCEPT ![Len(views)] = V]
  <2>1. /\ w \in Seq(View) /\ Len(w) = Len(views)
        /\ \A i \in 1..Len(views) : w[i] = IF i = Len(views) THEN V ELSE views[i]
    BY SeqTypes, ExceptSeq
  <2>2. views' = w
    BY DEF mv
  <2> QED
    BY <2>1, <2>2
<1> QED
  BY <1>1, SeqTypes DEF mv, current

Moved(s, t, pc) == [s EXCEPT ![t].pc = pc]

LEMMA PcUpdate ==
  ASSUME NEW s \in Seq(Thread), NEW t \in 1..Len(s), NEW pc \in Alive \cup {"new", "ended"}
  PROVE  /\ Moved(s, t, pc) \in Seq(Thread) /\ Len(Moved(s, t, pc)) = Len(s)
         /\ \A u \in 1..Len(s) :
              /\ Moved(s, t, pc)[u].view = s[u].view
              /\ Moved(s, t, pc)[u].pc = IF u = t THEN pc ELSE s[u].pc
<1> DEFINE w == Moved(s, t, pc)
           T == [s[t] EXCEPT !.pc = pc]
<1>1. s[t] \in Thread
  BY ElementOfSeq
<1>2. T \in Thread /\ T.view = s[t].view /\ T.pc = pc
  BY <1>1 DEF Thread
<1>3. w = [s EXCEPT ![t] = T]
  BY DEF Moved
<1> HIDE DEF T, w
<1>4. /\ w \in Seq(Thread) /\ Len(w) = Len(s)
      /\ \A u \in 1..Len(s) : w[u] = IF u = t THEN T ELSE s[u]
  <2> DEFINE x == [s EXCEPT ![t] = T]
  <2>1. /\ x \in Seq(Thread) /\ Len(x) = Len(s)
        /\ \A u \in 1..Len(s) : x[u] = IF u = t THEN T ELSE s[u]
    BY <1>2, ExceptSeq
  <2>2. w = x
    BY <1>3
  <2> HIDE DEF x
  <2> QED
    BY <2>1, <2>2
<1> QED
  BY <1>2, <1>4 DEF w

LEMMA ThreadUpdate ==
  ASSUME TypeOK, NEW t \in 1..Len(threads), NEW pc \in Alive \cup {"new", "ended"},
         threads' = [threads EXCEPT ![t].pc = pc]
  PROVE  /\ threads' \in Seq(Thread) /\ Len(threads') = Len(threads)
         /\ \A u \in 1..Len(threads) :
              /\ threads'[u].view = threads[u].view
              /\ threads'[u].pc = IF u = t THEN pc ELSE threads[u].pc
<1>1. threads' = Moved(threads, t, pc)
  BY DEF Moved
<1>2. threads \in Seq(Thread)
  BY SeqTypes
<1>3. /\ Moved(threads, t, pc) \in Seq(Thread)
      /\ Len(Moved(threads, t, pc)) = Len(threads)
      /\ \A u \in 1..Len(threads) :
           /\ Moved(threads, t, pc)[u].view = threads[u].view
           /\ Moved(threads, t, pc)[u].pc = IF u = t THEN pc ELSE threads[u].pc
  BY <1>2, PcUpdate, Zenon
<1> QED
  BY <1>1, <1>3

LEMMA ThreadAppend ==
  ASSUME TypeOK, NEW T \in Thread, threads' = Append(threads, T)
  PROVE  /\ threads' \in Seq(Thread) /\ Len(threads') = Len(threads) + 1
         /\ threads'[Len(threads) + 1] = T
         /\ \A u \in 1..Len(threads) : threads'[u] = threads[u]
  BY SeqTypes, AppendProperties

LEMMA Wider == ASSUME NEW m \in Nat, NEW n \in Nat, NEW i \in m..n PROVE i \in m..(n + 1)
  OBVIOUS

LEMMA ZeroOrIndex == ASSUME NEW n \in Nat, NEW i \in 0..n PROVE i = 0 \/ i \in 1..n
  OBVIOUS

LEMMA CurrentType ==
  ASSUME TypeOK
  PROVE  /\ mv \in 1..MaxViews /\ current \in View /\ current.thread \in 0..Len(threads)
         /\ \A t \in 1..Len(threads) :
              /\ threads[t].view \in 1..mv /\ threads[t].view \in Nat
              /\ threads[t].pc \in Alive \cup {"new", "ended"}
         /\ \A i \in 1..Len(views) : views[i] \in View
<1>1. \A i \in 1..Len(views) : views[i] \in View
  BY SeqTypes, ElementOfSeq
<1>2. \A t \in 1..Len(threads) : threads[t] \in Thread
  BY SeqTypes, ElementOfSeq
<1>3. /\ \A i \in 1..Len(views) : views[i].thread \in 0..Len(threads)
      /\ \A t \in 1..Len(threads) : threads[t].view \in 1..Len(views)
  BY DEF TypeOK
<1>4. \A t \in 1..Len(threads) : threads[t].view \in 1..mv /\ threads[t].view \in Nat
         /\ threads[t].pc \in Alive \cup {"new", "ended"}
  BY <1>2, <1>3, SeqTypes DEF mv, Thread
<1> QED
  BY <1>1, <1>3, <1>4, SeqTypes DEF mv, current

SeqsOK ==
  /\ views \in Seq(View) /\ Len(views) \in 1..MaxViews
  /\ threads \in Seq(Thread)
  /\ \A i \in 1..Len(views) : views[i].thread \in 0..Len(threads)
  /\ \A t \in 1..Len(threads) : threads[t].view \in 1..Len(views)

FlagsOK ==
  /\ life \in {"resumed", "paused", "hidden", "destroyed"}
  /\ suspending \in BOOLEAN /\ streamed \in BOOLEAN
  /\ joining \in {"no", "pause", "hide", "surface"}
  /\ blocked \in BOOLEAN /\ stalled \in BOOLEAN
  /\ rgb \in BOOLEAN /\ crowded \in BOOLEAN
  /\ crash \in {"none", "started twice", "no source", "no canvas", "scanner"}

CountersOK == pool \in 0..MaxViews /\ serial \in 0..MaxPauses /\ pauses \in 0..MaxPauses

LEMMA TypeParts ==
  /\ TypeOK => SeqsOK /\ FlagsOK /\ CountersOK
  /\ SeqsOK' /\ FlagsOK' /\ CountersOK' => TypeOK'
  BY DEF TypeOK, SeqsOK, FlagsOK, CountersOK

LEMMA Numbers ==
  ASSUME TypeOK
  PROVE  /\ mv \in Nat /\ Len(threads) \in Nat
         /\ pool \in Nat /\ serial \in Nat /\ pauses \in Nat
<1>1. /\ Len(views) \in Nat /\ Len(threads) \in Nat
  BY SeqTypes
<1>2. pool \in 0..MaxViews /\ serial \in 0..MaxPauses /\ pauses \in 0..MaxPauses
  BY DEF TypeOK
<1> QED
  BY <1>1, <1>2, CameraAssumption DEF mv

LEMMA LiveTypes ==
  ASSUME TypeOK, NEW t \in LiveThreads
  PROVE  /\ t \in 1..Len(threads) /\ threads[t].pc \in Alive
         /\ threads[t].view # mv <=> threads[t].view < mv
<1>1. t \in 1..Len(threads) /\ threads[t].pc \in Alive
  BY DEF LiveThreads
<1>2. threads[t].view \in 1..mv /\ mv \in Nat
  BY <1>1, CurrentType, Numbers
<1>3. \A v \in 1..mv : v # mv <=> v < mv
  BY <1>2
<1> QED
  BY <1>1, <1>2, <1>3

\* A step that assigns to the current view and leaves the threads alone.
LEMMA ViewStep ==
  ASSUME TypeOK, NEW V \in View, V.thread \in 0..Len(threads),
         views' = [views EXCEPT ![mv] = V], UNCHANGED threads
  PROVE  /\ SeqsOK' /\ mv' = mv /\ current' = V /\ LiveThreads' = LiveThreads
         /\ \A t \in LiveThreads :
              ViewOf(t)' = IF threads[t].view = mv THEN V ELSE ViewOf(t)
         /\ \A i \in 1..(mv - 1) : views'[i] = views[i]
<1>1. /\ views' \in Seq(View) /\ Len(views') = Len(views) /\ mv' = mv
      /\ current' = V
      /\ \A i \in 1..Len(views) : views'[i] = IF i = mv THEN V ELSE views[i]
  BY CurrentUpdate
<1>2. \A t \in 1..Len(threads) : threads[t].view \in 1..Len(views)
  BY DEF TypeOK
<1>3. \A i \in 1..Len(views) : views'[i].thread \in 0..Len(threads)
  BY <1>1 DEF TypeOK
<1>4. SeqsOK'
  BY <1>1, <1>2, <1>3, SeqTypes DEF SeqsOK
<1>5. LiveThreads' = LiveThreads /\ \A t \in LiveThreads : t \in 1..Len(threads)
  BY DEF LiveThreads
<1>6. \A i \in 1..(mv - 1) : i \in 1..Len(views) /\ i # mv
  BY SeqTypes DEF mv
<1> QED
  BY <1>1, <1>2, <1>4, <1>5, <1>6 DEF ViewOf

LEMMA CurrentAssigned == ASSUME TypeOK PROVE views = [views EXCEPT ![mv] = current]
<1>1. views = [views EXCEPT ![Len(views)] = views[Len(views)]]
  BY SeqTypes
<1> QED
  BY <1>1 DEF current, mv

\* ThreadOK speaks of a view at or before the current one.
LEMMA LiveOK ==
  ASSUME TypeOK, ThreadInv, NEW t \in LiveThreads
  PROVE  ThreadOK(t) /\ (threads[t].view # mv <=> threads[t].view < mv)
  BY LiveTypes DEF ThreadInv

-----------------------------------------------------------------------------
(* The main thread.                                                        *)

LEMMA PauseKeeps == ASSUME IInv, Pause PROVE IInv'
<1>0. /\ joining = "no" /\ life = "resumed" /\ pauses < MaxPauses /\ pauses' = pauses + 1
      /\ suspending' = suspending /\ threads' = threads /\ pool' = pool /\ serial' = serial
      /\ blocked' = blocked /\ crowded' = crowded /\ stalled' = stalled
      /\ rgb' = rgb /\ crash' = crash
  BY DEF Pause, Idle, reads
<1> DEFINE V == IF current.mRun THEN Stopping(current) ELSE current
<1>1. views' = [views EXCEPT ![mv] = V]
  BY CurrentAssigned DEF IInv, Pause, current
<1>2. /\ V \in View /\ V.thread \in 0..Len(threads) /\ ~V.mRun
      /\ V.thread = current.thread /\ V.mIn = current.mIn
      /\ V.surfaceDone = current.surfaceDone /\ V.surface = current.surface
      /\ V.late = current.late /\ V.refused = current.refused
      /\ V.starved = current.starved
      /\ ~current.mRun => V = current
  BY CurrentType, StoppingFields DEF IInv
<1>3. /\ SeqsOK' /\ mv' = mv /\ current' = V /\ LiveThreads' = LiveThreads
      /\ \A t \in LiveThreads :
           ViewOf(t)' = IF threads[t].view = mv THEN V ELSE ViewOf(t)
      /\ \A i \in 1..(mv - 1) : views'[i] = views[i]
  BY <1>0, <1>1, <1>2, ViewStep DEF IInv
<1>4. IF current.mRun THEN joining' = "pause" /\ streamed' = TRUE /\ life' = life
      ELSE joining' = joining /\ streamed' = streamed /\ life' = "paused"
  BY DEF Pause, current
<1>5. CountersOK /\ FlagsOK
  BY TypeParts DEF IInv
<1>6. CountersOK'
  BY <1>0, <1>5, CameraAssumption DEF CountersOK
<1>7. FlagsOK'
  BY <1>0, <1>4, <1>5 DEF FlagsOK
<1> HIDE DEF V
<1>8. ThreadInv'
  <2> SUFFICES ASSUME NEW t \in LiveThreads PROVE ThreadOK(t)'
    BY <1>3 DEF ThreadInv
  <2>1. ThreadOK(t) /\ (threads[t].view # mv <=> threads[t].view < mv)
    BY LiveOK DEF IInv
  <2>2. ViewOf(t)' = IF threads[t].view = mv THEN V ELSE ViewOf(t)
    BY <1>3
  <2> QED
    BY <1>0, <1>2, <1>3, <1>4, <2>1, <2>2 DEF ThreadOK
<1>9. SurfaceInv'
  BY <1>0, <1>2, <1>3, <1>4 DEF IInv, SurfaceInv
<1>10. StopInv'
  BY <1>0, <1>2, <1>3, <1>4 DEF IInv, StopInv
<1>11. CountInv'
  <2>1. owed = 0 /\ owed' \in {0, 1}
    BY <1>0 DEF owed
  <2>2. pending' = pending /\ pending \in Nat
    BY <1>0, Numbers DEF pending, IInv
  <2> QED
    BY <1>0, <1>3, <2>1, <2>2, Numbers DEF IInv, CountInv
<1>12. CrowdInv'
  BY <1>0, <1>2, <1>3, <1>4 DEF IInv, CrowdInv, pending, AwaitsStream
<1>13. DarkInv'
  BY <1>0, <1>2, <1>3, <1>4, <1>5 DEF IInv, DarkInv, pending, StopInv
<1> QED
  BY <1>3, <1>6, <1>7, <1>8, <1>9, <1>10, <1>11, <1>12, <1>13, TypeParts DEF IInv

LEMMA ResumeKeeps == ASSUME IInv, Resume PROVE IInv'
<1>0. /\ joining = "no" /\ life = "paused" /\ life' = "resumed" /\ suspending' = FALSE
      /\ joining' = joining /\ streamed' = streamed /\ pauses' = pauses
      /\ threads' = threads /\ pool' = pool /\ blocked' = blocked
      /\ stalled' = stalled /\ rgb' = rgb /\ crash' = crash
  BY DEF Resume, Idle
<1> DEFINE V == IF suspending /\ blocked THEN [current EXCEPT !.starved = TRUE] ELSE current
<1>1. views' = [views EXCEPT ![mv] = V]
  BY CurrentAssigned DEF IInv, Resume, SerialRead, current
<1>2. /\ V \in View /\ V.thread \in 0..Len(threads) /\ V.mRun = current.mRun
      /\ V.thread = current.thread /\ V.mIn = current.mIn /\ V.suspending = current.suspending
      /\ V.surfaceDone = current.surfaceDone /\ V.surface = current.surface
      /\ V.late = current.late /\ V.refused = current.refused
      /\ current.starved => V.starved
      /\ suspending /\ blocked => V.starved
  BY CurrentType DEF IInv, View
<1>3. /\ SeqsOK' /\ mv' = mv /\ current' = V /\ LiveThreads' = LiveThreads
      /\ \A t \in LiveThreads :
           ViewOf(t)' = IF threads[t].view = mv THEN V ELSE ViewOf(t)
      /\ \A i \in 1..(mv - 1) : views'[i] = views[i]
  BY <1>0, <1>1, <1>2, ViewStep DEF IInv
<1>4. serial' = IF suspending /\ ~blocked THEN serial + 1 ELSE serial
  BY DEF Resume, SerialRead
<1>4a. crowded' = (crowded \/ pool' + serial' > 1)
  BY DEF Resume, Crowd
<1>5. CountersOK /\ FlagsOK
  BY TypeParts DEF IInv
<1>6. serial' = serial \/ (serial' = serial + 1 /\ owed = 1)
  BY <1>0, <1>4 DEF owed
<1>7. /\ owed \in {0, 1} /\ owed' = 0 /\ pending \in Nat
      /\ pending' = pending \/ (pending' = pending + 1 /\ owed = 1)
  BY <1>0, <1>6, Numbers DEF owed, pending, IInv
<1>8. CountersOK'
  BY <1>0, <1>5, <1>6, <1>7, CameraAssumption, Numbers DEF CountersOK, CountInv, IInv
<1>9. FlagsOK'
  BY <1>0, <1>4a, <1>5 DEF FlagsOK
<1> HIDE DEF V
<1>10. ThreadInv'
  <2> SUFFICES ASSUME NEW t \in LiveThreads PROVE ThreadOK(t)'
    BY <1>3 DEF ThreadInv
  <2>1. ThreadOK(t) /\ (threads[t].view # mv <=> threads[t].view < mv)
    BY LiveOK DEF IInv
  <2>2. ViewOf(t)' = IF threads[t].view = mv THEN V ELSE ViewOf(t)
    BY <1>3
  <2> QED
    BY <1>0, <1>2, <1>3, <2>1, <2>2 DEF ThreadOK
<1>11. SurfaceInv'
  BY <1>0, <1>2, <1>3 DEF IInv, SurfaceInv
<1>12. StopInv'
  BY <1>0, <1>2, <1>3 DEF IInv, StopInv
<1>13. CountInv'
  BY <1>0, <1>3, <1>6, <1>7, Numbers, SMTT(30) DEF IInv, CountInv
<1>14. CrowdInv'
  <2> SUFFICES ASSUME ~crowded' PROVE CrowdInv'
    BY DEF CrowdInv
  <2>1. ~crowded /\ pending' <= 1
    <3>1. pool' \in Nat /\ serial' \in Nat
      BY <1>0, <1>6, Numbers DEF IInv
    <3>2. ~crowded /\ ~(pool' + serial' > 1)
      BY <1>4a, Zenon
    <3>3. \A m, n \in Nat : ~(m + n > 1) => m + n <= 1
      OBVIOUS
    <3> QED
      BY <3>1, <3>2, <3>3, Zenon DEF pending
  <2>2. pending' > 0 => pending > 0 \/ suspending
    BY <1>0, <1>4 DEF pending
  <2> QED
    BY <1>0, <1>2, <1>3, <2>1, <2>2 DEF IInv, CrowdInv, AwaitsStream
<1>15. DarkInv'
  <2>1. suspending /\ ~blocked => pending' > 0
    BY <1>0, <1>4, Numbers DEF pending, IInv
  <2>2. ~suspending => pending' = pending
    BY <1>0, <1>4 DEF pending
  <2> QED
    BY <1>0, <1>2, <1>3, <2>1, <2>2 DEF IInv, DarkInv
<1> QED
  BY <1>3, <1>8, <1>9, <1>10, <1>11, <1>12, <1>13, <1>14, <1>15, TypeParts DEF IInv

LEMMA HideKeeps == ASSUME IInv, Hide PROVE IInv'
<1>0. /\ joining = "no" /\ life = "resumed" /\ pauses' = pauses
      /\ suspending' = suspending /\ threads' = threads /\ pool' = pool /\ serial' = serial
      /\ crowded' = crowded /\ stalled' = stalled /\ rgb' = rgb /\ crash' = crash
  BY DEF Hide, Idle
<1> DEFINE stops == current.mRun \/ current.surface
           V == IF stops THEN Stopping(current) ELSE current
<1>1. views' = [views EXCEPT ![mv] = V]
  BY CurrentAssigned DEF IInv, Hide, current
<1>2. /\ V \in View /\ V.thread \in 0..Len(threads) /\ ~V.mRun
      /\ V.thread = current.thread /\ V.mIn = current.mIn
      /\ V.surfaceDone = current.surfaceDone /\ V.surface = current.surface
      /\ V.late = current.late /\ V.refused = current.refused
      /\ V.starved = current.starved
      /\ ~stops => V = current
  BY CurrentType, StoppingFields DEF IInv
<1>3. /\ SeqsOK' /\ mv' = mv /\ current' = V /\ LiveThreads' = LiveThreads
      /\ \A t \in LiveThreads :
           ViewOf(t)' = IF threads[t].view = mv THEN V ELSE ViewOf(t)
      /\ \A i \in 1..(mv - 1) : views'[i] = views[i]
  BY <1>0, <1>1, <1>2, ViewStep DEF IInv
<1>4. IF stops
      THEN joining' = "hide" /\ streamed' = current.mRun /\ life' = life /\ blocked' = blocked
      ELSE joining' = joining /\ streamed' = streamed /\ life' = "hidden" /\ blocked' = TRUE
  BY DEF Hide, current
<1>5. CountersOK /\ FlagsOK
  BY TypeParts DEF IInv
<1>6. CountersOK'
  BY <1>0, <1>5 DEF CountersOK
<1>7. FlagsOK'
  <2>1. current.mRun \in BOOLEAN
    BY CurrentType DEF IInv, View
  <2> QED
    BY <1>0, <1>4, <1>5, <2>1 DEF FlagsOK
<1> HIDE DEF V
<1>8. ThreadInv'
  <2> SUFFICES ASSUME NEW t \in LiveThreads PROVE ThreadOK(t)'
    BY <1>3 DEF ThreadInv
  <2>1. ThreadOK(t) /\ (threads[t].view # mv <=> threads[t].view < mv)
    BY LiveOK DEF IInv
  <2>2. ViewOf(t)' = IF threads[t].view = mv THEN V ELSE ViewOf(t)
    BY <1>3
  <2> QED
    BY <1>0, <1>2, <1>3, <1>4, <2>1, <2>2 DEF ThreadOK
<1>9. SurfaceInv'
  BY <1>0, <1>2, <1>3, <1>4 DEF IInv, SurfaceInv
<1>10. StopInv'
  BY <1>0, <1>2, <1>3, <1>4 DEF IInv, StopInv
<1>11. CountInv'
  <2>1. owed = 0 /\ owed' = 0 /\ pending' = pending
    BY <1>0, <1>4 DEF owed, pending
  <2> QED
    BY <1>0, <1>3, <2>1 DEF IInv, CountInv
<1>12. CrowdInv'
  BY <1>0, <1>2, <1>3, <1>4 DEF IInv, CrowdInv, pending, AwaitsStream
<1>13. DarkInv'
  BY <1>0, <1>4 DEF DarkInv
<1> QED
  BY <1>3, <1>6, <1>7, <1>8, <1>9, <1>10, <1>11, <1>12, <1>13, TypeParts DEF IInv

LEMMA SurfaceCreatedKeeps == ASSUME IInv, SurfaceCreated PROVE IInv'
<1>0. /\ joining = "no" /\ life = "resumed" /\ life' = life /\ joining' = joining
      /\ suspending' = suspending /\ streamed' = streamed /\ pauses' = pauses
      /\ threads' = threads /\ pool' = pool /\ serial' = serial
      /\ blocked' = blocked /\ crowded' = crowded /\ stalled' = stalled
      /\ rgb' = rgb /\ crash' = crash
  BY DEF SurfaceCreated, Idle, main, reads
<1> DEFINE V == [current EXCEPT !.surface = TRUE, !.surfaceDone = TRUE]
<1>1. views' = [views EXCEPT ![mv] = V]
  <2>1. mv \in DOMAIN views
    BY SeqTypes, LenProperties DEF IInv, mv
  <2> QED
    BY <2>1 DEF SurfaceCreated, current
<1>2. /\ V \in View /\ V.thread \in 0..Len(threads) /\ V.mRun = current.mRun
      /\ V.thread = current.thread /\ V.mIn = current.mIn /\ V.suspending = current.suspending
      /\ V.surfaceDone = TRUE /\ V.surface = TRUE
      /\ V.late = current.late /\ V.refused = current.refused
      /\ V.starved = current.starved
  BY CurrentType DEF IInv, View
<1>3. /\ SeqsOK' /\ mv' = mv /\ current' = V /\ LiveThreads' = LiveThreads
      /\ \A t \in LiveThreads :
           ViewOf(t)' = IF threads[t].view = mv THEN V ELSE ViewOf(t)
      /\ \A i \in 1..(mv - 1) : views'[i] = views[i]
  BY <1>0, <1>1, <1>2, ViewStep DEF IInv
<1>5. CountersOK /\ FlagsOK
  BY TypeParts DEF IInv
<1>6. CountersOK'
  BY <1>0, <1>5 DEF CountersOK
<1>7. FlagsOK'
  BY <1>0, <1>5 DEF FlagsOK
<1> HIDE DEF V
<1>8. ThreadInv'
  <2> SUFFICES ASSUME NEW t \in LiveThreads PROVE ThreadOK(t)'
    BY <1>3 DEF ThreadInv
  <2>1. ThreadOK(t) /\ (threads[t].view # mv <=> threads[t].view < mv)
    BY LiveOK DEF IInv
  <2>2. ViewOf(t)' = IF threads[t].view = mv THEN V ELSE ViewOf(t)
    BY <1>3
  <2> QED
    BY <1>0, <1>2, <1>3, <2>1, <2>2 DEF ThreadOK
<1>9. SurfaceInv'
  BY <1>0, <1>2, <1>3 DEF IInv, SurfaceInv
<1>10. StopInv'
  BY <1>0, <1>2, <1>3 DEF IInv, StopInv
<1>11. CountInv'
  <2>1. owed' = owed /\ pending' = pending
    BY <1>0 DEF owed, pending
  <2> QED
    BY <1>0, <1>3, <2>1 DEF IInv, CountInv
<1>12. CrowdInv'
  BY <1>0, <1>2, <1>3 DEF IInv, CrowdInv, pending, AwaitsStream
<1>13. DarkInv'
  BY <1>0, <1>2, <1>3 DEF IInv, DarkInv, pending, StopInv
<1> QED
  BY <1>3, <1>6, <1>7, <1>8, <1>9, <1>10, <1>11, <1>12, <1>13, TypeParts DEF IInv

LEMMA SurfaceDestroyedKeeps == ASSUME IInv, SurfaceDestroyed PROVE IInv'
<1>0. /\ joining = "no" /\ life \in {"paused", "destroyed"} /\ life' = life
      /\ joining' = "surface" /\ streamed' = FALSE
      /\ suspending' = suspending /\ pauses' = pauses
      /\ threads' = threads /\ pool' = pool /\ serial' = serial
      /\ blocked' = blocked /\ crowded' = crowded /\ stalled' = stalled
      /\ rgb' = rgb /\ crash' = crash
  BY DEF SurfaceDestroyed, Idle, reads
<1> DEFINE V == [Stopping(current) EXCEPT !.surfaceDone = FALSE]
<1>1. views' = [views EXCEPT ![mv] = V]
  BY DEF SurfaceDestroyed, current
<1>2. /\ V \in View /\ V.thread \in 0..Len(threads) /\ ~V.mRun
      /\ V.thread = current.thread /\ V.mIn = current.mIn
      /\ ~V.surfaceDone /\ V.surface = current.surface
      /\ V.late = current.late /\ V.refused = current.refused
      /\ V.starved = current.starved
  BY CurrentType, StoppingFields DEF IInv, View
<1>3. /\ SeqsOK' /\ mv' = mv /\ current' = V /\ LiveThreads' = LiveThreads
      /\ \A t \in LiveThreads :
           ViewOf(t)' = IF threads[t].view = mv THEN V ELSE ViewOf(t)
      /\ \A i \in 1..(mv - 1) : views'[i] = views[i]
  BY <1>0, <1>1, <1>2, ViewStep DEF IInv
<1>5. CountersOK /\ FlagsOK
  BY TypeParts DEF IInv
<1>6. CountersOK'
  BY <1>0, <1>5 DEF CountersOK
<1>7. FlagsOK'
  BY <1>0, <1>5 DEF FlagsOK
<1> HIDE DEF V
<1>8. ThreadInv'
  <2> SUFFICES ASSUME NEW t \in LiveThreads PROVE ThreadOK(t)'
    BY <1>3 DEF ThreadInv
  <2>1. ThreadOK(t) /\ (threads[t].view # mv <=> threads[t].view < mv)
    BY LiveOK DEF IInv
  <2>2. ViewOf(t)' = IF threads[t].view = mv THEN V ELSE ViewOf(t)
    BY <1>3
  <2>3. threads' = threads /\ life' = life /\ joining' # "no"
    BY <1>0
  <2>4. V.late = current.late /\ V.thread = current.thread /\ V.surface = current.surface
    BY <1>2
  <2>5. (ViewOf(t)').late = ViewOf(t).late
    BY <2>2, <2>4 DEF ViewOf, current
  <2> QED
    BY <1>3, <2>1, <2>3, <2>4, <2>5 DEF ThreadOK
<1>9. SurfaceInv'
  BY <1>0, <1>2, <1>3 DEF IInv, SurfaceInv
<1>10. StopInv'
  BY <1>0, <1>2, <1>3 DEF IInv, StopInv
<1>11. CountInv'
  <2>1. owed' = owed /\ pending' = pending
    BY <1>0 DEF owed, pending
  <2> QED
    BY <1>0, <1>3, <2>1 DEF IInv, CountInv
<1>12. CrowdInv'
  BY <1>0, <1>2, <1>3 DEF IInv, CrowdInv, pending, AwaitsStream
<1>13. DarkInv'
  BY <1>0, <1>2, <1>3 DEF IInv, DarkInv, pending, StopInv
<1> QED
  BY <1>3, <1>6, <1>7, <1>8, <1>9, <1>10, <1>11, <1>12, <1>13, TypeParts DEF IInv

LEMMA JoinedKeeps == ASSUME IInv, Joined PROVE IInv'
<1>0. /\ joining # "no" /\ current.thread \notin LiveThreads
      /\ joining' = "no" /\ streamed' = FALSE /\ suspending' = (suspending \/ streamed)
      /\ pauses' = pauses /\ threads' = threads /\ pool' = pool /\ serial' = serial
      /\ crowded' = crowded /\ stalled' = stalled /\ rgb' = rgb /\ crash' = crash
  BY DEF Joined, Joinable, current
<1>4. /\ joining \in {"pause", "hide"} => life = "resumed" /\ ~suspending
      /\ joining = "pause" => life' = "paused" /\ blocked' = blocked /\ suspending'
      /\ joining = "hide" => life' = "hidden" /\ blocked' = TRUE
      /\ joining = "surface" => life' = life /\ blocked' = blocked /\ suspending' = suspending
                                 /\ life \in {"paused", "destroyed"}
      /\ joining \in {"pause", "hide", "surface"}
  <2>1. FlagsOK /\ StopInv
    BY TypeParts DEF IInv
  <2>2. /\ life' = (CASE joining = "pause" -> "paused"
                      [] joining = "hide" -> "hidden" [] OTHER -> life)
        /\ blocked' = (blocked \/ joining = "hide")
    BY DEF Joined
  <2> QED
    BY <1>0, <2>1, <2>2 DEF FlagsOK, StopInv
<1> DEFINE V == IF joining = "pause" THEN Stopped(current)
                ELSE [Stopped(current) EXCEPT !.surface = FALSE, !.surfaceDone = FALSE]
<1>1. views' = [views EXCEPT ![mv] = V]
  BY DEF Joined, current
<1>2. /\ V \in View /\ V.thread \in 0..Len(threads) /\ V.mRun = current.mRun
      /\ V.thread = 0 /\ ~V.mIn
      /\ joining = "pause" => V.surfaceDone = current.surfaceDone /\ V.surface = current.surface
      /\ joining # "pause" => ~V.surfaceDone /\ ~V.surface
      /\ V.late = current.late /\ V.refused = current.refused
      /\ V.starved = current.starved
  <2> DEFINE S == Stopped(current)
  <2>1. /\ S \in View /\ S.thread = 0 /\ ~S.mIn /\ S.mRun = current.mRun
        /\ S.surfaceDone = current.surfaceDone /\ S.surface = current.surface
        /\ S.late = current.late /\ S.refused = current.refused
        /\ S.starved = current.starved
    BY CurrentType, StoppedFields DEF IInv
  <2>2. 0 \in 0..Len(threads)
    BY Numbers DEF IInv
  <2> QED
    BY <2>1, <2>2 DEF View
<1>3. /\ SeqsOK' /\ mv' = mv /\ current' = V /\ LiveThreads' = LiveThreads
      /\ \A t \in LiveThreads :
           ViewOf(t)' = IF threads[t].view = mv THEN V ELSE ViewOf(t)
      /\ \A i \in 1..(mv - 1) : views'[i] = views[i]
  BY <1>0, <1>1, <1>2, ViewStep DEF IInv
<1>5. CountersOK /\ FlagsOK
  BY TypeParts DEF IInv
<1>6. CountersOK'
  BY <1>0, <1>5 DEF CountersOK
<1>7. FlagsOK'
  BY <1>0, <1>4, <1>5 DEF FlagsOK
<1> HIDE DEF V
<1>8. ThreadInv'
  <2> SUFFICES ASSUME NEW t \in LiveThreads PROVE ThreadOK(t)'
    BY <1>3 DEF ThreadInv
  <2>1. ThreadOK(t) /\ (threads[t].view # mv <=> threads[t].view < mv)
    BY LiveOK DEF IInv
  <2>2. ViewOf(t)' = IF threads[t].view = mv THEN V ELSE ViewOf(t)
    BY <1>3
  <2> QED
    BY <1>0, <1>2, <1>3, <1>4, <2>1, <2>2 DEF ThreadOK
<1>9. SurfaceInv'
  BY <1>0, <1>2, <1>3, <1>4 DEF IInv, SurfaceInv
<1>10. StopInv'
  BY <1>0, <1>2, <1>3, <1>4 DEF IInv, StopInv
<1>11. CountInv'
  <2>1. owed' = owed /\ pending' = pending
    BY <1>0, <1>4 DEF owed, pending
  <2> QED
    BY <1>0, <1>3, <2>1 DEF IInv, CountInv
<1>12. CrowdInv'
  <2> SUFFICES ASSUME ~crowded PROVE CrowdInv'
    BY <1>0 DEF CrowdInv
  <2>1. pending' = pending /\ pending \in Nat
    BY <1>0, Numbers DEF pending, IInv
  <2>2. suspending' => suspending \/ streamed
    BY <1>0, Zenon
  <2>2a. suspending' => pending = 0
    <3>1. /\ suspending => pending = 0
          /\ pending > 0 => ~streamed
      BY DEF IInv, CrowdInv, AwaitsStream
    <3>2. pending > 0 \/ pending = 0
      BY <2>1
    <3> QED
      BY <2>2, <3>1, <3>2
  <2>3. AwaitsStream'
    BY <1>0, <1>2, <1>3 DEF AwaitsStream, IInv, StopInv
  <2>4. \A t \in LiveThreads : threads[t].view # mv
    BY <1>0, LiveOK DEF IInv, ThreadOK
  <2> QED
    BY <1>0, <1>3, <2>1, <2>2a, <2>3, <2>4 DEF IInv, CrowdInv
<1>13. DarkInv'
  <2>1. pending' = pending
    BY <1>0 DEF pending
  <2> QED
    BY <1>0, <1>2, <1>3, <1>4, <2>1 DEF IInv, DarkInv
<1> QED
  BY <1>3, <1>6, <1>7, <1>8, <1>9, <1>10, <1>11, <1>12, <1>13, TypeParts DEF IInv

LEMMA Uncrowded ==
  ASSUME CrowdInv, ~crowded
  PROVE  /\ pending <= 1 /\ (pending > 0 \/ suspending => AwaitsStream)
         /\ suspending => pending = 0
         /\ \A t \in LiveThreads : threads[t].view = mv => current.mIn
         /\ crash \notin {"started twice", "no source"}
  BY DEF CrowdInv

LEMMA CrowdSame ==
  ASSUME CrowdInv, ~crowded, AwaitsStream => AwaitsStream',
         mv' = mv, current' = current, LiveThreads' = LiveThreads, pending' = pending,
         threads' = threads, suspending' = suspending, crash' = crash
  PROVE  CrowdInv'
<1>1. pending' <= 1 /\ (pending' > 0 \/ suspending' => AwaitsStream')
  BY Uncrowded
<1>2. suspending' => pending' = 0
  BY Uncrowded
<1>3. \A t \in LiveThreads' : threads'[t].view = mv' => current'.mIn
  BY Uncrowded
<1>4. crash' \notin {"started twice", "no source"}
  BY Uncrowded
<1> QED
  BY <1>1, <1>2, <1>3, <1>4 DEF CrowdInv

\* A step that changes neither the views nor the threads nor what is pending,
\* and at most ends the life of the fragment.
LEMMA SameViews ==
  ASSUME IInv, UNCHANGED <<views, threads, reads, suspending, joining, streamed, pauses, crash>>,
         life' = life \/ (life' = "destroyed" /\ joining = "no" /\ life \in {"paused", "hidden"}),
         FlagsOK'
  PROVE  IInv'
<1>0. /\ views' = views /\ threads' = threads /\ pool' = pool /\ serial' = serial
      /\ blocked' = blocked /\ crowded' = crowded /\ suspending' = suspending
      /\ joining' = joining /\ streamed' = streamed /\ pauses' = pauses /\ crash' = crash
  BY DEF reads
<1>1. CountersOK /\ SeqsOK
  BY TypeParts DEF IInv
<1>2. CountersOK' /\ SeqsOK'
  BY <1>0, <1>1 DEF CountersOK, SeqsOK
<1>3. mv' = mv /\ current' = current /\ LiveThreads' = LiveThreads /\ pending' = pending
  BY <1>0 DEF mv, current, LiveThreads, pending
<1>4. ThreadInv'
  <2> SUFFICES ASSUME NEW t \in LiveThreads PROVE ThreadOK(t)'
    BY <1>3 DEF ThreadInv
  <2>1. ThreadOK(t)
    BY LiveOK DEF IInv
  <2>2. ViewOf(t)' = ViewOf(t)
    BY <1>0 DEF ViewOf
  <2>3. life # "resumed" \/ life' = life
    OBVIOUS
  <2> QED
    BY <1>0, <1>3, <2>1, <2>2, <2>3 DEF ThreadOK
<1>5. SurfaceInv'
  BY <1>0, <1>3 DEF IInv, SurfaceInv
<1>6. StopInv'
  BY <1>0, <1>3 DEF IInv, StopInv
<1>7. CountInv'
  <2>1. owed' = owed \/ owed' = 0
    BY <1>0 DEF owed
  <2>2. owed \in {0, 1} /\ pending \in Nat
    BY Numbers DEF owed, pending, IInv
  <2> QED
    BY <1>0, <1>3, <2>1, <2>2, Numbers DEF IInv, CountInv
<1>8. CrowdInv'
  <2> SUFFICES ASSUME ~crowded PROVE CrowdInv'
    BY <1>0 DEF CrowdInv
  <2>1. AwaitsStream => AwaitsStream'
    BY <1>0, <1>3 DEF AwaitsStream
  <2> QED
    BY <1>0, <1>3, <2>1, CrowdSame DEF IInv
<1>9. DarkInv'
  BY <1>0, <1>3 DEF IInv, DarkInv
<1> QED
  BY <1>2, <1>4, <1>5, <1>6, <1>7, <1>8, <1>9, TypeParts DEF IInv

LEMMA DestroyKeeps == ASSUME IInv, Destroy PROVE IInv'
<1>1. FlagsOK'
  <2>1. FlagsOK
    BY TypeParts DEF IInv
  <2> QED
    BY <2>1 DEF Destroy, FlagsOK, reads
<1>2. /\ UNCHANGED <<views, threads, reads, suspending, joining, streamed, pauses, crash>>
      /\ life' = "destroyed" /\ joining = "no" /\ life \in {"paused", "hidden"}
  BY DEF Destroy, Idle
<1> QED
  BY <1>1, <1>2, SameViews

LEMMA StallKeeps == ASSUME IInv, Stall PROVE IInv'
<1>1. FlagsOK'
  <2>1. FlagsOK
    BY TypeParts DEF IInv
  <2> QED
    BY <2>1, ZenonT(40) DEF Stall, FlagsOK, main, reads
<1>2. /\ UNCHANGED <<views, threads, reads, suspending, joining, streamed, pauses, crash>>
      /\ life' = life
  BY DEF Stall, main
<1> QED
  BY <1>1, <1>2, SameViews

-----------------------------------------------------------------------------
(* The playback threads.                                                   *)

\* A thread goes on to work on the stream only for the current view and its
\* surface, and finds the stream taken away only when two reads were pending.
LEMMA ThreadStep ==
  ASSUME IInv, NEW t \in LiveThreads, NEW pc \in Alive \cup {"ended"},
         threads' = [threads EXCEPT ![t].pc = pc],
         UNCHANGED <<main, views, reads, stalled>>,
         pc \in {"loop", "look", "ended"} \/ (threads[t].view = mv /\ current.surface),
         FlagsOK',
         crash' = crash \/ crash' \in {"scanner", "no canvas"}
           \/ (crash' = "no source" /\ crowded)
  PROVE  IInv'
<1>0. /\ views' = views /\ pool' = pool /\ serial' = serial /\ life' = life
      /\ blocked' = blocked /\ crowded' = crowded /\ suspending' = suspending
      /\ joining' = joining /\ streamed' = streamed /\ pauses' = pauses
      /\ stalled' = stalled
  BY DEF reads, main
<1>1. CountersOK /\ SeqsOK
  BY TypeParts DEF IInv
<1>2. CountersOK'
  BY <1>0, <1>1 DEF CountersOK
<1>3. mv' = mv /\ current' = current /\ pending' = pending /\ owed' = owed
  BY <1>0 DEF mv, current, pending, owed
<1>4. t \in 1..Len(threads) /\ threads[t].pc \in Alive
  BY LiveTypes DEF IInv
<1>5. /\ threads' \in Seq(Thread) /\ Len(threads') = Len(threads)
      /\ \A u \in 1..Len(threads) :
           /\ threads'[u].view = threads[u].view
           /\ threads'[u].pc = IF u = t THEN pc ELSE threads[u].pc
  <2>1. pc \in Alive \cup {"new", "ended"}
    OBVIOUS
  <2> QED
    BY <1>4, <2>1, ThreadUpdate DEF IInv
<1>6. SeqsOK'
  BY <1>0, <1>1, <1>5 DEF SeqsOK
<1>7. \A u \in LiveThreads' : u \in LiveThreads /\ u \in 1..Len(threads)
  BY <1>4, <1>5 DEF LiveThreads
<1>8. ThreadInv'
  <2> SUFFICES ASSUME NEW u \in LiveThreads' PROVE ThreadOK(u)'
    BY DEF ThreadInv
  <2>1. u \in LiveThreads /\ u \in 1..Len(threads)
    BY <1>7
  <2>2. ThreadOK(u) /\ (threads[u].view # mv <=> threads[u].view < mv)
    BY <2>1, LiveOK DEF IInv
  <2>3. threads'[u].view = threads[u].view /\ ViewOf(u)' = ViewOf(u)
    BY <1>0, <1>5, <2>1 DEF ViewOf
  <2>4. \/ threads'[u].pc = threads[u].pc
        \/ threads'[u].pc \in {"loop", "look"}
        \/ threads[u].view = mv /\ current.surface
    <3>1. threads'[u].pc \in Alive
      BY DEF LiveThreads
    <3> QED
      BY <1>5, <2>1, <3>1 DEF Alive
  <2> QED
    BY <1>0, <1>3, <2>2, <2>3, <2>4 DEF ThreadOK
<1>9. current.thread = 0 \/ current.thread \in 1..Len(threads)
  <2>1. current.thread \in 0..Len(threads) /\ Len(threads) \in Nat
    BY CurrentType, Numbers DEF IInv
  <2> QED
    BY <2>1, ZeroOrIndex
<1>10. SurfaceInv'
  BY <1>0, <1>3, <1>5, <1>9 DEF IInv, SurfaceInv
<1>11. StopInv'
  BY <1>0, <1>3 DEF IInv, StopInv
<1>12. CountInv'
  BY <1>0, <1>3, <1>5 DEF IInv, CountInv
<1>13. CrowdInv'
  <2> SUFFICES ASSUME ~crowded PROVE CrowdInv'
    BY <1>0 DEF CrowdInv
  <2>1. AwaitsStream => AwaitsStream'
    <3>1. threads[t].pc # "new"
      BY <1>4 DEF Alive
    <3> QED
      BY <1>0, <1>3, <1>5, <1>9, <3>1 DEF AwaitsStream
  <2>2. \A u \in LiveThreads' : threads'[u].view = mv => current.mIn
    BY <1>5, <1>7 DEF IInv, CrowdInv
  <2> QED
    BY <1>0, <1>3, <2>1, <2>2 DEF IInv, CrowdInv
<1>14. DarkInv'
  BY <1>0, <1>3 DEF IInv, DarkInv
<1> QED
  BY <1>2, <1>6, <1>8, <1>10, <1>11, <1>12, <1>13, <1>14, TypeParts DEF IInv

LEMMA RunKeeps == ASSUME IInv, NEW t \in 1..Len(threads), Run(t) PROVE IInv'
<1>1. FlagsOK'
  <2>1. FlagsOK
    BY TypeParts DEF IInv
  <2>2. UNCHANGED <<main, reads, stalled>>
    BY DEF Run, Loop, Look, Enter, Read, Draw, Goto
  <2>3. rgb' = rgb \/ rgb' = TRUE
    BY DEF Run, Loop, Look, Enter, Read, Draw
  <2>4. crash' = crash \/ crash' \in {"none", "no source", "no canvas", "scanner"}
    BY DEF Run, Loop, Look, Enter, Read, Draw
  <2>5. /\ life' = life /\ suspending' = suspending /\ streamed' = streamed
        /\ joining' = joining /\ blocked' = blocked /\ crowded' = crowded /\ stalled' = stalled
    BY <2>2 DEF main, reads
  <2>6. rgb' \in BOOLEAN
    BY <2>1, <2>3 DEF FlagsOK
  <2>7. crash' \in {"none", "started twice", "no source", "no canvas", "scanner"}
    BY <2>1, <2>4 DEF FlagsOK
  <2> QED
    BY <2>1, <2>5, <2>6, <2>7 DEF FlagsOK
<1>2. CASE Loop(t)
  <2>1. PICK pc \in {"look", "ended"} : Goto(t, "loop", pc)
    BY <1>2 DEF Loop
  <2>2. t \in LiveThreads /\ crash' = crash
    BY <1>2, <2>1 DEF LiveThreads, Goto, Alive, Loop
  <2> QED
    BY <1>1, <2>1, <2>2, ThreadStep DEF Goto, Alive
<1>3. CASE Look(t)
  <2>1. PICK pc \in {"enter", "loop"} : Goto(t, "look", pc) /\ (pc = "enter" => ViewOf(t).surfaceDone)
    BY <1>3 DEF Look
  <2>2. t \in LiveThreads /\ crash' = crash
    BY <1>3, <2>1 DEF LiveThreads, Goto, Alive, Look
  <2>3. ViewOf(t).surfaceDone => threads[t].view = mv /\ current.surface
    <3>1. threads[t].view \in 1..mv /\ mv \in Nat
      BY CurrentType, Numbers DEF IInv
    <3>2. threads[t].view = mv \/ threads[t].view \in 1..(mv - 1)
      BY <3>1
    <3> QED
      BY <3>2 DEF IInv, SurfaceInv, ViewOf, current
  <2> QED
    BY <1>1, <2>1, <2>2, <2>3, ThreadStep DEF Goto, Alive
<1>4. \A pc \in {"enter", "read", "draw"} : t \in LiveThreads /\ threads[t].pc = pc =>
        threads[t].view = mv /\ current.surface
  BY LiveOK DEF IInv, ThreadOK
<1>5. CASE Enter(t)
  <2>1. Goto(t, "enter", "read") /\ t \in LiveThreads
    BY <1>5 DEF Enter, Goto, LiveThreads, Alive
  <2>2. threads[t].view = mv /\ current.surface
    BY <1>4, <2>1 DEF Goto
  <2>3. crash' = crash \/ (crash' = "no source" /\ crowded)
    <3>1. crash = "none"
      BY <2>1 DEF Goto, Running
    <3>2. crowded \/ ViewOf(t).mIn
      BY <2>1, <2>2 DEF IInv, CrowdInv, ViewOf, current
    <3> QED
      BY <1>5, <3>1, <3>2 DEF Enter
  <2> QED
    BY <1>1, <2>1, <2>2, <2>3, ThreadStep DEF Goto, Alive
<1>6. CASE Read(t)
  <2>1. PICK pc \in {"draw", "ended", "loop"} : Goto(t, "read", pc)
    BY <1>6 DEF Read
  <2>2. t \in LiveThreads /\ (crash' = crash \/ crash' = "scanner")
    BY <1>6, <2>1 DEF LiveThreads, Goto, Alive, Read
  <2>3. threads[t].view = mv /\ current.surface
    BY <1>4, <2>1, <2>2 DEF Goto
  <2> QED
    BY <1>1, <2>1, <2>2, <2>3, ThreadStep DEF Goto, Alive
<1>7. CASE Draw(t)
  <2>1. Goto(t, "draw", "loop") /\ t \in LiveThreads
    BY <1>7 DEF Draw, Goto, LiveThreads, Alive
  <2>2. crash' = crash \/ crash' = "no canvas"
    BY <1>7, <2>1 DEF Draw, Goto, Running
  <2> QED
    BY <1>1, <2>1, <2>2, ThreadStep DEF Goto, Alive
<1> QED
  BY <1>2, <1>3, <1>5, <1>6, <1>7 DEF Run

-----------------------------------------------------------------------------
(* A new view, and an answered DoRead.                                     *)

LEMMA FreshFields ==
  ASSUME NEW k \in Nat, NEW starves \in BOOLEAN
  PROVE  LET V == [FreshView(k) EXCEPT !.starved = starves]
         IN  /\ V \in View /\ V.thread = k /\ ~V.mIn /\ ~V.mRun /\ ~V.suspending
             /\ ~V.surfaceDone /\ ~V.surface
  BY DEF FreshView, View

LEMMA ViewsAppend ==
  ASSUME TypeOK, NEW V \in View, views' = Append(views, V)
  PROVE  /\ views' \in Seq(View) /\ Len(views') = Len(views) + 1
         /\ views'[Len(views) + 1] = V
         /\ \A i \in 1..Len(views) : views'[i] = views[i]
  BY SeqTypes, AppendProperties

LEMMA ShowKeeps == ASSUME IInv, Show PROVE IInv'
<1>0. /\ joining = "no" /\ life = "hidden" /\ life' = "resumed" /\ suspending' = FALSE
      /\ mv < MaxViews /\ pool' = pool + 1
      /\ joining' = joining /\ streamed' = streamed /\ pauses' = pauses
      /\ blocked' = blocked /\ stalled' = stalled /\ rgb' = rgb /\ crash' = crash
  BY DEF Show, Idle
<1>1. threads' = Append(threads, [view |-> mv + 1, pc |-> "new"])
  BY DEF Show
<1> DEFINE V == [FreshView(Len(threads) + 1) EXCEPT !.starved = (suspending /\ blocked)]
<1>2. views' = Append(views, V)
  BY DEF Show
<1>3. crowded' = (crowded \/ pool' + serial' > 1)
  BY DEF Show, Crowd
<1>4. serial' = serial
  <2>1. blocked
    BY <1>0 DEF IInv, StopInv
  <2> QED
    BY <2>1 DEF Show
<1>5. /\ V \in View /\ V.thread = Len(threads) + 1 /\ ~V.mIn /\ ~V.mRun /\ ~V.suspending
      /\ ~V.surfaceDone /\ ~V.surface
  <2>1. Len(threads) + 1 \in Nat /\ (suspending /\ blocked) \in BOOLEAN
    BY Numbers DEF IInv
  <2> QED
    BY <2>1, FreshFields
<1> HIDE DEF V
<1>6. /\ views' \in Seq(View) /\ Len(views') = Len(views) + 1
      /\ views'[Len(views) + 1] = V
      /\ \A i \in 1..Len(views) : views'[i] = views[i]
  BY <1>2, <1>5, ViewsAppend DEF IInv
<1> DEFINE T == [view |-> mv + 1, pc |-> "new"]
<1>7. /\ threads' \in Seq(Thread) /\ Len(threads') = Len(threads) + 1
      /\ threads'[Len(threads) + 1] = T
      /\ \A u \in 1..Len(threads) : threads'[u] = threads[u]
  <2>1. T \in Thread
    BY Numbers DEF IInv, Thread
  <2> QED
    BY <1>1, <2>1, ThreadAppend DEF IInv
<1>8. mv' = mv + 1 /\ current' = V
  BY <1>6, SeqTypes DEF IInv, mv, current
<1>9. /\ LiveThreads' = LiveThreads
      /\ \A t \in LiveThreads : threads'[t] = threads[t] /\ t \in 1..Len(threads)
  <2>1. T.pc \notin Alive
    BY DEF Alive
  <2>2. 1..(Len(threads) + 1) = (1..Len(threads)) \cup {Len(threads) + 1}
    BY SeqTypes DEF IInv
  <2> QED
    BY <1>7, <2>1, <2>2 DEF LiveThreads
<1>10. SeqsOK'
  <2>1. \A i \in 1..Len(views') : i \in 1..Len(views) \/ i = Len(views) + 1
    BY <1>6, SeqTypes DEF IInv
  <2>2. \A i \in 1..Len(views') : views'[i].thread \in 0..Len(threads')
    <3>0. \A i \in 1..Len(views) : views[i].thread \in 0..Len(threads)
      BY DEF IInv, TypeOK
    <3>1. \A i \in 1..Len(views) : views[i].thread \in 0..(Len(threads) + 1)
      BY <3>0, Wider, SeqTypes DEF IInv
    <3>2. V.thread \in 0..(Len(threads) + 1)
      BY <1>5, SeqTypes DEF IInv
    <3> QED
      BY <1>6, <1>7, <2>1, <3>1, <3>2
  <2>3. \A t \in 1..Len(threads') : t \in 1..Len(threads) \/ t = Len(threads) + 1
    BY <1>7, SeqTypes DEF IInv
  <2>4. \A t \in 1..Len(threads') : threads'[t].view \in 1..Len(views')
    <3>0. \A t \in 1..Len(threads) : threads[t].view \in 1..Len(views)
      BY DEF IInv, TypeOK
    <3>1. \A t \in 1..Len(threads) : threads[t].view \in 1..(Len(views) + 1)
      BY <3>0, Wider, SeqTypes DEF IInv
    <3>2. T.view \in 1..(Len(views) + 1)
      BY SeqTypes DEF IInv, mv
    <3> QED
      BY <1>6, <1>7, <2>3, <3>1, <3>2
  <2>5. Len(views') \in 1..MaxViews
    BY <1>0, <1>6, SeqTypes, CameraAssumption DEF IInv, mv
  <2> QED
    BY <1>6, <1>7, <2>2, <2>4, <2>5 DEF SeqsOK
<1> HIDE DEF T
<1>11. CountersOK /\ FlagsOK
  BY TypeParts DEF IInv
<1>12. CountersOK'
  BY <1>0, <1>4, <1>11, Numbers, CameraAssumption DEF CountersOK, CountInv, IInv
<1>13. FlagsOK'
  BY <1>0, <1>3, <1>11 DEF FlagsOK
<1>14. ThreadInv'
  <2> SUFFICES ASSUME NEW t \in LiveThreads PROVE ThreadOK(t)'
    BY <1>9 DEF ThreadInv
  <2>1. ThreadOK(t) /\ (threads[t].view # mv <=> threads[t].view < mv)
    BY LiveOK DEF IInv
  <2>2. threads[t].view \in 1..mv /\ mv \in Nat
    BY <1>9, CurrentType, Numbers DEF IInv
  <2>3. threads[t].view < mv + 1 /\ threads[t].view # mv + 1
    BY <2>2
  <2>4. threads'[t] = threads[t] /\ ViewOf(t)' = ViewOf(t)
    BY <1>6, <1>9, <2>2 DEF ViewOf, mv
  <2>5. ViewOf(t).late /\ threads[t].pc \in {"loop", "look"}
    BY <1>0, <2>1 DEF ThreadOK, IInv, SurfaceInv
  <2> QED
    BY <1>8, <2>3, <2>4, <2>5 DEF ThreadOK
<1>15. SurfaceInv'
  <2>1. \A i \in 1..mv : ~views'[i].surfaceDone
    <3>1. \A i \in 1..mv : i \in 1..(mv - 1) \/ i = mv
      BY Numbers DEF IInv
    <3>2. \A i \in 1..mv : ~views[i].surfaceDone
      BY <1>0, <3>1 DEF IInv, SurfaceInv, current
    <3> QED
      BY <1>6, <3>2 DEF mv
  <2>2. (mv + 1) - 1 = mv
    BY Numbers DEF IInv
  <2>3. threads'[V.thread].view = mv + 1
    BY <1>5, <1>7 DEF T
  <2> QED
    BY <1>0, <1>5, <1>8, <2>1, <2>2, <2>3 DEF SurfaceInv
<1>16. StopInv'
  BY <1>0, <1>5, <1>8 DEF IInv, StopInv
<1>17. pending' = pending + 1 /\ pending \in Nat
  BY <1>0, <1>4, Numbers DEF pending, IInv
<1>18. CountInv'
  <2>1. owed = 0 /\ owed' = 0
    BY <1>0 DEF owed
  <2>2. /\ pool <= mv /\ serial + owed <= pauses
        /\ Len(threads) + pending + owed <= 2 * mv + pauses
    BY DEF IInv, CountInv
  <2> QED
    BY <1>0, <1>4, <1>7, <1>8, <1>17, <2>1, <2>2, Numbers, SMTT(30) DEF IInv, CountInv
<1>19. CrowdInv'
  <2> SUFFICES ASSUME ~crowded' PROVE CrowdInv'
    BY DEF CrowdInv
  <2>1. ~crowded /\ pending' <= 1
    <3>1. ~crowded /\ ~(pool' + serial' > 1)
      BY <1>3, Zenon
    <3>2. ~(pending' > 1)
      BY <3>1, Zenon DEF pending
    <3>3. ~(pending + 1 > 1)
      BY <1>17, <3>2
    <3> QED
      BY <1>17, <3>1, <3>3
  <2>2. AwaitsStream'
    <3>1. ~streamed'
      BY <1>0 DEF IInv, StopInv
    <3>2. threads'[V.thread].pc = "new"
      BY <1>5, <1>7 DEF T
    <3> QED
      BY <1>5, <1>8, <3>1, <3>2 DEF AwaitsStream
  <2>3. \A t \in LiveThreads' : threads'[t].view # mv'
    <3>1. \A t \in LiveThreads : threads[t].view \in 1..mv
      BY <1>9, CurrentType DEF IInv
    <3>2. \A i \in 1..mv : i # mv + 1
      BY Numbers DEF IInv
    <3> QED
      BY <1>8, <1>9, <3>1, <3>2
  <2>4. crash' \notin {"started twice", "no source"}
    BY <1>0, <2>1, Uncrowded DEF IInv
  <2> QED
    BY <1>0, <2>1, <2>2, <2>3, <2>4 DEF CrowdInv
<1>20. DarkInv'
  BY <1>17 DEF DarkInv
<1> QED
  BY <1>10, <1>12, <1>13, <1>14, <1>15, <1>16, <1>18, <1>19, <1>20, TypeParts DEF IInv

Crashes == {"none", "started twice", "no source", "no canvas", "scanner"}
Players == [view : View, threads : Seq(Thread), crash : Crashes]

\* The flags of a view that its methods do not touch.
SameFlags(v, w) ==
  /\ w.surfaceDone = v.surfaceDone /\ w.surface = v.surface
  /\ w.late = v.late /\ w.refused = v.refused /\ w.starved = v.starved

\* Threads w are threads s and a new one of the current view, or are threads s
\* of which t has been started.
Grown(s, w) ==
  /\ Len(w) = Len(s) + 1
  /\ w[Len(s) + 1].view = mv /\ w[Len(s) + 1].pc = "loop"
  /\ \A u \in 1..Len(s) : w[u].view = s[u].view /\ w[u].pc = s[u].pc

Begun(s, w, t) ==
  /\ Len(w) = Len(s)
  /\ \A u \in 1..Len(s) :
       w[u].view = s[u].view /\ w[u].pc = IF u = t THEN "loop" ELSE s[u].pc

LEMMA NewThreadOf ==
  ASSUME NEW P \in Players, mv \in Nat \ {0}
  PROVE  LET Q == NewThread(P)
         IN  /\ Q \in Players
             /\ Q.threads = Append(P.threads, [view |-> mv, pc |-> "new"])
             /\ Q.crash = P.crash /\ Q.view.thread = Len(P.threads) + 1
             /\ Q.view.mIn = P.view.mIn /\ Q.view.suspending = P.view.suspending
             /\ SameFlags(P.view, Q.view)
<1> DEFINE N == Append(P.threads, [view |-> mv, pc |-> "new"])
           k == Len(P.threads) + 1
           Q == [P EXCEPT !.threads = N, !.view.thread = k]
<1>1. NewThread(P) = Q
  BY DEF NewThread
<1>2. N \in Seq(Thread)
  <2>1. [view |-> mv, pc |-> "new"] \in Thread
    BY DEF Thread
  <2> QED
    BY <2>1, AppendProperties DEF Players
<1>3. k \in Nat
  BY LenProperties DEF Players
<1>4. [P.view EXCEPT !.thread = k] \in View
  BY <1>3 DEF Players, View
<1>5. Q \in Players
  <2> HIDE DEF N, k
  <2> QED
    BY <1>2, <1>4 DEF Players
<1>6. /\ Q.threads = N /\ Q.crash = P.crash /\ Q.view.thread = k
      /\ Q.view.mIn = P.view.mIn /\ Q.view.suspending = P.view.suspending
      /\ SameFlags(P.view, Q.view)
  <2> HIDE DEF N, k
  <2> QED
    BY DEF Players, View, SameFlags
<1> QED
  BY <1>1, <1>5, <1>6

LEMMA MovedBegins ==
  ASSUME NEW s \in Seq(Thread), NEW t \in 1..Len(s)
  PROVE  Moved(s, t, "loop") \in Seq(Thread) /\ Begun(s, Moved(s, t, "loop"), t)
<1> DEFINE pc == "loop"
<1>1. pc \in Alive \cup {"new", "ended"}
  BY DEF Alive
<1> HIDE DEF pc
<1>2. /\ Moved(s, t, pc) \in Seq(Thread)
      /\ Len(Moved(s, t, pc)) = Len(s)
      /\ \A u \in 1..Len(s) :
           /\ Moved(s, t, pc)[u].view = s[u].view
           /\ Moved(s, t, pc)[u].pc = IF u = t THEN pc ELSE s[u].pc
  BY <1>1, PcUpdate, Zenon
<1> QED
  BY <1>2 DEF Begun, pc

LEMMA StartThreadOf ==
  ASSUME NEW P \in Players, P.view.thread \in 1..Len(P.threads)
  PROVE  LET t == P.view.thread
             Q == StartThread(P)
         IN  /\ Q \in Players /\ Q.view = P.view
             /\ P.threads[t].pc = "new" => Q.crash = P.crash /\ Begun(P.threads, Q.threads, t)
             /\ P.threads[t].pc # "new" => Q.crash = "started twice" /\ Q.threads = P.threads
<1> DEFINE t == P.view.thread
           N == Moved(P.threads, t, "loop")
           Q == StartThread(P)
<1>1. N \in Seq(Thread) /\ Begun(P.threads, N, t)
  <2>1. P.threads \in Seq(Thread)
    BY DEF Players
  <2> QED
    BY <2>1, MovedBegins
<1>2. CASE P.threads[t].pc = "new"
  <2>1. Q = [P EXCEPT !.threads = N]
    BY <1>2 DEF StartThread, Players, Moved
  <2> HIDE DEF N
  <2>2. Q \in Players /\ Q.view = P.view /\ Q.threads = N /\ Q.crash = P.crash
    BY <1>1, <2>1 DEF Players
  <2> QED
    BY <1>1, <1>2, <2>2
<1>3. CASE P.threads[t].pc # "new"
  BY <1>3 DEF StartThread, Players, Crashes
<1> QED
  BY <1>2, <1>3

\* What StartThread and NewThread make of a view without a thread.
LEMMA StartedNew ==
  ASSUME NEW P \in Players, mv \in Nat \ {0}
  PROVE  LET Q == StartThread(NewThread(P))
         IN  /\ Q \in Players /\ Grown(P.threads, Q.threads) /\ Q.crash = P.crash
             /\ Q.view.thread = Len(P.threads) + 1
             /\ Q.view.mIn = P.view.mIn /\ Q.view.suspending = P.view.suspending
             /\ SameFlags(P.view, Q.view)
<1> DEFINE N == NewThread(P)
           Q == StartThread(N)
           T == [view |-> mv, pc |-> "new"]
           k == Len(P.threads) + 1
<1>1. /\ N \in Players /\ N.threads = Append(P.threads, T) /\ N.crash = P.crash
      /\ N.view.thread = k
      /\ N.view.mIn = P.view.mIn /\ N.view.suspending = P.view.suspending
      /\ SameFlags(P.view, N.view)
  BY NewThreadOf
<1> HIDE DEF N
<1>2. P.threads \in Seq(Thread) /\ Len(P.threads) \in Nat /\ T \in Thread
  BY LenProperties DEF Players, Thread
<1>3. /\ Len(N.threads) = k /\ N.threads[k] = T
      /\ \A u \in 1..Len(P.threads) : N.threads[u] = P.threads[u]
  <2> HIDE DEF T
  <2> QED
    BY <1>1, <1>2, AppendProperties
<1>4. k \in 1..k /\ \A u \in 1..Len(P.threads) : u \in 1..k /\ u # k
  BY <1>2
<1>5. T.view = mv /\ T.pc = "new"
  OBVIOUS
<1> HIDE DEF k, T
<1>6. /\ Q \in Players /\ Q.view = N.view /\ Q.crash = N.crash
      /\ Begun(N.threads, Q.threads, k)
  <2>1. N.view.thread \in 1..Len(N.threads) /\ N.threads[N.view.thread].pc = "new"
    BY <1>1, <1>3, <1>4, <1>5
  <2>2. /\ Q \in Players /\ Q.view = N.view /\ Q.crash = N.crash
        /\ Begun(N.threads, Q.threads, N.view.thread)
    BY <1>1, <2>1, StartThreadOf, ZenonT(60)
  <2> HIDE DEF Q
  <2> QED
    BY <1>1, <2>2, Zenon
<1>7. Grown(P.threads, Q.threads)
  BY <1>3, <1>4, <1>5, <1>6 DEF Grown, Begun, k
<1> QED
  BY <1>1, <1>6, <1>7 DEF k, N, SameFlags

LEMMA GivenOf ==
  ASSUME NEW P \in Players, NEW opened \in BOOLEAN
  PROVE  LET Q == [P EXCEPT !.view.mIn = opened]
         IN  /\ Q \in Players /\ Q.threads = P.threads /\ Q.crash = P.crash
             /\ Q.view.mIn = opened /\ Q.view.thread = P.view.thread
             /\ Q.view.mRun = P.view.mRun /\ Q.view.suspending = P.view.suspending
             /\ SameFlags(P.view, Q.view)
<1>1. [P.view EXCEPT !.mIn = opened] \in View
  BY DEF Players, View
<1>2. [P EXCEPT !.view.mIn = opened] \in Players
  BY <1>1 DEF Players
<1> QED
  BY <1>2 DEF Players, View, SameFlags

LEMMA ToldOf ==
  ASSUME NEW P \in Players
  PROVE  LET Q == [P EXCEPT !.view.mRun = TRUE]
         IN  /\ Q \in Players /\ Q.threads = P.threads /\ Q.crash = P.crash
             /\ Q.view.mRun /\ Q.view.thread = P.view.thread /\ Q.view.mIn = P.view.mIn
             /\ Q.view.suspending = P.view.suspending
             /\ SameFlags(P.view, Q.view)
<1>1. [P.view EXCEPT !.mRun = TRUE] \in View
  BY DEF Players, View
<1>2. [P EXCEPT !.view.mRun = TRUE] \in Players
  BY <1>1 DEF Players
<1> QED
  BY <1>2 DEF Players, View, SameFlags

LEMMA ResumedOf ==
  ASSUME NEW P \in Players
  PROVE  LET Q == [P EXCEPT !.view.mRun = TRUE, !.view.suspending = FALSE]
         IN  /\ Q \in Players /\ Q.threads = P.threads /\ Q.crash = P.crash
             /\ Q.view.mRun /\ ~Q.view.suspending
             /\ Q.view.thread = P.view.thread /\ Q.view.mIn = P.view.mIn
             /\ SameFlags(P.view, Q.view)
<1>1. [P.view EXCEPT !.mRun = TRUE, !.suspending = FALSE] \in View
  BY DEF Players, View
<1>2. [P EXCEPT !.view.mRun = TRUE, !.view.suspending = FALSE]
        = [P EXCEPT !.view = [P.view EXCEPT !.mRun = TRUE, !.suspending = FALSE]]
  BY DEF Players
<1>3. [P EXCEPT !.view.mRun = TRUE, !.view.suspending = FALSE] \in Players
  BY <1>1, <1>2 DEF Players
<1> QED
  BY <1>3, ZenonT(60) DEF Players, View, SameFlags

\* resumePlayback makes a thread and starts it, which cannot fail.
LEMMA ResumePlaybackOf ==
  ASSUME NEW P \in Players, mv \in Nat \ {0}, P.view.mIn
  PROVE  LET Q == ResumePlayback(P)
         IN  /\ Q \in Players /\ Grown(P.threads, Q.threads) /\ Q.crash = P.crash
             /\ Q.view.thread = Len(P.threads) + 1 /\ Q.view.mIn
             /\ Q.view.mRun /\ ~Q.view.suspending /\ SameFlags(P.view, Q.view)
<1> DEFINE R == StartThread(NewThread(P))
           Q == [R EXCEPT !.view.mRun = TRUE, !.view.suspending = FALSE]
<1>1. ResumePlayback(P) = Q
  BY DEF ResumePlayback
<1>2. /\ R \in Players /\ Grown(P.threads, R.threads) /\ R.crash = P.crash
      /\ R.view.thread = Len(P.threads) + 1
      /\ R.view.mIn = P.view.mIn /\ R.view.suspending = P.view.suspending
      /\ SameFlags(P.view, R.view)
  BY StartedNew
<1> HIDE DEF R
<1>3. /\ Q \in Players /\ Q.threads = R.threads /\ Q.crash = R.crash
      /\ Q.view.mRun /\ ~Q.view.suspending
      /\ Q.view.thread = R.view.thread /\ Q.view.mIn = R.view.mIn
      /\ SameFlags(R.view, Q.view)
  BY <1>2, ResumedOf
<1> HIDE DEF Q
<1>4. Grown(P.threads, Q.threads) /\ SameFlags(P.view, Q.view)
  BY <1>2, <1>3 DEF SameFlags
<1> QED
  BY <1>1, <1>2, <1>3, <1>4

\* startPlayback fails for a view whose thread has been started before.
LEMMA StartPlaybackOf ==
  ASSUME NEW P \in Players, mv \in Nat \ {0}, P.view.mIn, ~P.view.suspending,
         P.view.thread \in 0..Len(P.threads)
  PROVE  LET Q == StartPlayback(P)
             t == P.view.thread
         IN  /\ Q \in Players /\ Q.view.mIn
             /\ Q.view.mRun /\ ~Q.view.suspending /\ SameFlags(P.view, Q.view)
             /\ t = 0 => /\ Grown(P.threads, Q.threads) /\ Q.crash = P.crash
                         /\ Q.view.thread = Len(P.threads) + 1
             /\ t # 0 /\ P.threads[t].pc = "new" =>
                  /\ Begun(P.threads, Q.threads, t) /\ Q.crash = P.crash
                  /\ Q.view.thread = t
             /\ t # 0 /\ P.threads[t].pc # "new" =>
                  /\ Q.threads = P.threads /\ Q.crash = "started twice"
                  /\ Q.view.thread = t
<1> DEFINE t == P.view.thread
           R == StartThread(IF t = 0 THEN NewThread(P) ELSE P)
           Q == [R EXCEPT !.view.mRun = TRUE]
<1>1. StartPlayback(P) = Q
  BY DEF StartPlayback
<1>2. /\ R \in Players /\ R.view.mIn /\ ~R.view.suspending /\ SameFlags(P.view, R.view)
      /\ t = 0 => /\ Grown(P.threads, R.threads) /\ R.crash = P.crash
                  /\ R.view.thread = Len(P.threads) + 1
      /\ t # 0 /\ P.threads[t].pc = "new" =>
           Begun(P.threads, R.threads, t) /\ R.crash = P.crash /\ R.view.thread = t
      /\ t # 0 /\ P.threads[t].pc # "new" =>
           R.threads = P.threads /\ R.crash = "started twice" /\ R.view.thread = t
  <2>1. CASE t = 0
    <3>1. R = StartThread(NewThread(P))
      BY <2>1
    <3> HIDE DEF R
    <3> QED
      BY <2>1, <3>1, StartedNew
  <2>2. CASE t # 0
    <3>1. R = StartThread(P)
      BY <2>2
    <3>2. Len(P.threads) \in Nat
      BY LenProperties DEF Players
    <3>3. t \in 1..Len(P.threads)
      BY <2>2, <3>2, ZeroOrIndex
    <3>4. SameFlags(P.view, P.view)
      BY DEF SameFlags
    <3> HIDE DEF R
    <3> QED
      BY <2>2, <3>1, <3>3, <3>4, StartThreadOf
  <2> QED
    BY <2>1, <2>2
<1> HIDE DEF R
<1>3. /\ Q \in Players /\ Q.threads = R.threads /\ Q.crash = R.crash
      /\ Q.view.mRun /\ Q.view.thread = R.view.thread /\ Q.view.mIn = R.view.mIn
      /\ Q.view.suspending = R.view.suspending
      /\ SameFlags(R.view, Q.view)
  BY <1>2, ToldOf
<1> HIDE DEF Q
<1>4. SameFlags(P.view, Q.view)
  BY <1>2, <1>3 DEF SameFlags
<1> QED
  BY <1>1, <1>2, <1>3, <1>4

\* What becomes of a view that is told what a DoRead has opened.
LEMMA SetSourceOf ==
  ASSUME NEW P \in Players, mv \in Nat \ {0}, NEW opened \in BOOLEAN,
         P.view.thread \in 0..Len(P.threads)
  PROVE  LET Q == SetSource(P, opened)
             t == P.view.thread
         IN  /\ Q \in Players /\ Q.view.mIn = opened /\ SameFlags(P.view, Q.view)
             /\ ~opened =>
                  /\ Q.threads = P.threads /\ Q.crash = P.crash /\ Q.view.thread = t
                  /\ Q.view.mRun = P.view.mRun /\ Q.view.suspending = P.view.suspending
             /\ opened => Q.view.mRun /\ ~Q.view.suspending
             /\ opened /\ (P.view.suspending \/ t = 0) =>
                  /\ Grown(P.threads, Q.threads) /\ Q.crash = P.crash
                  /\ Q.view.thread = Len(P.threads) + 1
             /\ opened /\ ~P.view.suspending /\ t # 0 =>
                  /\ Q.view.thread = t
                  /\ \/ /\ P.threads[t].pc = "new"
                        /\ Begun(P.threads, Q.threads, t) /\ Q.crash = P.crash
                     \/ /\ P.threads[t].pc # "new"
                        /\ Q.threads = P.threads /\ Q.crash = "started twice"
<1> DEFINE R == [P EXCEPT !.view.mIn = opened]
           Q == SetSource(P, opened)
           t == P.view.thread
<1>1. /\ R \in Players /\ R.threads = P.threads /\ R.crash = P.crash
      /\ R.view.mIn = opened /\ R.view.thread = t
      /\ R.view.mRun = P.view.mRun /\ R.view.suspending = P.view.suspending
      /\ SameFlags(P.view, R.view)
  BY GivenOf
<1>2. Q = IF P.view.suspending THEN ResumePlayback(R) ELSE StartPlayback(R)
  BY DEF SetSource
<1> HIDE DEF R, Q
<1>3. CASE ~opened
  <2>1. Q = R
    BY <1>1, <1>2, <1>3 DEF ResumePlayback, StartPlayback
  <2> QED
    BY <1>1, <1>3, <2>1 DEF Q
<1>4. CASE opened /\ P.view.suspending
  <2>1. /\ Q \in Players /\ Grown(R.threads, Q.threads) /\ Q.crash = R.crash
        /\ Q.view.thread = Len(R.threads) + 1 /\ Q.view.mIn
        /\ Q.view.mRun /\ ~Q.view.suspending /\ SameFlags(R.view, Q.view)
    BY <1>1, <1>2, <1>4, ResumePlaybackOf
  <2>2. SameFlags(P.view, Q.view) /\ Q.view.mIn = opened
    <3>1. Q.view.mIn \in BOOLEAN
      BY <2>1 DEF Players, View
    <3> QED
      BY <1>1, <1>4, <2>1, <3>1 DEF SameFlags
  <2> QED
    BY <1>1, <1>4, <2>1, <2>2 DEF Q
<1>5. CASE opened /\ ~P.view.suspending
  <2>1. R.view.mIn /\ ~R.view.suspending /\ R.view.thread \in 0..Len(R.threads)
    BY <1>1, <1>5
  <2>2. Q = StartPlayback(R)
    BY <1>2, <1>5
  <2>3. /\ Q \in Players /\ Q.view.mIn
        /\ Q.view.mRun /\ ~Q.view.suspending /\ SameFlags(R.view, Q.view)
        /\ t = 0 => /\ Grown(R.threads, Q.threads) /\ Q.crash = R.crash
                    /\ Q.view.thread = Len(R.threads) + 1
        /\ t # 0 /\ R.threads[t].pc = "new" =>
             /\ Begun(R.threads, Q.threads, t) /\ Q.crash = R.crash
             /\ Q.view.thread = t
        /\ t # 0 /\ R.threads[t].pc # "new" =>
             /\ Q.threads = R.threads /\ Q.crash = "started twice"
             /\ Q.view.thread = t
    BY <1>1, <2>1, <2>2, StartPlaybackOf, ZenonT(60)
  <2>4. SameFlags(P.view, Q.view) /\ Q.view.mIn = opened
    <3>1. Q.view.mIn \in BOOLEAN
      BY <2>3 DEF Players, View
    <3> QED
      BY <1>1, <1>5, <2>3, <3>1 DEF SameFlags
  <2> QED
    BY <1>1, <1>5, <2>3, <2>4 DEF Q
<1> QED
  BY <1>3, <1>4, <1>5

Noted(P, late, refused) == [P EXCEPT !.view.late = late, !.view.refused = refused]

LEMMA NotedOf ==
  ASSUME NEW Q \in Players, NEW late \in BOOLEAN, NEW refused \in BOOLEAN
  PROVE  LET R == Noted(Q, late, refused)
         IN  /\ R.view \in View /\ R.threads = Q.threads /\ R.crash = Q.crash
             /\ R.view.thread = Q.view.thread /\ R.view.mIn = Q.view.mIn
             /\ R.view.mRun = Q.view.mRun /\ R.view.suspending = Q.view.suspending
             /\ R.view.surfaceDone = Q.view.surfaceDone
             /\ R.view.surface = Q.view.surface
             /\ R.view.late = late /\ R.view.refused = refused
             /\ R.view.starved = Q.view.starved
<1>1. [Q.view EXCEPT !.late = late, !.refused = refused] \in View
  BY DEF Players, View
<1> QED
  BY <1>1 DEF Players, View, Noted

\* What an answer makes of the current view and of the threads.
LEMMA AnswerStep ==
  ASSUME TypeOK, NEW opened \in BOOLEAN, Answer(opened)
  PROVE  /\ views' = [views EXCEPT ![mv] = current'] /\ mv' = mv
         /\ current' \in View /\ SeqsOK' /\ crash' \in Crashes
         /\ \A i \in 1..Len(views) : i # mv => views'[i] = views[i]
         /\ current'.mIn = opened
         /\ current'.surfaceDone = current.surfaceDone
         /\ current'.surface = current.surface
         /\ current'.late = (current.late \/ (opened /\ life # "resumed"))
         /\ current'.refused = (current.refused \/ ~opened)
         /\ current'.starved = current.starved
         /\ ~opened =>
              /\ threads' = threads /\ crash' = "none"
              /\ current'.thread = current.thread
              /\ current'.mRun = current.mRun /\ current'.suspending = current.suspending
         /\ opened => current'.mRun /\ ~current'.suspending
         /\ opened /\ (current.suspending \/ current.thread = 0) =>
              /\ Grown(threads, threads') /\ crash' = "none"
              /\ current'.thread = Len(threads) + 1
         /\ opened /\ ~current.suspending /\ current.thread # 0 =>
              /\ current'.thread = current.thread
              /\ \/ /\ threads[current.thread].pc = "new"
                    /\ Begun(threads, threads', current.thread) /\ crash' = "none"
                 \/ /\ threads[current.thread].pc # "new"
                    /\ threads' = threads /\ crash' = "started twice"
<1>1. PICK P \in {SetSource(Player, opened)} :
        Becomes([P EXCEPT !.view.late = @ \/ (opened /\ life # "resumed"),
                          !.view.refused = @ \/ ~opened])
  BY DEF Answer
<1>2. /\ Player \in Players /\ Player.view = current /\ Player.threads = threads
      /\ Player.crash = "none"
  BY SeqTypes, CurrentType DEF Player, Players, Crashes, current
<1>3. mv \in Nat \ {0} /\ current.thread \in 0..Len(threads)
  BY CurrentType, CameraAssumption
<1>4. /\ P \in Players /\ P.view.mIn = opened /\ SameFlags(current, P.view)
      /\ ~opened =>
           /\ P.threads = threads /\ P.crash = "none" /\ P.view.thread = current.thread
           /\ P.view.mRun = current.mRun /\ P.view.suspending = current.suspending
      /\ opened => P.view.mRun /\ ~P.view.suspending
      /\ opened /\ (current.suspending \/ current.thread = 0) =>
           /\ Grown(threads, P.threads) /\ P.crash = "none"
           /\ P.view.thread = Len(threads) + 1
      /\ opened /\ ~current.suspending /\ current.thread # 0 =>
           /\ P.view.thread = current.thread
           /\ \/ /\ threads[current.thread].pc = "new"
                 /\ Begun(threads, P.threads, current.thread) /\ P.crash = "none"
              \/ /\ threads[current.thread].pc # "new"
                 /\ P.threads = threads /\ P.crash = "started twice"
  <2>1. P = SetSource(Player, opened)
    BY <1>1
  <2> QED
    BY <1>2, <1>3, <2>1, SetSourceOf, ZenonT(80)
<1> DEFINE late == P.view.late \/ (opened /\ life # "resumed")
           refused == P.view.refused \/ ~opened
           R == Noted(P, late, refused)
<1>5. /\ R.view \in View /\ R.threads = P.threads /\ R.crash = P.crash
      /\ R.view.thread = P.view.thread /\ R.view.mIn = P.view.mIn
      /\ R.view.mRun = P.view.mRun /\ R.view.suspending = P.view.suspending
      /\ R.view.surfaceDone = P.view.surfaceDone
      /\ R.view.surface = P.view.surface
      /\ R.view.late = late /\ R.view.refused = refused
      /\ R.view.starved = P.view.starved
  <2>1. late \in BOOLEAN /\ refused \in BOOLEAN
    OBVIOUS
  <2>2. P \in Players
    BY <1>4
  <2> HIDE DEF late, refused
  <2> QED
    BY <2>1, <2>2, NotedOf
<1>6. views' = [views EXCEPT ![mv] = R.view] /\ threads' = P.threads /\ crash' = P.crash
  BY <1>1, <1>5 DEF Becomes, Noted
<1> HIDE DEF R
<1>7. /\ views' \in Seq(View) /\ Len(views') = Len(views) /\ mv' = mv /\ current' = R.view
      /\ \A i \in 1..Len(views) : views'[i] = IF i = mv THEN R.view ELSE views[i]
  BY <1>5, <1>6, CurrentUpdate
<1>8. SeqsOK'
  <2>1. P.threads \in Seq(Thread) /\ Len(threads) \in Nat /\ mv \in Nat
    BY <1>4, Numbers DEF Players
  <2>2. \/ P.threads = threads /\ R.view.thread = current.thread
        \/ Grown(threads, P.threads) /\ R.view.thread = Len(threads) + 1
        \/ Begun(threads, P.threads, current.thread) /\ R.view.thread = current.thread
    BY <1>4, <1>5
  <2>3. \/ Len(P.threads) = Len(threads) /\ R.view.thread \in 0..Len(threads)
        \/ Len(P.threads) = Len(threads) + 1 /\ R.view.thread \in 0..(Len(threads) + 1)
    <3>1. Len(threads) + 1 \in 0..(Len(threads) + 1)
      BY <2>1
    <3> QED
      BY <1>3, <2>2, <3>1 DEF Grown, Begun
  <2>4. \A i \in 1..Len(views) : views'[i].thread \in 0..Len(P.threads)
    <3>1. \A i \in 1..Len(views) : views[i].thread \in 0..Len(threads)
      BY DEF TypeOK
    <3>2. \A i \in 1..Len(views) : views[i].thread \in 0..(Len(threads) + 1)
      BY <2>1, <3>1, Wider
    <3> QED
      BY <1>7, <2>3, <3>1, <3>2
  <2>5. \A t \in 1..Len(P.threads) : P.threads[t].view \in 1..Len(views)
    <3>1. \A t \in 1..Len(threads) : threads[t].view \in 1..Len(views)
      BY DEF TypeOK
    <3>2. mv \in 1..Len(views)
      BY SeqTypes DEF mv
    <3>3. \A t \in 1..(Len(threads) + 1) : t \in 1..Len(threads) \/ t = Len(threads) + 1
      BY <2>1
    <3> QED
      BY <2>2, <3>1, <3>2, <3>3 DEF Grown, Begun
  <2>6. Len(views) \in 1..MaxViews
    BY SeqTypes
  <2> QED
    BY <1>6, <1>7, <2>1, <2>4, <2>5, <2>6 DEF SeqsOK
<1> QED
  BY <1>4, <1>5, <1>6, <1>7, <1>8 DEF SameFlags, Players

\* An answer leaves the threads as they are but for the one that it starts.
LEMMA AnswerThreads ==
  ASSUME IInv, NEW opened \in BOOLEAN, Answer(opened)
  PROVE  /\ \/ Len(threads') = Len(threads)
            \/ Len(threads') = Len(threads) + 1
         /\ current'.thread # 0 => threads'[current'.thread].view = mv
         /\ \A u \in LiveThreads' :
              \/ /\ u \in LiveThreads /\ threads'[u].view = threads[u].view
                 /\ threads'[u].pc = threads[u].pc
              \/ /\ opened /\ u = current'.thread
                 /\ threads'[u].view = mv /\ threads'[u].pc = "loop"
<1> DEFINE k == current.thread
           n == Len(threads)
<1>1. /\ k \in 0..n /\ n \in Nat /\ (k # 0 => k \in 1..n)
      /\ (k # 0 => threads[k].view = mv)
  <2>1. k \in 0..n /\ n \in Nat
    BY CurrentType, Numbers DEF IInv
  <2> QED
    BY <2>1, ZeroOrIndex DEF IInv, SurfaceInv
<1>2. \/ threads' = threads /\ current'.thread = k
      \/ opened /\ Grown(threads, threads') /\ current'.thread = n + 1
      \/ opened /\ k # 0 /\ Begun(threads, threads', k) /\ current'.thread = k
  BY AnswerStep DEF IInv
<1> HIDE DEF k, n
<1>3. CASE threads' = threads /\ current'.thread = k
  BY <1>1, <1>3 DEF LiveThreads
<1>4. CASE opened /\ Grown(threads, threads') /\ current'.thread = n + 1
  <2>1. \A u \in 1..(n + 1) : u \in 1..n \/ u = n + 1
    BY <1>1
  <2>2. /\ Len(threads') = n + 1
        /\ threads'[n + 1].view = mv /\ threads'[n + 1].pc = "loop"
        /\ \A u \in 1..n :
             threads'[u].view = threads[u].view /\ threads'[u].pc = threads[u].pc
    BY <1>4 DEF Grown, n
  <2>3. \A u \in LiveThreads' : u \in 1..(n + 1) /\ threads'[u].pc \in Alive
    BY <2>2 DEF LiveThreads
  <2>4. \A u \in 1..n : threads[u].pc \in Alive => u \in LiveThreads
    BY DEF LiveThreads, n
  <2> QED
    BY <1>4, <2>1, <2>2, <2>3, <2>4 DEF n
<1>5. CASE opened /\ k # 0 /\ Begun(threads, threads', k) /\ current'.thread = k
  <2>1. /\ Len(threads') = n
        /\ \A u \in 1..n : /\ threads'[u].view = threads[u].view
                           /\ threads'[u].pc = IF u = k THEN "loop" ELSE threads[u].pc
    BY <1>5 DEF Begun, n
  <2>2. \A u \in LiveThreads' : u \in 1..n /\ threads'[u].pc \in Alive
    BY <2>1 DEF LiveThreads
  <2>3. \A u \in 1..n : threads[u].pc \in Alive => u \in LiveThreads
    BY DEF LiveThreads, n
  <2> QED
    BY <1>1, <1>5, <2>1, <2>2, <2>3 DEF n
<1> QED
  BY <1>2, <1>3, <1>4, <1>5

LEMMA AnswerKeeps ==
  ASSUME IInv, NEW opened \in BOOLEAN, Answer(opened) PROVE IInv'
<1>0. /\ joining = "no" /\ crash = "none" /\ life' = life /\ suspending' = suspending
      /\ joining' = joining /\ streamed' = streamed /\ pauses' = pauses
      /\ blocked' = blocked /\ crowded' = crowded /\ stalled' = stalled /\ rgb' = rgb
  BY DEF Answer, Idle, Running, main
<1>1. /\ views' = [views EXCEPT ![mv] = current'] /\ mv' = mv
      /\ current' \in View /\ SeqsOK' /\ crash' \in Crashes
      /\ \A i \in 1..Len(views) : i # mv => views'[i] = views[i]
  BY AnswerStep DEF IInv
<1>2. /\ current'.mIn = opened
      /\ current'.surfaceDone = current.surfaceDone
      /\ current'.surface = current.surface
      /\ current'.late = (current.late \/ (opened /\ life # "resumed"))
      /\ current'.refused = (current.refused \/ ~opened)
      /\ ~opened => current'.mRun = current.mRun /\ current'.suspending = current.suspending
      /\ opened => current'.mRun /\ ~current'.suspending
  BY AnswerStep DEF IInv
<1>3. /\ \/ Len(threads') = Len(threads)
         \/ Len(threads') = Len(threads) + 1
      /\ current'.thread # 0 => threads'[current'.thread].view = mv
      /\ \A u \in LiveThreads' :
           \/ /\ u \in LiveThreads /\ threads'[u].view = threads[u].view
              /\ threads'[u].pc = threads[u].pc
           \/ /\ opened /\ u = current'.thread
              /\ threads'[u].view = mv /\ threads'[u].pc = "loop"
  BY AnswerThreads
<1>4. CountersOK /\ FlagsOK
  BY TypeParts DEF IInv
<1>5. \/ pool > 0 /\ pool' = pool - 1 /\ serial' = serial
      \/ serial > 0 /\ serial' = serial - 1 /\ pool' = pool
  BY DEF Answer
<1>6. /\ pending > 0 /\ pending \in Nat /\ pending' = pending - 1
      /\ pool' <= pool /\ serial' <= serial /\ owed' = owed /\ owed \in {0, 1}
  BY <1>0, <1>5, Numbers DEF pending, owed, IInv
<1>7. CountersOK'
  BY <1>0, <1>4, <1>5, CameraAssumption DEF CountersOK
<1>8. FlagsOK'
  BY <1>0, <1>1, <1>4 DEF FlagsOK, Crashes
<1>9. ThreadInv'
  <2> SUFFICES ASSUME NEW u \in LiveThreads' PROVE ThreadOK(u)'
    BY DEF ThreadInv
  <2>1. CASE /\ u \in LiveThreads /\ threads'[u].view = threads[u].view
             /\ threads'[u].pc = threads[u].pc
    <3>1. ThreadOK(u) /\ (threads[u].view # mv <=> threads[u].view < mv)
      BY <2>1, LiveOK DEF IInv
    <3>2. u \in 1..Len(threads) /\ threads[u].view \in 1..Len(views) /\ u # 0
      BY <2>1, LiveTypes, CurrentType DEF IInv, mv
    <3>3. CASE threads[u].view < mv
      <4>1. ViewOf(u)' = ViewOf(u)
        BY <1>1, <2>1, <3>1, <3>2, <3>3 DEF ViewOf
      <4>2. threads[u].view # mv
        BY <3>1, <3>3
      <4> QED
        BY <1>0, <1>1, <2>1, <3>1, <3>3, <4>1, <4>2 DEF ThreadOK
    <3>4. CASE ~(threads[u].view < mv)
      <4>1. threads[u].view = mv
        BY <3>1, <3>4
      <4>2. u = current.thread /\ current.mRun /\ ~current.suspending
        BY <1>0, <3>1, <4>1 DEF ThreadOK
      <4>3. u = current'.thread /\ current'.mRun /\ ~current'.suspending
        BY <3>2, <4>2, <1>2, AnswerStep DEF IInv
      <4>4. ViewOf(u)' = current' /\ ViewOf(u) = current
        BY <1>1, <2>1, <4>1 DEF ViewOf, current
      <4> QED
        BY <1>0, <1>1, <1>2, <2>1, <3>1, <3>4, <4>1, <4>3, <4>4 DEF ThreadOK
    <3> QED
      BY <3>3, <3>4
  <2>2. CASE /\ opened /\ u = current'.thread
             /\ threads'[u].view = mv /\ threads'[u].pc = "loop"
    <3>1. ViewOf(u)' = current'
      BY <1>1, <2>2 DEF ViewOf, current
    <3>2. ~(mv < mv)
      BY Numbers DEF IInv
    <3> QED
      BY <1>0, <1>1, <1>2, <2>2, <3>1, <3>2 DEF ThreadOK
  <2> QED
    BY <1>3, <2>1, <2>2
<1>10. SurfaceInv'
  <2>1. \A i \in 1..(mv - 1) : i \in 1..Len(views) /\ i # mv
    BY SeqTypes DEF IInv, mv
  <2> QED
    BY <1>0, <1>1, <1>2, <1>3, <2>1 DEF IInv, SurfaceInv
<1>11. StopInv'
  BY <1>0, <1>1, <1>2 DEF IInv, StopInv
<1>12. CountInv'
  <2>1. Len(threads') + pending' <= Len(threads) + pending
    BY <1>3, <1>6, Numbers DEF IInv
  <2>2. serial' + owed' <= serial + owed
    BY <1>5, <1>6, Numbers DEF IInv
  <2> QED
    BY <1>0, <1>1, <1>3, <1>5, <1>6, <2>1, <2>2, Numbers, SMTT(30) DEF IInv, CountInv
<1>13. CrowdInv'
  <2> SUFFICES ASSUME ~crowded PROVE CrowdInv'
    BY <1>0 DEF CrowdInv
  <2>1. /\ pending <= 1 /\ AwaitsStream /\ (suspending => pending = 0)
        /\ \A t \in LiveThreads : threads[t].view = mv => current.mIn
    BY <1>6 DEF IInv, CrowdInv
  <2>2. pending' = 0 /\ ~suspending
    BY <1>6, <2>1
  <2>3. crash' = "none"
    BY <2>1, AnswerStep DEF IInv, AwaitsStream
  <2>4. \A u \in LiveThreads' : threads'[u].view = mv => current'.mIn
    BY <1>2, <1>3, <2>1 DEF AwaitsStream
  <2> QED
    BY <1>0, <1>1, <2>2, <2>3, <2>4 DEF CrowdInv
<1>14. DarkInv'
  <2>1. current'.mRun \/ current'.refused
    BY <1>2
  <2> QED
    BY <2>1 DEF DarkInv
<1> QED
  BY <1>1, <1>7, <1>8, <1>9, <1>10, <1>11, <1>12, <1>13, <1>14, TypeParts DEF IInv

-----------------------------------------------------------------------------
LEMMA InitHolds == ASSUME Init PROVE IInv
<1> DEFINE V == FreshView(1)
           T == [view |-> 1, pc |-> "new"]
<1>1. V \in View /\ T \in Thread /\ V.thread = 1 /\ ~V.surfaceDone /\ ~V.surface /\ ~V.mRun
      /\ ~V.mIn
  BY DEF FreshView, View, Thread
<1>2. T.view = 1 /\ T.pc = "new" /\ "new" \notin Alive
  BY DEF Alive
<1> HIDE DEF V, T
<1>3. /\ views \in Seq(View) /\ Len(views) = 1 /\ views[1] = V
      /\ threads \in Seq(Thread) /\ Len(threads) = 1 /\ threads[1] = T
  BY <1>1 DEF Init, V, T
<1>4. /\ life = "resumed" /\ suspending = FALSE /\ pauses = 0
      /\ joining = "no" /\ streamed = FALSE
      /\ pool = 1 /\ serial = 0 /\ blocked \in BOOLEAN /\ crowded = FALSE
      /\ stalled = FALSE /\ rgb = FALSE /\ crash = "none"
  BY DEF Init
<1>5. mv = 1 /\ current = V /\ pending = 1 /\ owed = 0
  BY <1>3, <1>4 DEF mv, current, pending, owed
<1>6. LiveThreads = {}
  <2>1. \A t \in 1..1 : t = 1
    OBVIOUS
  <2> QED
    BY <1>2, <1>3, <2>1 DEF LiveThreads
<1>7. TypeOK
  <2>1. MaxViews \in Nat /\ 1 <= MaxViews /\ MaxPauses \in Nat
    BY CameraAssumption
  <2>2. /\ pool \in 0..MaxViews /\ serial \in 0..MaxPauses /\ pauses \in 0..MaxPauses
        /\ Len(views) \in 1..MaxViews
    BY <1>3, <1>4, <2>1
  <2>3. /\ \A i \in 1..Len(views) : views[i].thread \in 0..Len(threads)
        /\ \A t \in 1..Len(threads) : threads[t].view \in 1..Len(views)
    <3>1. \A t \in 1..1 : t = 1
      OBVIOUS
    <3> QED
      BY <1>1, <1>2, <1>3, <3>1
  <2> QED
    BY <1>3, <1>4, <2>2, <2>3 DEF TypeOK
<1>8. ThreadInv
  BY <1>6 DEF ThreadInv
<1>9. SurfaceInv
  BY <1>1, <1>2, <1>3, <1>4, <1>5 DEF SurfaceInv
<1>10. StopInv
  BY <1>1, <1>4, <1>5 DEF StopInv
<1>11. CountInv
  BY <1>3, <1>4, <1>5 DEF CountInv
<1>12. CrowdInv
  BY <1>1, <1>2, <1>3, <1>4, <1>5, <1>6 DEF CrowdInv, AwaitsStream
<1>13. DarkInv
  BY <1>5 DEF DarkInv
<1> QED
  BY <1>7, <1>8, <1>9, <1>10, <1>11, <1>12, <1>13 DEF IInv

\* The inductive invariant: every step of the main thread, of a DoRead, of a
\* playback thread and of the camera keeps it.
THEOREM Inductive == Spec => []IInv
<1>1. Init => IInv
  BY InitHolds
<1>2. IInv /\ [Next]_vars => IInv'
  <2> SUFFICES ASSUME IInv, [Next]_vars PROVE IInv'
    OBVIOUS
  <2>1. CASE Pause
    BY <2>1, PauseKeeps
  <2>2. CASE Resume
    BY <2>2, ResumeKeeps
  <2>3. CASE Hide
    BY <2>3, HideKeeps
  <2>4. CASE Show
    BY <2>4, ShowKeeps
  <2>5. CASE Destroy
    BY <2>5, DestroyKeeps
  <2>6. CASE SurfaceCreated
    BY <2>6, SurfaceCreatedKeeps
  <2>7. CASE SurfaceDestroyed
    BY <2>7, SurfaceDestroyedKeeps
  <2>8. CASE Joined
    BY <2>8, JoinedKeeps
  <2>9. CASE \E opened \in BOOLEAN : Answer(opened)
    BY <2>9, AnswerKeeps
  <2>10. CASE \E t \in 1..Len(threads) : Run(t)
    BY <2>10, RunKeeps
  <2>11. CASE Stall
    BY <2>11, StallKeeps
  <2>12. CASE UNCHANGED vars
    <3>1. /\ life' = life /\ suspending' = suspending /\ streamed' = streamed
          /\ joining' = joining /\ blocked' = blocked /\ stalled' = stalled
          /\ rgb' = rgb /\ crowded' = crowded /\ crash' = crash
      BY <2>12 DEF vars, main, reads
    <3>2. FlagsOK'
      <4>1. FlagsOK
        BY TypeParts DEF IInv
      <4> QED
        BY <3>1, <4>1, ZenonT(60) DEF FlagsOK
    <3>3. UNCHANGED <<views, threads, reads, suspending, joining, streamed, pauses, crash>>
      BY <2>12 DEF vars, main
    <3> QED
      BY <3>1, <3>2, <3>3, SameViews
  <2> QED
    BY <2>1, <2>2, <2>3, <2>4, <2>5, <2>6, <2>7, <2>8, <2>9, <2>10, <2>11, <2>12 DEF Next
<1> QED
  BY <1>1, <1>2, PTL DEF Spec

\* Every variable keeps its type; in particular no view or thread refers to one
\* that was never made, and the DoReads under way stay within the bounds.
THEOREM TypeCorrect == Spec => []TypeOK
<1>1. IInv => TypeOK
  BY DEF IInv
<1> QED
  BY <1>1, Inductive, PTL

\* Only the thread that the current view holds can be busy with the stream.
LEMMA BusyIsCurrent ==
  ASSUME IInv, NEW t \in Busy
  PROVE  t = current.thread /\ threads[t].view = mv /\ current.surface
<1>1. t \in LiveThreads /\ threads[t].pc \notin {"loop", "look"}
  BY DEF Busy
<1>2. ThreadOK(t) /\ (threads[t].view # mv <=> threads[t].view < mv)
  BY <1>1, LiveOK DEF IInv
<1> QED
  BY <1>1, <1>2 DEF ThreadOK

\* At most one thread reads the stream or draws, for the view of the fragment
\* and while that has its surface; a thread of a view the user has left got its
\* stream after that.
THEOREM OneReaderHolds == Spec => []OneReader
<1>1. IInv => OneReader
  <2> SUFFICES ASSUME IInv PROVE OneReader
    OBVIOUS
  <2>1. \A t \in Busy : threads[t].view = mv /\ views[mv].surface
    BY BusyIsCurrent DEF current
  <2>2. Cardinality(Busy) <= 1
    <3>1. Busy \subseteq {current.thread}
      BY BusyIsCurrent
    <3>2. IsFiniteSet({current.thread}) /\ Cardinality({current.thread}) = 1
      BY FS_Singleton
    <3>3. Cardinality(Busy) <= Cardinality({current.thread})
      BY <3>1, <3>2, FS_Subset
    <3> QED
      BY <3>2, <3>3
  <2>3. ASSUME NEW t \in LiveThreads,
               threads[t].view # mv \/ life \in {"hidden", "destroyed"}
        PROVE  ViewOf(t).late
    <3>1. ThreadOK(t) /\ (threads[t].view # mv <=> threads[t].view < mv)
      BY LiveOK DEF IInv
    <3> QED
      BY <2>3, <3>1 DEF ThreadOK
  <2> QED
    BY <2>1, <2>2, <2>3 DEF OneReader
<1> QED
  BY <1>1, Inductive, PTL

\* A thread is started twice, or loses its stream while it reads, only after two
\* DoReads were under way at once.
THEOREM CrashNeedsCrowdHolds == Spec => []CrashNeedsCrowd
<1>1. IInv => CrashNeedsCrowd
  BY DEF IInv, CrowdInv, CrashNeedsCrowd
<1> QED
  BY <1>1, Inductive, PTL

\* A tab that stays dark has had a DoRead that failed, one queued behind the
\* poller of a device tab, or one that answered while the tab was paused.
THEOREM DarkExplainedHolds == Spec => []DarkExplained
<1>1. IInv => DarkExplained
  <2> SUFFICES ASSUME IInv, life = "resumed", joining = "no", pool + serial = 0,
                      ~views[mv].mRun
               PROVE  views[mv].refused \/ views[mv].starved \/ views[mv].late
    BY DEF DarkExplained
  <2>1. ~suspending /\ ~(pending > 0)
    BY Numbers DEF IInv, StopInv, pending
  <2> QED
    BY <2>1 DEF IInv, DarkInv, current
<1> QED
  BY <1>1, Inductive, PTL

\* onDestroy frees the frame buffer while a thread may be decoding into it only
\* when the stream came between onPause and onDestroy.
THEOREM FreedUnusedHolds == Spec => FreedUnused
<1>1. IInv /\ [Next]_vars => [rgb /\ ~rgb' => Busy = {} \/ views[mv].late]_vars
  <2> SUFFICES ASSUME IInv, Next, rgb, ~rgb', NEW t \in Busy PROVE views[mv].late
    BY Zenon
  <2>1. Destroy
    <3>1. Pause \/ Resume \/ Hide \/ Show \/ SurfaceCreated \/ SurfaceDestroyed \/ Joined
            => rgb' = rgb
      BY DEF Pause, Resume, Hide, Show, SurfaceCreated, SurfaceDestroyed, Joined
    <3>2. (\E opened \in BOOLEAN : Answer(opened)) \/ Stall => rgb' = rgb
      BY DEF Answer, Stall
    <3>3. (\E u \in 1..Len(threads) : Run(u)) => rgb' = rgb \/ rgb' = TRUE
      BY DEF Run, Loop, Look, Enter, Read, Draw
    <3> QED
      BY <3>1, <3>2, <3>3 DEF Next
  <2>2. t = current.thread /\ threads[t].view = mv
    BY BusyIsCurrent
  <2>3. t \in LiveThreads
    BY DEF Busy
  <2>4. life # "resumed"
    BY <2>1 DEF Destroy
  <2> QED
    BY <2>2, <2>3, <2>4, LiveOK DEF IInv, ThreadOK, ViewOf
<1> QED
  BY <1>1, Inductive, PTL DEF Spec, FreedUnused

\* There are never more threads than two for every time the tab was shown and one
\* for every pause: fairness speaks of every thread there is.
THEOREM ThreadsBounded == Spec => [](Len(threads) <= MaxThreads)
<1>1. IInv => Len(threads) <= MaxThreads
  <2> SUFFICES ASSUME IInv PROVE Len(threads) <= MaxThreads
    OBVIOUS
  <2>1. Len(threads) + pending + owed <= 2 * mv + pauses
    BY DEF IInv, CountInv
  <2>2. pending \in Nat /\ owed \in Nat
    BY Numbers DEF IInv, pending, owed
  <2>3. mv \in Nat /\ mv <= MaxViews /\ pauses \in Nat /\ pauses <= MaxPauses
    <3>1. mv \in 1..MaxViews /\ pauses \in 0..MaxPauses
      BY CurrentType, TypeParts DEF IInv, CountersOK
    <3> QED
      BY <3>1, Numbers, CameraAssumption DEF IInv
  <2> QED
    BY <2>1, <2>2, <2>3, Numbers, CameraAssumption DEF MaxThreads, IInv
<1> QED
  BY <1>1, Inductive, PTL

=============================================================================
