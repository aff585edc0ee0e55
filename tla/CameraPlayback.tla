--------------------------- MODULE CameraPlayback ---------------------------
(***************************************************************************)
(* The camera tab: the fragment MjpegActivity, the views MjpegView it has  *)
(* made, their playback threads, and the DoRead tasks that open the stream.*)
(*                                                                         *)
(* onCreateView starts a DoRead on the thread pool and onResume another on *)
(* the serial executor when playback was suspended; either hands what it   *)
(* opened to whatever view mv then is.  The main thread stops a view by    *)
(* joining its thread, and does nothing else until that thread has ended.  *)
(* The fields of a view are not volatile, but the loop of the thread calls *)
(* methods that are not inlined, so it reads mRun and surfaceDone afresh.  *)
(***************************************************************************)
EXTENDS Naturals, Sequences, FiniteSets

CONSTANTS
  MaxViews,      \* bound on how often the tab is shown
  MaxPauses      \* bound on how often the activity is paused

ASSUME CameraAssumption == MaxViews \in Nat \ {0} /\ MaxPauses \in Nat

VARIABLES
  life,        \* the fragment: resumed, paused, hidden (detached), destroyed
  suspending,  \* MjpegActivity.suspending
  views,       \* the views made so far; mv is the last
  threads,     \* the MjpegViewThreads made so far
  joining,     \* why the main thread is in stopPlayback, or "no"
  streamed,    \* isStreaming() when it got there from onPause
  pool,        \* DoReads of onCreateView that have not answered
  serial,      \* DoReads of onResume that have not answered
  blocked,     \* the serial executor has a task that never ends
  stalled,     \* the camera sends nothing, neither data nor an end
  rgb,         \* the native frame buffer is allocated
  crash,       \* the exception that ended the process, or "none"
  crowded,     \* two DoReads were pending at once
  pauses

main   == <<life, suspending, joining, streamed, pauses>>
reads  == <<pool, serial, blocked, crowded>>
vars   == <<main, views, threads, reads, stalled, rgb, crash>>

View == [thread      : Nat,       \* index in threads, or 0 for null
         mIn         : BOOLEAN,   \* not null
         mRun        : BOOLEAN,
         suspending  : BOOLEAN,   \* MjpegView.suspending
         surfaceDone : BOOLEAN,
         surface     : BOOLEAN,   \* lockCanvas() returns a canvas
         late        : BOOLEAN,   \* a stream came while it was not resumed
         refused     : BOOLEAN,   \* a DoRead came back without a stream
         starved     : BOOLEAN]   \* a DoRead will never run

Alive == {"loop", "look", "enter", "read", "draw"}
Thread == [view : Nat \ {0}, pc : Alive \cup {"new", "ended"}]

TypeOK ==
  /\ life \in {"resumed", "paused", "hidden", "destroyed"}
  /\ suspending \in BOOLEAN /\ streamed \in BOOLEAN
  /\ joining \in {"no", "pause", "hide", "surface"}
  /\ views \in Seq(View) /\ Len(views) \in 1..MaxViews
  /\ threads \in Seq(Thread)
  /\ \A i \in 1..Len(views) : views[i].thread \in 0..Len(threads)
  /\ \A t \in 1..Len(threads) : threads[t].view \in 1..Len(views)
  /\ pool \in 0..MaxViews /\ serial \in 0..MaxPauses /\ pauses \in 0..MaxPauses
  /\ blocked \in BOOLEAN /\ stalled \in BOOLEAN
  /\ rgb \in BOOLEAN /\ crowded \in BOOLEAN
  /\ crash \in {"none", "started twice", "no source", "no canvas", "scanner"}

mv == Len(views)

(* init: a view is made with a thread that is not started.                 *)
FreshView(t) ==
  [thread |-> t, mIn |-> FALSE, mRun |-> FALSE, suspending |-> FALSE,
   surfaceDone |-> FALSE, surface |-> FALSE,
   late |-> FALSE, refused |-> FALSE, starved |-> FALSE]

(* The first onCreateView and onResume.  The poller of a device tab of an  *)
(* earlier session may already keep the serial executor.                   *)
Init ==
  /\ life = "resumed" /\ suspending = FALSE /\ pauses = 0
  /\ joining = "no" /\ streamed = FALSE
  /\ threads = <<[view |-> 1, pc |-> "new"]>>
  /\ views = <<FreshView(1)>>
  /\ pool = 1 /\ serial = 0 /\ blocked \in BOOLEAN /\ crowded = FALSE
  /\ stalled = FALSE /\ rgb = FALSE /\ crash = "none"

LiveThreads == {t \in 1..Len(threads) : threads[t].pc \in Alive}

Running == crash = "none"
Idle == Running /\ joining = "no"    \* the main thread takes the next message

-----------------------------------------------------------------------------
(* The methods of MjpegView, on a record P of the view mv and what else    *)
(* they change.                                                            *)
Player == [view |-> views[mv], threads |-> threads, crash |-> "none"]

Becomes(P) ==
  /\ views' = [views EXCEPT ![mv] = P.view]
  /\ threads' = P.threads /\ crash' = P.crash

NewThread(P) ==
  [P EXCEPT !.threads = Append(@, [view |-> mv, pc |-> "new"]),
            !.view.thread = Len(P.threads) + 1]

(* Thread.start() throws for a thread that was started before.             *)
StartThread(P) ==
  LET t == P.view.thread
  IN  IF P.threads[t].pc = "new" THEN [P EXCEPT !.threads[t].pc = "loop"]
      ELSE [P EXCEPT !.crash = "started twice"]

(* startPlayback                                                           *)
StartPlayback(P) ==
  IF ~P.view.mIn THEN P
  ELSE [StartThread(IF P.view.thread = 0 THEN NewThread(P) ELSE P)
          EXCEPT !.view.mRun = TRUE]

(* resumePlayback, which makes a new thread in any case.                   *)
ResumePlayback(P) ==
  IF ~P.view.mIn THEN P
  ELSE [StartThread(NewThread(P))
          EXCEPT !.view.mRun = TRUE, !.view.suspending = FALSE]

(* setSource                                                               *)
SetSource(P, opened) ==
  LET given == [P EXCEPT !.view.mIn = opened]
  IN  IF P.view.suspending THEN ResumePlayback(given) ELSE StartPlayback(given)

(* Mutant: stopPlayback joins the thread without having told it to end.    *)
StoppingUntold(V) == [V EXCEPT !.suspending = @ \/ V.mRun]

(* stopPlayback up to join() ...                                           *)
Stopping(V) == [V EXCEPT !.suspending = @ \/ V.mRun, !.mRun = FALSE]

(* ... and after it.                                                       *)
Stopped(V) == [V EXCEPT !.thread = 0, !.mIn = FALSE]

-----------------------------------------------------------------------------
(* The life of the fragment.                                               *)

(* Mutant: the stream is opened twice.                                     *)
SerialReadTwice(V) ==
  IF blocked
  THEN /\ views' = [views EXCEPT ![mv] = [V EXCEPT !.starved = TRUE]]
       /\ UNCHANGED serial
  ELSE /\ views' = [views EXCEPT ![mv] = V]
       /\ serial' = serial + 2

(* A DoRead for the serial executor never runs behind a task without end.  *)
SerialRead(V) ==
  IF blocked
  THEN /\ views' = [views EXCEPT ![mv] = [V EXCEPT !.starved = TRUE]]
       /\ UNCHANGED serial
  ELSE /\ views' = [views EXCEPT ![mv] = V]
       /\ serial' = serial + 1

Crowd == crowded' = (crowded \/ pool' + serial' > 1)

(* Mutant: onPause lets the thread play on.                                *)
PausePlaysOn ==
  /\ Idle /\ life = "resumed" /\ pauses < MaxPauses
  /\ pauses' = pauses + 1 /\ life' = "paused"
  /\ UNCHANGED <<suspending, joining, streamed, views, threads, reads, stalled, rgb, crash>>

(* onPause: stop the view if it is streaming.                              *)
Pause ==
  /\ Idle /\ life = "resumed" /\ pauses < MaxPauses
  /\ pauses' = pauses + 1
  /\ IF views[mv].mRun
     THEN /\ joining' = "pause" /\ streamed' = TRUE
          /\ views' = [views EXCEPT ![mv] = Stopping(@)]
          /\ UNCHANGED life
     ELSE life' = "paused" /\ UNCHANGED <<joining, streamed, views>>
  /\ UNCHANGED <<suspending, threads, reads, stalled, rgb, crash>>

(* Mutant: onResume opens the stream anew whether it was suspended or not. *)
ResumeAlwaysReads ==
  /\ Idle /\ life = "paused"
  /\ life' = "resumed" /\ suspending' = FALSE
  /\ SerialRead(views[mv]) /\ UNCHANGED pool /\ Crowd
  /\ UNCHANGED <<joining, streamed, pauses, threads, blocked, stalled, rgb, crash>>

(* onResume: open the stream anew if it was suspended.                     *)
Resume ==
  /\ Idle /\ life = "paused"
  /\ life' = "resumed" /\ suspending' = FALSE
  /\ IF suspending THEN SerialRead(views[mv]) ELSE UNCHANGED <<views, serial>>
  /\ UNCHANGED pool /\ Crowd
  /\ UNCHANGED <<joining, streamed, pauses, threads, blocked, stalled, rgb, crash>>

(* Another tab is selected: onPause, then surfaceDestroyed when the view   *)
(* leaves the window.  The tab of a device starts its poller with          *)
(* execute(), which keeps the serial executor for good.                    *)
Hide ==
  /\ Idle /\ life = "resumed"
  /\ IF views[mv].mRun \/ views[mv].surface
     THEN /\ joining' = "hide" /\ streamed' = views[mv].mRun
          /\ views' = [views EXCEPT ![mv] = Stopping(@)]
          /\ UNCHANGED <<life, blocked>>
     ELSE /\ life' = "hidden" /\ blocked' = TRUE
          /\ UNCHANGED <<joining, streamed, views>>
  /\ UNCHANGED <<suspending, pauses, threads, pool, serial, crowded, stalled, rgb, crash>>

(* onCreateView and onResume, when the camera tab is selected again.       *)
Show ==
  /\ Idle /\ life = "hidden" /\ mv < MaxViews
  /\ life' = "resumed" /\ suspending' = FALSE
  /\ threads' = Append(threads, [view |-> mv + 1, pc |-> "new"])
  /\ \E starves \in {suspending /\ blocked} :
       views' = Append(views, [FreshView(Len(threads) + 1)
                                 EXCEPT !.starved = starves])
  /\ pool' = pool + 1
  /\ serial' = IF suspending /\ ~blocked THEN serial + 1 ELSE serial
  /\ Crowd
  /\ UNCHANGED <<joining, streamed, pauses, blocked, stalled, rgb, crash>>

(* onDestroy, of a fragment whose activity is finished.                    *)
Destroy ==
  /\ Idle /\ life \in {"paused", "hidden"}
  /\ life' = "destroyed"
  /\ rgb' = (rgb /\ ~views[mv].mIn)
  /\ UNCHANGED <<suspending, joining, streamed, pauses, views, threads, reads, stalled, crash>>

SurfaceCreated ==
  /\ Idle /\ life = "resumed" /\ ~views[mv].surface
  /\ views' = [views EXCEPT ![mv].surface = TRUE, ![mv].surfaceDone = TRUE]
  /\ UNCHANGED <<main, threads, reads, stalled, rgb, crash>>

(* Mutant: surfaceDestroyed tells the thread to end but does not wait.     *)
SurfaceDestroyedNoJoin ==
  /\ Idle /\ life \in {"paused", "destroyed"} /\ views[mv].surface
  /\ views' = [views EXCEPT ![mv] =
                 [Stopping(@) EXCEPT !.surfaceDone = FALSE, !.surface = FALSE]]
  /\ UNCHANGED <<main, threads, reads, stalled, rgb, crash>>

(* surfaceDestroyed: the surface is gone when this callback returns.       *)
SurfaceDestroyed ==
  /\ Idle /\ life \in {"paused", "destroyed"} /\ views[mv].surface
  /\ joining' = "surface" /\ streamed' = FALSE
  /\ views' = [views EXCEPT ![mv] = [Stopping(@) EXCEPT !.surfaceDone = FALSE]]
  /\ UNCHANGED <<life, suspending, pauses, threads, reads, stalled, rgb, crash>>

(* join() returns at once for a thread that was never started.             *)
Joinable == views[mv].thread \notin LiveThreads

(* Mutant: onPause does not note that playback is suspended.               *)
JoinedUnnoted ==
  /\ Running /\ joining # "no" /\ Joinable
  /\ joining' = "no" /\ streamed' = FALSE
  /\ views' = [views EXCEPT ![mv] =
       IF joining = "pause" THEN Stopped(@)
       ELSE [Stopped(@) EXCEPT !.surface = FALSE, !.surfaceDone = FALSE]]
  /\ life' = CASE joining = "pause" -> "paused"
               [] joining = "hide" -> "hidden" [] OTHER -> life
  /\ blocked' = (blocked \/ joining = "hide")
  /\ UNCHANGED <<suspending, pauses, threads, pool, serial, crowded, stalled, rgb, crash>>

(* stopPlayback returns, and with it onPause or surfaceDestroyed.          *)
Joined ==
  /\ Running /\ joining # "no" /\ Joinable
  /\ joining' = "no" /\ streamed' = FALSE
  /\ suspending' = (suspending \/ streamed)
  /\ views' = [views EXCEPT ![mv] =
       IF joining = "pause" THEN Stopped(@)
       ELSE [Stopped(@) EXCEPT !.surface = FALSE, !.surfaceDone = FALSE]]
  /\ life' = CASE joining = "pause" -> "paused"
               [] joining = "hide" -> "hidden" [] OTHER -> life
  /\ blocked' = (blocked \/ joining = "hide")
  /\ UNCHANGED <<pauses, threads, pool, serial, crowded, stalled, rgb, crash>>

(* onPostExecute of a DoRead, with or without a stream.                    *)
Answer(opened) ==
  /\ Idle
  /\ \/ pool > 0 /\ pool' = pool - 1 /\ UNCHANGED serial
     \/ serial > 0 /\ serial' = serial - 1 /\ UNCHANGED pool
  /\ \E P \in {SetSource(Player, opened)} :
       Becomes([P EXCEPT !.view.late = @ \/ (opened /\ life # "resumed"),
                         !.view.refused = @ \/ ~opened])
  /\ UNCHANGED <<main, blocked, crowded, stalled, rgb>>

-----------------------------------------------------------------------------
(* The thread: MjpegViewThread.run.                                        *)
Goto(t, from, to) ==
  /\ Running /\ threads[t].pc = from
  /\ threads' = [threads EXCEPT ![t].pc = to]
  /\ UNCHANGED <<main, views, reads, stalled>>

ViewOf(t) == views[threads[t].view]

Loop(t) ==                              \* while (mRun)
  /\ Goto(t, "loop", IF ViewOf(t).mRun THEN "look" ELSE "ended")
  /\ UNCHANGED <<rgb, crash>>

Look(t) ==                              \* if (surfaceDone)
  /\ Goto(t, "look", IF ViewOf(t).surfaceDone THEN "enter" ELSE "loop")
  /\ UNCHANGED <<rgb, crash>>

Enter(t) ==                             \* mIn.readMjpegFrame: mIn may be null
  /\ Goto(t, "enter", "read")
  /\ crash' = IF ViewOf(t).mIn THEN "none" ELSE "no source"
  /\ UNCHANGED rgb

(* A frame is decoded into rgb; or readMjpegFrame returns -1, throws an    *)
(* IOException, which the loop swallows, or fails on what it has scanned.  *)
Read(t) ==
  /\ ~stalled
  /\ \/ Goto(t, "read", "draw") /\ rgb' = TRUE /\ UNCHANGED crash
     \/ Goto(t, "read", "ended") /\ UNCHANGED <<rgb, crash>>
     \/ Goto(t, "read", "loop") /\ UNCHANGED <<rgb, crash>>
     \/ Goto(t, "read", "ended") /\ crash' = "scanner" /\ UNCHANGED rgb

Draw(t) ==                              \* lockCanvas() may return null
  /\ Goto(t, "draw", "loop")
  /\ crash' = IF ViewOf(t).surface THEN "none" ELSE "no canvas"
  /\ UNCHANGED rgb

Run(t) == Loop(t) \/ Look(t) \/ Enter(t) \/ Read(t) \/ Draw(t)

(* The camera stops sending, and sends again.                              *)
Stall ==
  /\ Running /\ stalled' = ~stalled
  /\ UNCHANGED <<main, views, threads, reads, rgb, crash>>

-----------------------------------------------------------------------------
Next ==
  \/ Pause \/ Resume \/ Hide \/ Show \/ Destroy
  \/ SurfaceCreated \/ SurfaceDestroyed \/ Joined
  \/ \E opened \in BOOLEAN : Answer(opened)
  \/ \E t \in 1..Len(threads) : Run(t)
  \/ Stall

(* A thread that can take a step takes it in the end: it stays in a step   *)
(* for ever only if that is a read from a stalled camera.  join() returns  *)
(* when the thread it waits for has ended.                                 *)
Stays(t, pc) == t \in LiveThreads /\ threads[t].pc = pc /\ Running

MaxThreads == 2 * MaxViews + MaxPauses

Spec ==
  /\ Init /\ [][Next]_vars
  /\ \A t \in 1..MaxThreads :
       /\ \A pc \in Alive \ {"read"} : []<>~Stays(t, pc)
       /\ []<>(stalled \/ ~Stays(t, "read"))
  /\ []<>~(Running /\ joining # "no" /\ Joinable)

-----------------------------------------------------------------------------
(* Properties.                                                             *)

Busy == {t \in LiveThreads : threads[t].pc \in {"enter", "read", "draw"}}

(* However the views, their threads and the tasks interleave, at most one  *)
(* thread reads or draws, and it does so for the view of the fragment and  *)
(* while that view has its surface, so that lockCanvas() is never null.  A   *)
(* thread runs on for a view the user has left only if its stream came      *)
(* after the user had left.                                                *)
OneReader ==
  /\ Cardinality(Busy) <= 1
  /\ \A t \in Busy : threads[t].view = mv /\ views[mv].surface
  /\ Running => \A t \in LiveThreads :
       threads[t].view # mv \/ life \in {"hidden", "destroyed"} => ViewOf(t).late

(* Playback ends the process, other than by what the scanner finds in the  *)
(* stream, only when two DoReads were on their way at once: the second     *)
(* starts the thread again, or takes the stream away from it.              *)
CrashNeedsCrowd == crash \in {"started twice", "no source"} => crowded

(* The tab is dark although nothing more is to come only if a DoRead has   *)
(* failed, was queued behind the poller of a device tab, or has brought    *)
(* its stream to a tab that was paused: onPause of a tab that does not     *)
(* stream yet does not remember that it is to go on.                       *)
DarkExplained ==
  Running /\ life = "resumed" /\ joining = "no" /\ pool + serial = 0
    /\ ~views[mv].mRun
  => views[mv].refused \/ views[mv].starved \/ views[mv].late

(* The frame buffer is freed while a thread may be decoding into it only   *)
(* if the stream came between onPause and onDestroy.                       *)
FreedUnused == [][rgb /\ ~rgb' => Busy = {} \/ views[mv].late]_vars

(* The main thread comes back from stopPlayback unless the camera stalls,  *)
(* for join() has no timeout.                                              *)
StopReturns == joining # "no" ~> joining = "no" \/ stalled \/ ~Running
=============================================================================
