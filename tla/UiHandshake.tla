---------------------------- MODULE UiHandshake -----------------------------
(***************************************************************************)
(* The wait/notify handshake by which the Phidget library's threads hand   *)
(* their events to the Android main thread (TabsFragmentActivity).         *)
(*                                                                         *)
(* Each callback creates a handler object, locks its monitor, posts it to  *)
(* the main looper with runOnUiThread and waits on it; the main thread     *)
(* runs the handler, then locks the same monitor to notify.  The three     *)
(* callbacks and the three handlers share this protocol, so one action     *)
(* models each of its steps; what the handlers do to the tabs is the       *)
(* business of module DeviceTabs.                                          *)
(*                                                                         *)
(* Monitors follow the Java memory model: wait() releases the monitor and  *)
(* suspends the thread in one step, notify() on a monitor nobody waits on  *)
(* is lost, and the wait() of a thread in SpuriousThreads may end without   *)
(* a notification (java.lang.Object permits it).                           *)
(***************************************************************************)
EXTENDS Naturals, Sequences

CONSTANTS
  Threads,          \* library threads that deliver events
  Handlers,         \* handler objects; bounds the events in flight
  NoThread,         \* owner of a free monitor
  NoHandler,        \* the handler of a thread outside a callback
  SpuriousThreads   \* those whose wait() may return without a notify()

ASSUME HandshakeAssumption ==
  /\ NoThread \notin Threads
  /\ NoHandler \notin Handlers
  /\ SpuriousThreads \subseteq Threads

VARIABLES
  pc,        \* the step each library thread is at
  handler,   \* the handler object of the callback it is in
  monitor,   \* the owner of each handler's monitor
  notified,  \* the waiting threads notify() has chosen
  queue,     \* the main looper's queue of posted handlers
  running,   \* the handler the main thread is running
  ran        \* handlers whose run() has done its work

handshakeVars == <<pc, handler, monitor, notified, queue, running, ran>>

Steps == {"out", "locked", "posted", "waiting"}

HandshakeTypeOK ==
  /\ pc \in [Threads -> Steps]
  /\ handler \in [Threads -> Handlers \cup {NoHandler}]
  /\ monitor \in [Handlers -> Threads \cup {NoThread}]
  /\ notified \subseteq Threads
  /\ queue \in Seq(Handlers)
  /\ running \in Handlers \cup {NoHandler}
  /\ ran \subseteq Handlers

Queued == {queue[i] : i \in 1..Len(queue)}

(* Handler objects something still refers to: they are not free for reuse. *)
Reachable == {handler[t] : t \in Threads} \cup Queued \cup {running}

HandshakeInit ==
  /\ pc = [t \in Threads |-> "out"]
  /\ handler = [t \in Threads |-> NoHandler]
  /\ monitor = [h \in Handlers |-> NoThread]
  /\ notified = {}
  /\ queue = <<>>
  /\ running = NoHandler
  /\ ran = {}

-----------------------------------------------------------------------------
(* The library threads.                                                    *)

(* Mutant: the callback posts and waits without locking the handler first. *)
EnterUnlocked(t) ==
  /\ pc[t] = "out"
  /\ \E h \in Handlers \ Reachable :
       handler' = [handler EXCEPT ![t] = h] /\ ran' = ran \ {h}
  /\ pc' = [pc EXCEPT ![t] = "locked"]
  /\ UNCHANGED <<monitor, notified, queue, running>>

(* handler = new ...EventHandler(...); synchronized(handler) {             *)
Enter(t) ==
  /\ pc[t] = "out"
  /\ \E h \in Handlers \ Reachable :
       /\ handler' = [handler EXCEPT ![t] = h]
       /\ monitor' = [monitor EXCEPT ![h] = t]
       /\ ran' = ran \ {h}
  /\ pc' = [pc EXCEPT ![t] = "locked"]
  /\ UNCHANGED <<notified, queue, running>>

(* runOnUiThread(handler), called off the main thread: post it.            *)
Post(t) ==
  /\ pc[t] = "locked"
  /\ queue' = Append(queue, handler[t])
  /\ pc' = [pc EXCEPT ![t] = "posted"]
  /\ UNCHANGED <<handler, monitor, notified, running, ran>>

(* handler.wait(): release the monitor and join the wait set.              *)
Wait(t) ==
  /\ pc[t] = "posted"
  /\ monitor' = [monitor EXCEPT ![handler[t]] = NoThread]
  /\ pc' = [pc EXCEPT ![t] = "waiting"]
  /\ UNCHANGED <<handler, notified, queue, running, ran>>

(* wait() returns, which takes the monitor again, and the callback leaves  *)
(* the synchronized block and returns to the library.                      *)
Leave(t) ==
  /\ pc[t] = "waiting"
  /\ monitor[handler[t]] = NoThread
  /\ handler' = [handler EXCEPT ![t] = NoHandler]
  /\ notified' = notified \ {t}
  /\ pc' = [pc EXCEPT ![t] = "out"]
  /\ UNCHANGED <<monitor, queue, running, ran>>

Wake(t)         == t \in notified /\ Leave(t)
WakeSpurious(t) == t \in SpuriousThreads /\ t \notin notified /\ Leave(t)

-----------------------------------------------------------------------------
(* The main thread.                                                        *)

(* Mutant: the handler notifies before it has done its work.               *)
RunWithoutWork ==
  /\ running = NoHandler
  /\ queue # <<>>
  /\ running' = Head(queue)
  /\ queue' = Tail(queue)
  /\ UNCHANGED <<pc, handler, monitor, notified, ran>>

(* The looper takes the oldest handler and runs its body: the toast and    *)
(* the change to the tabs.  A PhidgetException is caught and the handler   *)
(* goes on to notify all the same.                                         *)
Run ==
  /\ running = NoHandler
  /\ queue # <<>>
  /\ running' = Head(queue)
  /\ queue' = Tail(queue)
  /\ ran' = ran \cup {Head(queue)}
  /\ UNCHANGED <<pc, handler, monitor, notified>>

(* Mutant: the handler returns early, without its notify().                *)
NotifyNobody ==
  /\ running # NoHandler
  /\ running' = NoHandler
  /\ UNCHANGED <<pc, handler, monitor, notified, queue, ran>>

(* synchronized(this) { this.notify(); }  At most one thread waits on a     *)
(* handler: the callback that created it.                                  *)
Notify ==
  /\ running # NoHandler
  /\ monitor[running] = NoThread
  /\ LET waiters == {t \in Threads : pc[t] = "waiting" /\ handler[t] = running}
     IN  notified' = notified \cup waiters
  /\ running' = NoHandler
  /\ UNCHANGED <<pc, handler, monitor, queue, ran>>

-----------------------------------------------------------------------------
Library(t) == Enter(t) \/ Post(t) \/ Wait(t) \/ Wake(t) \/ WakeSpurious(t)

HandshakeNext == (\E t \in Threads : Library(t)) \/ Run \/ Notify

(* The looper keeps dispatching and a library thread inside a callback is  *)
(* scheduled; whether a library thread raises another event is its affair. *)
Fairness ==
  /\ WF_handshakeVars(Run) /\ WF_handshakeVars(Notify)
  /\ \A t \in Threads :
       WF_handshakeVars(Post(t)) /\ WF_handshakeVars(Wait(t)) /\ WF_handshakeVars(Wake(t))

HandshakeSpec == HandshakeInit /\ [][HandshakeNext]_handshakeVars /\ Fairness

-----------------------------------------------------------------------------
(* Properties.                                                             *)

(* No wakeup is lost: whenever a callback is waiting without having been   *)
(* notified, its handler is still to be run or is being run, so a notify() *)
(* that reaches it lies ahead.  It would fail if the callback posted its   *)
(* handler before it locked the monitor.                                   *)
NoLostWakeup ==
  \A t \in Threads :
    pc[t] = "waiting" /\ t \notin notified
      => handler[t] \in Queued \cup {running}

(* Why no wakeup is lost: the inductive invariant.  A callback that has     *)
(* posted its handler keeps the monitor until it waits, and the owner of a *)
(* locked monitor is always on its way to release it, so notify() cannot   *)
(* run in between and main thread and library never block each other.      *)
HandlerPerCallback ==
  /\ \A t \in Threads : pc[t] = "out" <=> handler[t] = NoHandler
  /\ \A s, t \in Threads :
       handler[s] = handler[t] /\ handler[s] # NoHandler => s = t

OwnerReleases ==
  /\ \A t \in Threads :
       pc[t] \in {"locked", "posted"} => monitor[handler[t]] = t
  /\ \A h \in Handlers, t \in Threads :
       monitor[h] = t => handler[t] = h /\ pc[t] \in {"locked", "posted"}

NotifierAhead ==
  \A t \in Threads :
    pc[t] \in {"posted", "waiting"} /\ t \notin notified
      => handler[t] \in Queued \cup {running}

NotifiedAfterRun ==
  /\ \A t \in notified : pc[t] = "waiting" /\ handler[t] \in ran
  /\ running # NoHandler => running \in ran

HandshakeInv ==
  HandlerPerCallback /\ OwnerReleases /\ NotifierAhead /\ NotifiedAfterRun

(* The threads whose callbacks are synchronous calls.                       *)
SafeThreads == Threads \ SpuriousThreads

(* "Notify that we're done": a callback returns to the library only after  *)
(* the main thread has done the work of its handler, also when the wait()   *)
(* of other threads ends early and leaves their handlers in the queue.      *)
ReturnsOnlyWhenDone ==
  [][\A t \in SafeThreads : pc[t] = "waiting" /\ pc'[t] = "out"
        => handler[t] \in ran]_handshakeVars

(* Every callback that starts returns to the library.                      *)
CallbackReturns == \A t \in Threads : pc[t] = "locked" ~> pc[t] = "out"

(* The handshake implements the synchronous call of SyncCallback.          *)
phase == [t \in SafeThreads |->
            IF pc[t] = "out" THEN "out"
            ELSE IF handler[t] \in ran THEN "handled" ELSE "raised"]

Abstract == INSTANCE SyncCallback WITH Threads <- SafeThreads

AbstractSpec == Abstract!Spec
=============================================================================
