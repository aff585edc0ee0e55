------------------------- MODULE TabsActivityProofs -------------------------
(***************************************************************************)
(* The two parts of TabsFragmentActivity.                                    *)
(*                                                                          *)
(* First the handshake of UiHandshake, by which events reach the main thread, *)
(* for any number of library threads and handler objects: HandshakeInv is       *)
(* inductive together with the types, and the safety properties follow.        *)
(*                                                                          *)
(* Then what the handlers keep in step, for any number of activities and      *)
(* devices: the tabs with the static list of specs that the activities share, *)
(* and the fragments with the tabs.  That is what becomes of an activity's     *)
(* own specs when specs are added to a list or removed from it, what the calls  *)
(* on the tab host do to the record T of one activity, and the steps.          *)
(***************************************************************************)
EXTENDS DeviceTabs, UiHandshake, FoldLemmas, SequenceTheorems, TLAPS

-----------------------------------------------------------------------------
(* The handshake.                                                           *)

HandshakeHolds == HandshakeTypeOK /\ HandshakeInv

(* Posting adds the posted handler to the handlers the looper has queued.  *)
LEMMA QueuedByPost ==
  ASSUME HandshakeTypeOK, NEW h \in Handlers, queue' = Append(queue, h)
  PROVE  Queued' = Queued \cup {h}
<1>1. /\ Len(queue') = Len(queue) + 1
      /\ \A i \in 1..Len(queue) : queue'[i] = queue[i]
      /\ queue'[Len(queue) + 1] = h
  BY DEF HandshakeTypeOK
<1>2. Len(queue) \in Nat
  BY DEF HandshakeTypeOK
<1> QED BY <1>1, <1>2 DEF Queued

(* Taking the oldest handler leaves the others queued.                     *)
LEMMA QueuedByRun ==
  ASSUME HandshakeTypeOK, queue # <<>>, queue' = Tail(queue)
  PROVE  /\ Head(queue) \in Handlers
         /\ Queued = Queued' \cup {Head(queue)}
<1>1. /\ Len(queue) \in Nat /\ Len(queue) > 0
      /\ Head(queue) = queue[1] /\ Head(queue) \in Handlers
      /\ Len(queue') = Len(queue) - 1
      /\ \A i \in 1..Len(queue') : queue'[i] = queue[i + 1]
  BY DEF HandshakeTypeOK
<1>2. ASSUME NEW i \in 1..Len(queue), i # 1
      PROVE  i - 1 \in 1..Len(queue') /\ queue'[i - 1] = queue[i]
  BY <1>1, <1>2
<1>3. \A i \in 1..Len(queue') : i + 1 \in 1..Len(queue)
  BY <1>1
<1>4. Queued \subseteq Queued' \cup {Head(queue)}
  BY <1>1, <1>2 DEF Queued
<1>5. Queued' \subseteq Queued
  BY <1>1, <1>3 DEF Queued
<1>6. Head(queue) \in Queued
  BY <1>1 DEF Queued
<1> QED BY <1>1, <1>4, <1>5, <1>6

-----------------------------------------------------------------------------
(* The invariant, step by step.                                            *)

(* It holds initially.                                                     *)
LEMMA HandshakeStarts == HandshakeInit => HandshakeHolds
  BY HandshakeAssumption
  DEF HandshakeInit, HandshakeHolds, HandshakeTypeOK, Steps, HandshakeInv, HandlerPerCallback,
      OwnerReleases, NotifierAhead, NotifiedAfterRun

(* Every step of a library thread or of the main thread preserves it.      *)
LEMMA HandshakeSteps == HandshakeHolds /\ [HandshakeNext]_handshakeVars => HandshakeHolds'
<1> SUFFICES ASSUME HandshakeHolds, [HandshakeNext]_handshakeVars
             PROVE  HandshakeHolds'
  OBVIOUS
<1> USE HandshakeAssumption
<1>t. HandshakeTypeOK /\ HandlerPerCallback /\ OwnerReleases /\ NotifierAhead
              /\ NotifiedAfterRun
  BY DEF HandshakeHolds, HandshakeInv
<1>1. ASSUME NEW t \in Threads, Enter(t)
      PROVE  HandshakeHolds'
  <2>1. PICK h \in Handlers \ Reachable :
               /\ handler' = [handler EXCEPT ![t] = h]
               /\ monitor' = [monitor EXCEPT ![h] = t]
               /\ ran' = ran \ {h}
    BY <1>1 DEF Enter
  <2>2. /\ h \notin Queued /\ h # running
        /\ \A s \in Threads : handler[s] # h
    BY <2>1 DEF Reachable
  <2>3. HandshakeTypeOK'
    BY <1>t, <1>1, <2>1 DEF HandshakeTypeOK, Steps, Enter
  <2>4. HandlerPerCallback'
    BY <1>t, <1>1, <2>1, <2>2 DEF HandshakeTypeOK, HandlerPerCallback, Enter, Steps
  <2>5. OwnerReleases'
    BY <1>t, <1>1, <2>1, <2>2 DEF HandshakeTypeOK, OwnerReleases, HandlerPerCallback, Enter
  <2>6. NotifierAhead'
    BY <1>t, <1>1, <2>1 DEF HandshakeTypeOK, NotifierAhead, Queued, Enter
  <2>7. NotifiedAfterRun'
    BY <1>t, <1>1, <2>1, <2>2 DEF HandshakeTypeOK, NotifiedAfterRun, Enter
  <2> QED BY <2>3, <2>4, <2>5, <2>6, <2>7 DEF HandshakeHolds, HandshakeInv
<1>2. ASSUME NEW t \in Threads, Post(t)
      PROVE  HandshakeHolds'
  <2>1. handler[t] \in Handlers
    BY <1>t, <1>2 DEF HandshakeTypeOK, HandlerPerCallback, Post
  <2>2. Queued' = Queued \cup {handler[t]}
    BY <1>t, <1>2, <2>1, QueuedByPost DEF Post
  <2>3. HandshakeTypeOK'
    BY <1>t, <1>2, <2>1 DEF HandshakeTypeOK, Steps, Post
  <2>4. HandlerPerCallback' /\ OwnerReleases'
    BY <1>t, <1>2 DEF HandshakeTypeOK, HandlerPerCallback, OwnerReleases, Post
  <2>5. NotifierAhead'
    BY <1>t, <1>2, <2>2 DEF HandshakeTypeOK, NotifierAhead, Post
  <2>6. NotifiedAfterRun'
    BY <1>t, <1>2 DEF HandshakeTypeOK, NotifiedAfterRun, Post
  <2> QED BY <2>3, <2>4, <2>5, <2>6 DEF HandshakeHolds, HandshakeInv
<1>3. ASSUME NEW t \in Threads, Wait(t)
      PROVE  HandshakeHolds'
  <2>1. handler[t] \in Handlers
    BY <1>t, <1>3 DEF HandshakeTypeOK, HandlerPerCallback, Wait
  <2>2. \A s \in Threads : s # t => handler[s] # handler[t]
    BY <1>t, <2>1 DEF HandlerPerCallback
  <2>3. HandshakeTypeOK'
    BY <1>t, <1>3, <2>1 DEF HandshakeTypeOK, Steps, Wait
  <2>4. HandlerPerCallback'
    BY <1>t, <1>3 DEF HandshakeTypeOK, HandlerPerCallback, Wait
  <2>5. OwnerReleases'
    BY <1>t, <1>3, <2>1, <2>2 DEF HandshakeTypeOK, OwnerReleases, Wait
  <2>6. NotifierAhead'
    BY <1>t, <1>3 DEF HandshakeTypeOK, NotifierAhead, Queued, Wait
  <2>7. NotifiedAfterRun'
    BY <1>t, <1>3 DEF HandshakeTypeOK, NotifiedAfterRun, Wait
  <2> QED BY <2>3, <2>4, <2>5, <2>6, <2>7 DEF HandshakeHolds, HandshakeInv
<1>4. ASSUME NEW t \in Threads, Leave(t)
      PROVE  HandshakeHolds'
  <2>1. HandshakeTypeOK'
    BY <1>t, <1>4 DEF HandshakeTypeOK, Steps, Leave
  <2>2. HandlerPerCallback'
    BY <1>t, <1>4 DEF HandshakeTypeOK, HandlerPerCallback, Leave
  <2>3. OwnerReleases'
    BY <1>t, <1>4 DEF HandshakeTypeOK, OwnerReleases, Leave
  <2>4. NotifierAhead'
    BY <1>t, <1>4 DEF HandshakeTypeOK, NotifierAhead, Queued, Leave
  <2>5. NotifiedAfterRun'
    BY <1>t, <1>4 DEF HandshakeTypeOK, NotifiedAfterRun, Leave
  <2> QED BY <2>1, <2>2, <2>3, <2>4, <2>5 DEF HandshakeHolds, HandshakeInv
<1>5. ASSUME Run
      PROVE  HandshakeHolds'
  <2>1. /\ Head(queue) \in Handlers
        /\ Queued = Queued' \cup {Head(queue)}
    BY <1>t, <1>5, QueuedByRun DEF Run
  <2>2. HandshakeTypeOK'
    BY <1>t, <1>5, <2>1 DEF HandshakeTypeOK, Run
  <2>3. HandlerPerCallback' /\ OwnerReleases'
    BY <1>t, <1>5 DEF HandlerPerCallback, OwnerReleases, Run
  <2>4. NotifierAhead'
    BY <1>t, <1>5, <2>1 DEF HandshakeTypeOK, HandlerPerCallback, NotifierAhead, Run
  <2>5. NotifiedAfterRun'
    BY <1>t, <1>5 DEF NotifiedAfterRun, Run
  <2> QED BY <2>2, <2>3, <2>4, <2>5 DEF HandshakeHolds, HandshakeInv
<1>6. ASSUME Notify
      PROVE  HandshakeHolds'
  <2>1. \A t \in Threads :
          pc[t] \in {"posted", "waiting"} /\ handler[t] = running
            => t \in notified'
    BY <1>t, <1>6 DEF HandshakeTypeOK, OwnerReleases, Notify
  <2>2. HandshakeTypeOK'
    BY <1>t, <1>6 DEF HandshakeTypeOK, Notify
  <2>3. HandlerPerCallback' /\ OwnerReleases'
    BY <1>t, <1>6 DEF HandlerPerCallback, OwnerReleases, Notify
  <2>4. NotifierAhead'
    BY <1>t, <1>6, <2>1 DEF NotifierAhead, Queued, Notify
  <2>5. NotifiedAfterRun'
    BY <1>t, <1>6 DEF NotifiedAfterRun, Notify
  <2> QED BY <2>2, <2>3, <2>4, <2>5 DEF HandshakeHolds, HandshakeInv
<1>7. CASE UNCHANGED handshakeVars
  BY <1>t, <1>7
  DEF handshakeVars, HandshakeHolds, HandshakeInv, HandshakeTypeOK, HandlerPerCallback, OwnerReleases,
      NotifierAhead, NotifiedAfterRun, Queued
<1> QED
  BY <1>1, <1>2, <1>3, <1>4, <1>5, <1>6, <1>7
  DEF HandshakeNext, Library, Wake, WakeSpurious

(* HandshakeInv and the types hold in every reachable state.               *)
THEOREM HandshakeInvariance == HandshakeSpec => []HandshakeHolds
  BY HandshakeStarts, HandshakeSteps, PTL DEF HandshakeSpec

-----------------------------------------------------------------------------
(* Consequences.                                                           *)

(* Every variable keeps its type.                                          *)
THEOREM HandshakeTypes == HandshakeSpec => []HandshakeTypeOK
<1>1. HandshakeHolds => HandshakeTypeOK
  BY DEF HandshakeHolds
<1> QED BY <1>1, HandshakeInvariance, PTL

(* The monitor discipline of the listeners and handlers holds at all times *)
(* (HandshakeInv of the runs).                                             *)
THEOREM Discipline == HandshakeSpec => []HandshakeInv
<1>1. HandshakeHolds => HandshakeInv
  BY DEF HandshakeHolds
<1> QED BY <1>1, HandshakeInvariance, PTL

(* No library thread waits for a notify() that has already been spent.     *)
THEOREM WakeupsKept == HandshakeSpec => []NoLostWakeup
<1>1. HandshakeHolds => NoLostWakeup
  BY DEF HandshakeHolds, HandshakeInv, NotifierAhead, NoLostWakeup
<1> QED BY <1>1, HandshakeInvariance, PTL

(* A callback whose wait() does not return without a notify() returns to    *)
(* the library only after the main thread has done its work.                *)
THEOREM Synchronous == HandshakeSpec => ReturnsOnlyWhenDone
<1>1. HandshakeHolds /\ [HandshakeNext]_handshakeVars =>
        [\A t \in SafeThreads : pc[t] = "waiting" /\ pc'[t] = "out"
           => handler[t] \in ran]_handshakeVars
  <2> SUFFICES ASSUME HandshakeHolds, HandshakeNext, NEW t \in SafeThreads,
                      pc[t] = "waiting", pc'[t] = "out"
               PROVE  handler[t] \in ran
    OBVIOUS
  <2>1. pc \in [Threads -> Steps] /\ NotifiedAfterRun /\ t \in Threads
    BY DEF HandshakeHolds, HandshakeInv, HandshakeTypeOK, SafeThreads
  <2>2. ASSUME NEW s \in Threads, Wake(s)
        PROVE  handler[t] \in ran
    BY <2>1, <2>2 DEF Wake, Leave, NotifiedAfterRun
  <2>3. ~\E s \in Threads : WakeSpurious(s)
    BY <2>1 DEF WakeSpurious, Leave, SafeThreads
  <2>4. ~\E s \in Threads : Enter(s) \/ Post(s) \/ Wait(s)
    BY <2>1 DEF Enter, Post, Wait
  <2>5. ~Run /\ ~Notify
    BY DEF Run, Notify
  <2> QED BY <2>2, <2>3, <2>4, <2>5 DEF HandshakeNext, Library
<1> QED BY <1>1, HandshakeInvariance, PTL DEF HandshakeSpec, ReturnsOnlyWhenDone

-----------------------------------------------------------------------------
(* Refinement: the handshake implements the synchronous call.              *)

(* Changing the phase of one thread is a move of the abstract callback.    *)
LEMMA PhaseMoves ==
  ASSUME NEW t \in SafeThreads, NEW from, NEW to,
         phase[t] = from, phase'[t] = to,
         \A s \in SafeThreads \ {t} : phase'[s] = phase[s]
  PROVE  Abstract!Move(t, from, to)
<1>1. phase' = [phase EXCEPT ![t] = to]
  BY DEF phase
<1> QED BY <1>1 DEF Abstract!Move

(* Changing the phase of none is a stutter.                                *)
LEMMA PhaseStays ==
  ASSUME \A s \in SafeThreads : phase'[s] = phase[s]
  PROVE  phase' = phase
  BY DEF phase

(* Every step of the handshake is a step of the callback or a stutter.     *)
LEMMA RefinementStep ==
  ASSUME HandshakeHolds, [HandshakeNext]_handshakeVars
  PROVE  [Abstract!Next]_phase
<1> USE DEF HandshakeHolds, HandshakeInv, HandshakeTypeOK, SafeThreads
<1>1. ASSUME NEW t \in Threads, Enter(t)
      PROVE  Abstract!Next \/ phase' = phase
  <2>1. PICK h \in Handlers \ Reachable :
               /\ handler' = [handler EXCEPT ![t] = h]
               /\ ran' = ran \ {h}
    BY <1>1 DEF Enter
  <2>2. \A s \in SafeThreads \ {t} : phase'[s] = phase[s]
    BY <1>1, <2>1 DEF Enter, Reachable, phase
  <2>3. CASE t \in SafeThreads
    <3>1. phase[t] = "out" /\ phase'[t] = "raised"
      BY <1>1, <2>1, <2>3 DEF Enter, phase
    <3>2. Abstract!Raise(t)
      BY <2>2, <2>3, <3>1, PhaseMoves DEF Abstract!Raise
    <3> QED BY <2>3, <3>2 DEF Abstract!Next
  <2>4. CASE t \notin SafeThreads
    BY <2>2, <2>4, PhaseStays
  <2> QED BY <2>3, <2>4
<1>2. ASSUME NEW t \in Threads, Post(t) \/ Wait(t)
      PROVE  phase' = phase
  BY <1>2, PhaseStays DEF Post, Wait, phase
<1>3. ASSUME NEW t \in Threads, Wake(t) \/ WakeSpurious(t)
      PROVE  Abstract!Next \/ phase' = phase
  <2>1. \A s \in SafeThreads \ {t} : phase'[s] = phase[s]
    BY <1>3 DEF Wake, WakeSpurious, Leave, phase
  <2>2. CASE t \in SafeThreads
    <3>1. phase[t] = "handled" /\ phase'[t] = "out"
      BY <1>3, <2>2 DEF Wake, WakeSpurious, Leave, NotifiedAfterRun, phase
    <3>2. Abstract!Return(t)
      BY <2>1, <2>2, <3>1, PhaseMoves DEF Abstract!Return
    <3> QED BY <2>2, <3>2 DEF Abstract!Next
  <2>3. CASE t \notin SafeThreads
    BY <2>1, <2>3, PhaseStays
  <2> QED BY <2>2, <2>3
<1>4. ASSUME Run
      PROVE  Abstract!Next \/ phase' = phase
  <2>1. CASE \E t \in SafeThreads : handler[t] = Head(queue) /\ phase[t] = "raised"
    <3>1. PICK t \in SafeThreads : handler[t] = Head(queue) /\ phase[t] = "raised"
      BY <2>1
    <3>2. pc[t] # "out" /\ handler[t] # NoHandler
      BY <3>1 DEF phase, HandlerPerCallback
    <3>3. phase'[t] = "handled"
      BY <1>4, <3>1, <3>2 DEF Run, phase
    <3>4. \A s \in SafeThreads \ {t} : phase'[s] = phase[s]
      BY <1>4, <3>1, <3>2 DEF Run, phase, HandlerPerCallback
    <3>5. Abstract!Handle(t)
      BY <3>1, <3>3, <3>4, PhaseMoves DEF Abstract!Handle
    <3> QED BY <3>1, <3>5 DEF Abstract!Next
  <2>2. CASE ~\E t \in SafeThreads : handler[t] = Head(queue) /\ phase[t] = "raised"
    <3>1. \A s \in SafeThreads : phase'[s] = phase[s]
      BY <1>4, <2>2 DEF Run, phase
    <3> QED BY <3>1, PhaseStays
  <2> QED BY <2>1, <2>2
<1>5. ASSUME Notify
      PROVE  phase' = phase
  BY <1>5 DEF Notify, phase
<1>6. CASE UNCHANGED handshakeVars
  BY <1>6 DEF handshakeVars, phase
<1> QED
  BY <1>1, <1>2, <1>3, <1>4, <1>5, <1>6 DEF HandshakeNext, Library

(* Every behaviour of the handshake is a behaviour of the synchronous call *)
(* (its safety part; that callbacks return is checked by TLC).             *)
THEOREM ImplementsSyncCallback ==
  HandshakeSpec => Abstract!Init /\ [][Abstract!Next]_phase
<1>1. HandshakeInit => Abstract!Init
  BY DEF HandshakeInit, Abstract!Init, phase, SafeThreads
<1>2. HandshakeHolds /\ [HandshakeNext]_handshakeVars => [Abstract!Next]_phase
  BY RefinementStep
<1> QED BY <1>1, <1>2, HandshakeInvariance, PTL DEF HandshakeSpec

-----------------------------------------------------------------------------
(* An activity's own specs.                                                 *)

OwnStep(a, own, s) == IF s.act = a THEN Append(own, s) ELSE own
OwnSteps(a, q) == [k \in 1..Len(q) |-> [own \in Seq(Specs) |-> OwnStep(a, own, q[k])]]

\* Own goes along the list.
LEMMA OwnFolds ==
  ASSUME NEW a, NEW q \in Seq(Specs)
  PROVE  /\ Own(a, q) \in Seq(Specs)
         /\ \E h : LeftSteps(h, Len(q), <<>>, OwnSteps(a, q)) /\ Own(a, q) = h[Len(q)]
<1> DEFINE n == Len(q)
           V == Seq(Specs)
           step == OwnSteps(a, q)
           IsOwn(g) == g = [T \in SUBSET (1..n) |->
                         IF T = {} THEN <<>> ELSE OwnStep(a, g[T \ {Max(T)}], q[Max(T)])]
           f == CHOOSE g : IsOwn(g)
<1>1. n \in Nat /\ <<>> \in V /\ DOMAIN q = 1..n /\ \A k \in 1..n : q[k] \in Specs
  OBVIOUS
<1>2. Own(a, q) = f[1..n]
  <2> HIDE DEF n
  <2> QED
    BY <1>1, Zenon DEF Own, FoldLeft, MapThenFoldSet, OwnStep
<1>3. ASSUME NEW own \in V, NEW s \in Specs PROVE OwnStep(a, own, s) \in V
  BY DEF OwnStep
<1>4. step \in [1..n -> [V -> V]]
  BY <1>1, <1>3 DEF OwnSteps
<1>5. \A k \in 1..n, own \in V : step[k][own] = OwnStep(a, own, q[k])
  BY DEF OwnSteps
<1> HIDE DEF n, V, step
<1>6. \A T \in SUBSET (1..n) : T # {} => Max(T) \in 1..n
  BY <1>1, MaxUpTo
<1>7. PICK g \in [SUBSET (1..n) -> V] : LeftFolded(g, n, <<>>, step)
  <2>1. n \in Nat /\ <<>> \in V
    BY <1>1
  <2> QED
    BY <1>4, <2>1, LeftFoldExists, Zenon
<1>8. IsOwn(g)
  <2>1. ASSUME NEW T \in SUBSET (1..n), T # {}
        PROVE  step[Max(T)][g[T \ {Max(T)}]] = OwnStep(a, g[T \ {Max(T)}], q[Max(T)])
    <3>1. g[T \ {Max(T)}] \in V /\ Max(T) \in 1..n
      BY <1>6, <1>7, <2>1
    <3> QED
      BY <1>5, <3>1
  <2>2. \A T \in SUBSET (1..n) :
          g[T] = IF T = {} THEN <<>> ELSE OwnStep(a, g[T \ {Max(T)}], q[Max(T)])
    BY <1>7, <2>1 DEF LeftFolded
  <2>3. g = [T \in SUBSET (1..n) |-> g[T]]
    BY <1>7
  <2> QED
    BY <2>2, <2>3
<1>9. IsOwn(f)
  <2> HIDE DEF IsOwn
  <2> QED
    BY <1>8, Zenon
<1>10. LeftFold(f, n, V, <<>>, step)
  <2>1. f[{}] = <<>>
    BY <1>9
  <2>2. ASSUME NEW T \in SUBSET (1..n), T # {}, f[T \ {Max(T)}] \in V
        PROVE  f[T] = step[Max(T)][f[T \ {Max(T)}]]
    <3>1. f[T] = OwnStep(a, f[T \ {Max(T)}], q[Max(T)])
      BY <1>9, <2>2
    <3> QED
      BY <1>5, <1>6, <2>2, <3>1
  <2> HIDE DEF f
  <2> QED
    BY <2>1, <2>2 DEF LeftFold
<1> HIDE DEF f
<1>11. PICK h \in [0..n -> V] : LeftSteps(h, n, <<>>, step) /\ f[1..n] = h[n]
  BY <1>1, <1>4, <1>10, LeftFoldSteps
<1>12. h[n] \in V
  BY <1>1, <1>11
<1> QED
  BY <1>2, <1>11, <1>12 DEF n, V, step

LEMMA OwnEmpty == \A a : Own(a, <<>>) = <<>>
<1> SUFFICES ASSUME NEW a PROVE Own(a, <<>>) = <<>>
  OBVIOUS
<1>1. <<>> \in Seq(Specs) /\ Len(<<>>) = 0
  OBVIOUS
<1>2. PICK h : LeftSteps(h, 0, <<>>, OwnSteps(a, <<>>)) /\ Own(a, <<>>) = h[0]
  BY <1>1, OwnFolds
<1> QED
  BY <1>2 DEF LeftSteps

LEMMA OwnAppended ==
  ASSUME NEW a, NEW q \in Seq(Specs), NEW x \in Specs
  PROVE  Own(a, Append(q, x)) = IF x.act = a THEN Append(Own(a, q), x) ELSE Own(a, q)
<1> DEFINE n == Len(q)
           qx == Append(q, x)
           step == OwnSteps(a, q)
           more == OwnSteps(a, qx)
<1>1. /\ n \in Nat /\ Len(qx) = n + 1 /\ qx \in Seq(Specs) /\ qx[n + 1] = x
      /\ \A k \in 1..n : qx[k] = q[k]
  OBVIOUS
<1> HIDE DEF n, qx
<1>2. PICK h : LeftSteps(h, n, <<>>, step) /\ Own(a, q) = h[n]
  BY OwnFolds DEF n
<1>3. PICK j : LeftSteps(j, n + 1, <<>>, more) /\ Own(a, qx) = j[n + 1]
  BY <1>1, OwnFolds
<1>4. \A k \in 1..n : more[k] = step[k]
  BY <1>1 DEF OwnSteps, n
<1>5. \A own \in Seq(Specs) : more[n + 1][own] = OwnStep(a, own, x)
  BY <1>1 DEF OwnSteps
<1> HIDE DEF step, more
<1>6. n + 1 \in n..(n + 1)
  BY <1>1
<1>7. j[n] = h[n]
  BY <1>1, <1>2, <1>3, <1>4, <1>6, LeftStepsUnique
<1>8. j[n + 1] = more[n + 1][j[n]]
  BY <1>1, <1>3 DEF LeftSteps
<1>9. j[n] = Own(a, q) /\ Own(a, q) \in Seq(Specs)
  BY <1>2, <1>7, OwnFolds
<1> QED
  BY <1>3, <1>5, <1>8, <1>9 DEF OwnStep, qx

LEMMA OwnAdded ==
  ASSUME NEW a, NEW q \in Seq(Specs), NEW x \in Specs, x.act = a
  PROVE  Own(a, Append(q, x)) = Append(Own(a, q), x)
  BY OwnAppended

\* ArrayList.remove: the first element that is e goes, the others stay in order.
First(q, e, p) == p \in 1..Len(q) /\ q[p] = e /\ \A i \in 1..(p - 1) : q[i] # e

LEMMA FirstExists ==
  ASSUME NEW S, NEW q \in Seq(S), NEW e, Contains(q, e)
  PROVE  \E p \in 1..Len(q) : First(q, e, p)
<1> DEFINE I == {i \in 1..Len(q) : q[i] = e}
<1>1. I # {} /\ I \in SUBSET (1..Len(q))
  BY DEF Contains
<1>2. IsFiniteSet(1..Len(q)) /\ 1..Len(q) \subseteq Int
  BY FS_Interval
<1>3. Min(I) \in I /\ \A i \in I : Min(I) <= i
  <2> HIDE DEF I
  <2> QED
    BY <1>1, <1>2, MinMember
<1> DEFINE p == Min(I)
<1> HIDE DEF p
<1>4. p \in 1..Len(q) /\ q[p] = e /\ \A i \in I : p <= i
  BY <1>3 DEF p
<1>5. \A i \in 1..(p - 1) : q[i] # e
  BY <1>4
<1> QED
  BY <1>4, <1>5 DEF First

LEMMA RemovedFirst ==
  ASSUME NEW S, NEW q \in Seq(S), NEW e, NEW p, First(q, e, p)
  PROVE  /\ RemoveFirst(q, e) = RemoveAt(q, p)
         /\ RemoveAt(q, p) \in Seq(S) /\ Len(RemoveAt(q, p)) = Len(q) - 1
         /\ \A i \in 1..(Len(q) - 1) : RemoveAt(q, p)[i] = IF i < p THEN q[i] ELSE q[i + 1]
<1> DEFINE I == {i \in 1..Len(q) : q[i] = e}
<1>1. p \in 1..Len(q) /\ q[p] = e /\ \A i \in 1..(p - 1) : q[i] # e
  BY DEF First
<1>2. RemoveFirst(q, e) = RemoveAt(q, Min(I))
  <2>1. p \in I
    BY <1>1
  <2> QED
    BY <1>1, <2>1, Zenon DEF RemoveFirst, SelectInSeq
<1>3. Min(I) = p
  <2>1. I # {} /\ I \in SUBSET (1..Len(q)) /\ p \in I
    BY <1>1
  <2>2. IsFiniteSet(1..Len(q)) /\ 1..Len(q) \subseteq Int
    BY FS_Interval
  <2>3. Min(I) \in I /\ \A i \in I : Min(I) <= i
    <3> HIDE DEF I
    <3> QED
      BY <2>1, <2>2, MinMember
  <2> DEFINE m == Min(I)
  <2> HIDE DEF m
  <2>4. m \in 1..Len(q) /\ q[m] = e /\ m <= p
    BY <2>1, <2>3 DEF m
  <2> QED
    BY <1>1, <2>4 DEF m
<1> DEFINE u == SubSeq(q, 1, p - 1)
           w == SubSeq(q, p + 1, Len(q))
<1>4. /\ u \in Seq(S) /\ Len(u) = p - 1 /\ \A i \in 1..(p - 1) : u[i] = q[i]
      /\ w \in Seq(S) /\ Len(w) = Len(q) - p /\ \A i \in 1..(Len(q) - p) : w[i] = q[p + i]
  BY <1>1
<1>5. RemoveAt(q, p) = u \o w
  BY DEF RemoveAt
<1> HIDE DEF u, w
<1>6. /\ u \o w \in Seq(S) /\ Len(u \o w) = Len(q) - 1
      /\ \A i \in 1..(Len(q) - 1) : (u \o w)[i] = IF i < p THEN u[i] ELSE w[i - (p - 1)]
  <2> DEFINE lu == Len(u)
             lw == Len(w)
  <2>1. /\ u \o w \in Seq(S) /\ Len(u \o w) = lu + lw
        /\ \A i \in 1..(lu + lw) : (u \o w)[i] = IF i <= lu THEN u[i] ELSE w[i - lu]
    BY <1>4, ConcatProperties
  <2>2. lu = p - 1 /\ lw = Len(q) - p /\ Len(q) \in Nat
    BY <1>4
  <2> DEFINE uw == u \o w
  <2> HIDE DEF lu, lw, uw
  <2>3. lu + lw = Len(q) - 1
    BY <1>1, <2>2
  <2>4. ASSUME NEW i \in 1..(Len(q) - 1)
        PROVE  uw[i] = IF i < p THEN u[i] ELSE w[i - (p - 1)]
    <3>1. uw[i] = IF i <= lu THEN u[i] ELSE w[i - lu]
      BY <2>1, <2>3 DEF uw
    <3>2. (i < p <=> i <= lu) /\ i - lu = i - (p - 1)
      BY <1>1, <2>2
    <3> QED
      BY <3>1, <3>2
  <2> QED
    BY <2>1, <2>3, <2>4 DEF uw
<1>7. \A i \in 1..(Len(q) - 1) : (u \o w)[i] = IF i < p THEN q[i] ELSE q[i + 1]
  <2> SUFFICES ASSUME NEW i \in 1..(Len(q) - 1)
               PROVE  (u \o w)[i] = IF i < p THEN q[i] ELSE q[i + 1]
    OBVIOUS
  <2>1. CASE i < p
    BY <1>1, <1>4, <1>6, <2>1
  <2>2. CASE ~(i < p)
    <3>1. i - (p - 1) \in 1..(Len(q) - p) /\ p + (i - (p - 1)) = i + 1
      BY <1>1, <2>2
    <3> QED
      BY <1>1, <1>4, <1>6, <2>2, <3>1
  <2> QED
    BY <2>1, <2>2
<1> QED
  BY <1>2, <1>3, <1>5, <1>6, <1>7

LEMMA RemoveFirstType ==
  ASSUME NEW S, NEW q \in Seq(S), NEW e
  PROVE  /\ RemoveFirst(q, e) \in Seq(S)
         /\ ~Contains(q, e) => RemoveFirst(q, e) = q
         /\ Contains(q, e) => Len(RemoveFirst(q, e)) = Len(q) - 1
<1>1. CASE Contains(q, e)
  <2>1. PICK p \in 1..Len(q) : First(q, e, p)
    BY <1>1, FirstExists
  <2> QED
    BY <1>1, <2>1, RemovedFirst
<1>2. CASE ~Contains(q, e)
  BY <1>2 DEF RemoveFirst, Contains
<1> QED
  BY <1>1, <1>2

\* The last element, seen from behind.
LEMMA RemovedAppended ==
  ASSUME NEW S, NEW q \in Seq(S), NEW x \in S, NEW e
  PROVE  RemoveFirst(Append(q, x), e) =
           IF Contains(q, e) THEN Append(RemoveFirst(q, e), x)
           ELSE IF x = e THEN q ELSE Append(q, x)
<1> DEFINE qx == Append(q, x)
           n == Len(q)
<1>1. /\ qx \in Seq(S) /\ Len(qx) = n + 1 /\ qx[n + 1] = x /\ n \in Nat
      /\ \A i \in 1..n : qx[i] = q[i]
  OBVIOUS
<1>2. CASE Contains(q, e)
  <2>1. PICK p \in 1..n : First(q, e, p)
    BY <1>2, FirstExists
  <2>2. First(qx, e, p)
    <3> HIDE DEF qx
    <3> QED
      BY <1>1, <2>1 DEF First
  <2> DEFINE r == RemoveAt(q, p)
             rx == RemoveAt(qx, p)
  <2>3. /\ RemoveFirst(q, e) = r /\ r \in Seq(S) /\ Len(r) = n - 1
        /\ \A i \in 1..(n - 1) : r[i] = IF i < p THEN q[i] ELSE q[i + 1]
    BY <2>1, RemovedFirst
  <2>4. /\ RemoveFirst(qx, e) = rx /\ rx \in Seq(S) /\ Len(rx) = n
        /\ \A i \in 1..n : rx[i] = IF i < p THEN qx[i] ELSE qx[i + 1]
    <3> HIDE DEF qx, r
    <3>1. Len(qx) - 1 = n
      BY <1>1
    <3>2. /\ RemoveFirst(qx, e) = RemoveAt(qx, p)
          /\ RemoveAt(qx, p) \in Seq(S) /\ Len(RemoveAt(qx, p)) = Len(qx) - 1
          /\ \A i \in 1..(Len(qx) - 1) : RemoveAt(qx, p)[i] = IF i < p THEN qx[i] ELSE qx[i + 1]
      BY <1>1, <2>2, RemovedFirst, SMTT(40)
    <3> HIDE DEF n
    <3> QED
      BY <3>1, <3>2
  <2> HIDE DEF r, rx, qx, n
  <2>5. Append(r, x) \in Seq(S) /\ Len(Append(r, x)) = n
    BY <1>1, <2>3
  <2>6. ASSUME NEW i \in 1..n PROVE rx[i] = Append(r, x)[i]
    <3>1. CASE i = n
      BY <1>1, <2>1, <2>3, <2>4, <3>1
    <3>2. CASE i # n
      <4>1. i \in 1..(n - 1) /\ i + 1 \in 1..n
        BY <1>1, <3>2
      <4> QED
        BY <1>1, <2>3, <2>4, <4>1
    <3> QED
      BY <3>1, <3>2
  <2>7. rx = Append(r, x)
    <3> DEFINE ar == Append(r, x)
    <3> HIDE DEF ar
    <3> QED
      BY <1>1, <2>4, <2>5, <2>6 DEF ar
  <2> QED
    BY <1>2, <2>3, <2>4, <2>7 DEF qx
<1>3. CASE ~Contains(q, e) /\ x = e
  <2>1. First(qx, e, n + 1)
    <3> HIDE DEF qx
    <3>1. \A i \in 1..n : q[i] # e
      BY <1>3 DEF Contains, n
    <3> QED
      BY <1>1, <1>3, <3>1 DEF First
  <2> DEFINE rx == RemoveAt(qx, n + 1)
  <2>2. /\ RemoveFirst(qx, e) = rx /\ rx \in Seq(S) /\ Len(rx) = n
        /\ \A i \in 1..n : rx[i] = qx[i]
    <3> HIDE DEF qx, n
    <3>1. n + 1 - 1 = n /\ \A i \in 1..n : i < n + 1
      BY <1>1
    <3> QED
      BY <1>1, <2>1, <3>1, RemovedFirst, SMTT(40)
  <2> HIDE DEF rx, qx
  <2>3. rx = q
    BY <1>1, <2>2
  <2> QED
    BY <1>3, <2>2, <2>3 DEF qx
<1>4. CASE ~Contains(q, e) /\ x # e
  <2>1. ~Contains(qx, e)
    <3> HIDE DEF qx
    <3> QED
      BY <1>1, <1>4 DEF Contains
  <2> QED
    BY <1>1, <1>4, <2>1, RemoveFirstType
<1> QED
  BY <1>2, <1>3, <1>4

LEMMA ContainsAppended ==
  ASSUME NEW S, NEW q \in Seq(S), NEW x \in S
  PROVE  \A e : Contains(Append(q, x), e) <=> Contains(q, e) \/ x = e
<1> DEFINE qx == Append(q, x)
<1>1. /\ Len(qx) = Len(q) + 1 /\ qx[Len(q) + 1] = x /\ Len(q) \in Nat
      /\ \A i \in 1..Len(q) : qx[i] = q[i]
  OBVIOUS
<1> HIDE DEF qx
<1>2. ASSUME NEW e, Contains(qx, e) PROVE Contains(q, e) \/ x = e
  <2>1. PICK i \in 1..Len(qx) : qx[i] = e
    BY <1>2 DEF Contains
  <2> QED
    BY <1>1, <2>1 DEF Contains
<1>3. ASSUME NEW e, Contains(q, e) \/ x = e PROVE Contains(qx, e)
  <2>1. CASE x = e
    BY <1>1, <2>1 DEF Contains
  <2>2. CASE Contains(q, e)
    <3>1. PICK i \in 1..Len(q) : q[i] = e
      BY <2>2 DEF Contains
    <3> QED
      BY <1>1, <3>1 DEF Contains
  <2> QED
    BY <1>3, <2>1, <2>2
<1> QED
  BY <1>2, <1>3 DEF qx

LEMMA OwnContains ==
  ASSUME NEW a, NEW q \in Seq(Specs)
  PROVE  /\ \A s : Contains(Own(a, q), s) => Contains(q, s) /\ s.act = a
         /\ \A s : Contains(q, s) /\ s.act = a => Contains(Own(a, q), s)
<1> DEFINE G == {z \in Seq(Specs) :
                   \A s : Contains(Own(a, z), s) <=> Contains(z, s) /\ s.act = a}
<1>1. <<>> \in G
  <2>1. \A s : ~Contains(<<>>, s)
    BY DEF Contains
  <2>2. <<>> \in Seq(Specs)
    OBVIOUS
  <2> QED
    BY <2>1, <2>2, OwnEmpty
<1>2. ASSUME NEW z \in Seq(Specs), NEW x \in Specs, z \in G PROVE Append(z, x) \in G
  <2>1. Own(a, Append(z, x)) = IF x.act = a THEN Append(Own(a, z), x) ELSE Own(a, z)
    BY OwnAppended
  <2>2. Own(a, z) \in Seq(Specs)
    BY OwnFolds
  <2>3. \A s : Contains(Own(a, z), s) <=> Contains(z, s) /\ s.act = a
    BY <1>2
  <2>4. \A s : Contains(Append(z, x), s) <=> Contains(z, s) \/ x = s
    BY ContainsAppended
  <2>5. \A s : Contains(Append(Own(a, z), x), s) <=> Contains(Own(a, z), s) \/ x = s
    BY <2>2, ContainsAppended
  <2>6. \A s : Contains(Own(a, Append(z, x)), s) <=> Contains(Append(z, x), s) /\ s.act = a
    BY <2>1, <2>3, <2>4, <2>5
  <2>7. Append(z, x) \in Seq(Specs)
    OBVIOUS
  <2> QED
    BY <2>6, <2>7
<1>3. q \in G
  <2>1. \A z \in Seq(Specs), x \in Specs : z \in G => Append(z, x) \in G
    BY <1>2
  <2> HIDE DEF G
  <2>2. \A z \in Seq(Specs) : z \in G
    BY <1>1, <2>1, SequenceSteps, Zenon
  <2> QED
    BY <2>2
<1> QED
  BY <1>3

\* A spec that leaves the list leaves its owner's, and no other's.
LEMMA OwnRemoved ==
  ASSUME NEW a, NEW q \in Seq(Specs), NEW s \in Specs
  PROVE  Own(a, RemoveFirst(q, s)) =
           IF s.act = a THEN RemoveFirst(Own(a, q), s) ELSE Own(a, q)
<1> DEFINE Goal(z) == Own(a, RemoveFirst(z, s)) =
                        IF s.act = a THEN RemoveFirst(Own(a, z), s) ELSE Own(a, z)
           G == {z \in Seq(Specs) : Goal(z)}
<1>1. <<>> \in G
  <2>1. ~Contains(<<>>, s) /\ <<>> \in Seq(Specs)
    BY DEF Contains
  <2>2. RemoveFirst(<<>>, s) = <<>>
    BY <2>1, RemoveFirstType
  <2> QED
    BY <2>1, <2>2, OwnEmpty
<1>2. ASSUME NEW z \in Seq(Specs), NEW x \in Specs, z \in G PROVE Append(z, x) \in G
  <2> DEFINE o == Own(a, z)
             r == RemoveFirst(z, s)
             zx == Append(z, x)
  <2>1. Own(a, zx) = IF x.act = a THEN Append(o, x) ELSE o
    BY OwnAppended
  <2>2. o \in Seq(Specs) /\ r \in Seq(Specs) /\ zx \in Seq(Specs)
    BY OwnFolds, RemoveFirstType
  <2>3. RemoveFirst(zx, s) = IF Contains(z, s) THEN Append(r, x) ELSE IF x = s THEN z ELSE zx
    BY RemovedAppended
  <2>4. RemoveFirst(Append(o, x), s) =
          IF Contains(o, s) THEN Append(RemoveFirst(o, s), x) ELSE IF x = s THEN o ELSE Append(o, x)
    BY <2>2, RemovedAppended
  <2>5. Own(a, Append(r, x)) = IF x.act = a THEN Append(Own(a, r), x) ELSE Own(a, r)
    BY <2>2, OwnAppended
  <2>6. Own(a, r) = IF s.act = a THEN RemoveFirst(o, s) ELSE o
    BY <1>2
  <2>7. s.act = a => (Contains(o, s) <=> Contains(z, s))
    BY OwnContains
  <2>8. ~Contains(o, s) => RemoveFirst(o, s) = o
    BY <2>2, RemoveFirstType
  <2> HIDE DEF o, r, zx
  <2>9. Own(a, RemoveFirst(zx, s)) =
          IF s.act = a THEN RemoveFirst(Own(a, zx), s) ELSE Own(a, zx)
    <3>1. CASE s.act = a /\ Contains(z, s)
      BY <2>1, <2>3, <2>4, <2>5, <2>6, <2>7, <3>1
    <3>2. CASE s.act = a /\ ~Contains(z, s)
      <4>1. CASE x = s
        BY <2>1, <2>3, <2>4, <2>7, <3>2, <4>1 DEF o
      <4>2. CASE x # s
        BY <2>1, <2>3, <2>4, <2>7, <2>8, <3>2, <4>2 DEF o
      <4> QED
        BY <4>1, <4>2
    <3>3. CASE s.act # a /\ Contains(z, s)
      BY <2>1, <2>3, <2>5, <2>6, <3>3
    <3>4. CASE s.act # a /\ ~Contains(z, s)
      <4>1. CASE x = s
        BY <2>1, <2>3, <3>4, <4>1 DEF o
      <4>2. CASE x # s
        BY <2>1, <2>3, <3>4, <4>2
      <4> QED
        BY <4>1, <4>2
    <3> QED
      BY <3>1, <3>2, <3>3, <3>4
  <2> QED
    BY <2>2, <2>9 DEF zx
<1>3. q \in G
  <2>1. \A z \in Seq(Specs), x \in Specs : z \in G => Append(z, x) \in G
    BY <1>2
  <2> HIDE DEF G
  <2>2. \A z \in Seq(Specs) : z \in G
    BY <1>1, <2>1, SequenceSteps, Zenon
  <2> QED
    BY <2>2
<1> QED
  BY <1>3

LEMMA DevicesType ==
  ASSUME NEW q \in Seq(Specs)
  PROVE  /\ DevicesOf(q) \in Seq(Owners) /\ Len(DevicesOf(q)) = Len(q)
         /\ \A i \in 1..Len(q) : DevicesOf(q)[i] = q[i].dev
<1>1. \A s \in Specs : s.dev \in Owners
  BY DEF Specs
<1>2. \A i \in 1..Len(q) : q[i].dev \in Owners
  BY <1>1
<1> QED
  BY <1>2 DEF DevicesOf

LEMMA DevicesAppended ==
  ASSUME NEW q \in Seq(Specs), NEW x \in Specs
  PROVE  DevicesOf(Append(q, x)) = Append(DevicesOf(q), x.dev)
<1> DEFINE l == DevicesOf(Append(q, x))
           r == Append(DevicesOf(q), x.dev)
<1>1. x.dev \in Owners
  BY DEF Specs
<1>2. /\ l \in Seq(Owners) /\ Len(l) = Len(q) + 1
      /\ \A i \in 1..(Len(q) + 1) : l[i] = Append(q, x)[i].dev
  <2>1. Append(q, x) \in Seq(Specs) /\ Len(Append(q, x)) = Len(q) + 1
    OBVIOUS
  <2> DEFINE qx == Append(q, x)
  <2> HIDE DEF qx
  <2>2. /\ DevicesOf(qx) \in Seq(Owners) /\ Len(DevicesOf(qx)) = Len(qx)
        /\ \A i \in 1..Len(qx) : DevicesOf(qx)[i] = qx[i].dev
    BY <2>1, DevicesType DEF qx
  <2> QED
    BY <2>1, <2>2 DEF qx
<1>3. /\ r \in Seq(Owners) /\ Len(r) = Len(q) + 1
      /\ \A i \in 1..Len(q) : r[i] = q[i].dev
      /\ r[Len(q) + 1] = x.dev
  BY <1>1, DevicesType
<1>4. \A i \in 1..(Len(q) + 1) : l[i] = r[i]
  <2> SUFFICES ASSUME NEW i \in 1..(Len(q) + 1) PROVE l[i] = r[i]
    OBVIOUS
  <2> HIDE DEF l, r
  <2>1. Append(q, x)[i] = IF i = Len(q) + 1 THEN x ELSE q[i]
    OBVIOUS
  <2> QED
    BY <1>2, <1>3, <2>1
<1> HIDE DEF l, r
<1>5. l = r
  BY <1>2, <1>3, <1>4
<1> QED
  BY <1>5 DEF l, r

\* If s is the one spec of its device, the device leaves with it.
LEMMA DevicesRemoved ==
  ASSUME NEW q \in Seq(Specs), NEW s \in Specs, Contains(q, s),
         \A i \in 1..Len(q) : q[i].dev = s.dev => q[i] = s
  PROVE  DevicesOf(RemoveFirst(q, s)) = RemoveFirst(DevicesOf(q), s.dev)
<1> DEFINE ds == DevicesOf(q)
           n == Len(q)
<1>1. ds \in Seq(Owners) /\ Len(ds) = n /\ \A i \in 1..n : ds[i] = q[i].dev
  BY DevicesType
<1> HIDE DEF ds
<1>2. PICK p \in 1..n : First(q, s, p)
  BY FirstExists
<1>3. First(ds, s.dev, p)
  BY <1>1, <1>2 DEF First
<1> DEFINE r == RemoveAt(q, p)
           dr == RemoveAt(ds, p)
<1>4. /\ RemoveFirst(q, s) = r /\ r \in Seq(Specs) /\ Len(r) = n - 1
      /\ \A i \in 1..(n - 1) : r[i] = IF i < p THEN q[i] ELSE q[i + 1]
  BY <1>2, RemovedFirst
<1>5. /\ RemoveFirst(ds, s.dev) = dr /\ dr \in Seq(Owners) /\ Len(dr) = n - 1
      /\ \A i \in 1..(n - 1) : dr[i] = IF i < p THEN ds[i] ELSE ds[i + 1]
  <2>1. /\ RemoveFirst(ds, s.dev) = dr /\ dr \in Seq(Owners) /\ Len(dr) = Len(ds) - 1
        /\ \A i \in 1..(Len(ds) - 1) : dr[i] = IF i < p THEN ds[i] ELSE ds[i + 1]
    BY <1>1, <1>3, RemovedFirst
  <2> HIDE DEF dr
  <2> QED
    BY <1>1, <2>1
<1> HIDE DEF r, dr, n
<1>6. /\ DevicesOf(r) \in Seq(Owners) /\ Len(DevicesOf(r)) = n - 1
      /\ \A i \in 1..(n - 1) : DevicesOf(r)[i] = r[i].dev
  BY <1>4, DevicesType
<1>7. n \in Nat /\ p \in 1..n
  BY <1>2 DEF n
<1>8. \A i \in 1..(n - 1) : DevicesOf(r)[i] = dr[i]
  <2> SUFFICES ASSUME NEW i \in 1..(n - 1) PROVE DevicesOf(r)[i] = dr[i]
    OBVIOUS
  <2>1. i \in 1..n /\ i + 1 \in 1..n
    BY <1>7
  <2> QED
    BY <1>1, <1>4, <1>5, <1>6, <2>1
<1> DEFINE l == DevicesOf(r)
<1> HIDE DEF l
<1>9. l = dr
  BY <1>5, <1>6, <1>8 DEF l
<1> QED
  BY <1>4, <1>5, <1>9 DEF l, ds

-----------------------------------------------------------------------------
(* The calls on the tab host of one activity.                                *)

\* The map has a tab under its own tag; the host has a current tab unless it is
\* empty; the fragment shown is that of the last tab; and no fragment lacks its
\* bundle.
InfoOK(T) == \A t \in Tags : T.info[t] # NoSpec => TagOf(T.info[t]) = t
CurOK(T) == T.cur <= Len(T.host) /\ (T.cur = 0 <=> T.host = <<>>)
Sync(T) == T.shown = IF T.last = NoSpec THEN {} ELSE {TagOf(T.last)}
Whole(T) == \A t \in Tags : T.frag[t] # Restored

\* What becomes of them in a call that leaves the map alone.
Follows(T, U) ==
  U \in Tabs /\ U.info = T.info /\ (Sync(T) => Sync(U)) /\ (Whole(T) => Whole(U))

LEMMA SpecType ==
  /\ NoSpec \notin Specs /\ Base \in Owners /\ Base \notin Devices /\ Devices \subseteq Owners
  /\ \A s \in Specs : /\ s.act \in Activities /\ s.nr \in Nat /\ s.dev \in Owners
                      /\ TagOf(s) \in Tags /\ TagOf(s) = Tag[s.dev]
  /\ \A d \in Owners : Tag[d] \in Tags /\ d # NoFragment /\ d # Restored
  /\ \A d \in Devices : Tag[d] # Tag[Base]
<1>1. NoSpec \notin Specs /\ Base \notin Devices /\ \A d \in Devices : Tag[d] # Tag[Base]
  BY TabsAssumption DEF Specs
<1>2. Base \in Owners /\ Devices \subseteq Owners
  BY DEF Owners
<1>3. \A d \in Owners : Tag[d] \in Tags
  BY DEF Tags
<1>4. \A d \in Owners : d # NoFragment /\ d # Restored
  BY TabsAssumption
<1>5. \A s \in Specs : s.act \in Activities /\ s.nr \in Nat /\ s.dev \in Owners
  BY DEF Specs
<1> QED
  BY <1>1, <1>2, <1>3, <1>4, <1>5 DEF TagOf

LEMMA TabsType ==
  ASSUME NEW T \in Tabs
  PROVE  /\ T.host \in Seq(Specs) /\ T.cur \in Nat /\ T.info \in [Tags -> Specs \cup {NoSpec}]
         /\ T.last \in Specs \cup {NoSpec}
         /\ T.frag \in [Tags -> Owners \cup {NoFragment, Restored}]
         /\ T.shown \in SUBSET Tags /\ T.commits \in BOOLEAN
  BY DEF Tabs

\* Records that differ in some fields.
LEMMA TabsChanged ==
  ASSUME NEW T \in Tabs
  PROVE  /\ \A l \in Specs \cup {NoSpec}, f \in [Tags -> Owners \cup {NoFragment, Restored}],
               s \in SUBSET Tags, c \in BOOLEAN :
              [T EXCEPT !.last = l, !.frag = f, !.shown = s, !.commits = c] \in Tabs
         /\ \A h \in Seq(Specs) : [T EXCEPT !.host = h] \in Tabs
         /\ \A n \in Nat : [T EXCEPT !.cur = n] \in Tabs
         /\ \A h \in Seq(Specs), n \in Nat : [T EXCEPT !.host = h, !.cur = n] \in Tabs
         /\ \A i \in [Tags -> Specs \cup {NoSpec}] : [T EXCEPT !.info = i] \in Tabs
         /\ \A c \in BOOLEAN : [T EXCEPT !.commits = c] \in Tabs
         /\ \A f \in [Tags -> Owners \cup {NoFragment, Restored}], s \in SUBSET Tags :
              [T EXCEPT !.frag = f, !.shown = s] \in Tabs
  BY DEF Tabs

\* onTabChanged.
LEMMA ChangedTab ==
  ASSUME NEW T \in Tabs, NEW tag \in Tags, InfoOK(T)
  PROVE  LET U == OnTabChanged(T, tag)
         IN /\ Follows(T, U) /\ U.host = T.host /\ U.cur = T.cur /\ U.last = T.info[tag]
            /\ U.commits = (T.commits \/ T.last # T.info[tag])
<1> DEFINE new == T.info[tag]
           out == IF T.last = NoSpec THEN {} ELSE {TagOf(T.last)}
           in == IF new = NoSpec THEN {} ELSE {tag}
           made == IF new # NoSpec /\ T.frag[tag] = NoFragment
                   THEN [T.frag EXCEPT ![tag] = new.dev] ELSE T.frag
           shown == (T.shown \ out) \cup in
           U == OnTabChanged(T, tag)
           W == [T EXCEPT !.last = new, !.frag = made, !.shown = shown, !.commits = TRUE]
<1>1. U = IF T.last = new THEN T ELSE W
  BY DEF OnTabChanged
<1>2. new \in Specs \cup {NoSpec} /\ (new # NoSpec => TagOf(new) = tag /\ new.dev \in Owners)
  BY TabsType, SpecType DEF InfoOK
<1>3. /\ made \in [Tags -> Owners \cup {NoFragment, Restored}]
      /\ Whole(T) => \A t \in Tags : made[t] # Restored
  <2>1. T.frag \in [Tags -> Owners \cup {NoFragment, Restored}]
    BY TabsType
  <2>2. new # NoSpec => new.dev # Restored
    BY <1>2, SpecType
  <2> DEFINE d == new.dev
  <2> HIDE DEF d, new
  <2> QED
    BY <1>2, <2>1, <2>2 DEF Whole, d
<1>4. shown \in SUBSET Tags /\ TRUE \in BOOLEAN
  BY TabsType
<1> HIDE DEF new, made, shown
<1>5. W \in Tabs
  BY <1>2, <1>3, <1>4, TabsChanged
<1>6. /\ W.host = T.host /\ W.cur = T.cur /\ W.info = T.info /\ W.last = new /\ W.frag = made
      /\ W.shown = shown /\ W.commits = TRUE
  BY DEF Tabs
<1> HIDE DEF W
<1>7. Sync(T) => Sync(W)
  <2>1. Sync(T) => shown = in
    BY DEF Sync, shown
  <2>2. in = IF new = NoSpec THEN {} ELSE {TagOf(new)}
    BY <1>2
  <2> QED
    BY <1>6, <2>1, <2>2 DEF Sync
<1>8. Whole(T) => Whole(W)
  BY <1>3, <1>6 DEF Whole
<1>9. Follows(T, T) /\ Follows(T, W)
  BY <1>5, <1>6, <1>7, <1>8 DEF Follows
<1>10. T.commits \in BOOLEAN
  BY TabsType
<1> QED
  BY <1>1, <1>6, <1>9, <1>10 DEF new

LEMMA FollowsOn ==
  ASSUME NEW T, NEW U, NEW W, Follows(T, U), Follows(U, W)
  PROVE  Follows(T, W)
  BY DEF Follows

LEMMA InfoFollows ==
  ASSUME NEW T, NEW U, Follows(T, U), InfoOK(T)
  PROVE  InfoOK(U)
  BY DEF Follows, InfoOK

\* android.widget.TabHost.setCurrentTab.
LEMMA SetTab ==
  ASSUME NEW T \in Tabs, NEW i \in Nat, InfoOK(T)
  PROVE  LET U == SetCurrentTab(T, i)
         IN /\ Follows(T, U) /\ U.host = T.host
            /\ CurOK(T) \/ i \in 1..Len(T.host) => CurOK(U)
            /\ i \in 1..Len(T.host) => U.cur = i
            /\ i \notin 1..Len(T.host) \/ i = T.cur => U = T
            /\ i \in 1..Len(T.host) /\ i # T.cur =>
                 /\ U.last = T.info[TagOf(T.host[i])]
                 /\ U.commits = (T.commits \/ T.last # T.info[TagOf(T.host[i])])
<1> DEFINE U == SetCurrentTab(T, i)
           V == [T EXCEPT !.cur = i]
<1>1. CASE i \notin 1..Len(T.host) \/ i = T.cur
  <2>1. U = T
    BY <1>1 DEF SetCurrentTab
  <2>2. Follows(T, T)
    BY DEF Follows
  <2>3. CurOK(T) \/ i \in 1..Len(T.host) => CurOK(T)
    BY <1>1, TabsType DEF CurOK
  <2> QED
    BY <1>1, <2>1, <2>2, <2>3
<1>2. CASE ~(i \notin 1..Len(T.host) \/ i = T.cur)
  <2>1. /\ V.host = T.host /\ V.cur = i /\ V.info = T.info /\ V.last = T.last
        /\ V.shown = T.shown /\ V.frag = T.frag /\ V.commits = T.commits
    BY DEF Tabs
  <2>2. U = OnTabChanged(V, TagOf(T.host[i]))
    BY <1>2 DEF SetCurrentTab
  <2>3. T.host[i] \in Specs /\ TagOf(T.host[i]) \in Tags
    BY <1>2, TabsType, SpecType
  <2>4. V \in Tabs
    BY TabsChanged
  <2> HIDE DEF V
  <2>5. Follows(T, V)
    BY <2>1, <2>4 DEF Follows, Sync, Whole
  <2>6. InfoOK(V)
    BY <2>5, InfoFollows
  <2>7. /\ Follows(V, U) /\ U.host = V.host /\ U.cur = V.cur
        /\ U.last = V.info[TagOf(T.host[i])]
        /\ U.commits = (V.commits \/ V.last # V.info[TagOf(T.host[i])])
    BY <2>2, <2>3, <2>4, <2>6, ChangedTab
  <2> HIDE DEF U
  <2>8. Follows(T, U)
    BY <2>5, <2>7, FollowsOn
  <2>9. CurOK(U)
    BY <1>2, <2>1, <2>7, TabsType DEF CurOK
  <2> QED
    BY <1>2, <2>1, <2>7, <2>8, <2>9 DEF U
<1> QED
  BY <1>1, <1>2

\* android.widget.TabHost.addTab, which makes the first tab the current one.
LEMMA HostAdds ==
  ASSUME NEW T \in Tabs, NEW s \in Specs, InfoOK(T), CurOK(T)
  PROVE  LET U == HostAddTab(T, s)
         IN /\ Follows(T, U) /\ U.host = Append(T.host, s) /\ CurOK(U)
            /\ U.cur = IF T.cur = 0 THEN 1 ELSE T.cur
            /\ U.last = IF T.cur = 0 THEN T.info[TagOf(s)] ELSE T.last
            /\ T.cur # 0 => U.commits = T.commits
            /\ T.cur = 0 => U.commits = (T.commits \/ T.last # T.info[TagOf(s)])
<1> DEFINE U == HostAddTab(T, s)
           V == [T EXCEPT !.host = Append(T.host, s)]
<1>1. U = IF T.cur = 0 THEN SetCurrentTab(V, 1) ELSE V
  BY DEF HostAddTab
<1>2. /\ V.host = Append(T.host, s) /\ V.cur = T.cur /\ V.info = T.info /\ V.last = T.last
      /\ V.shown = T.shown /\ V.frag = T.frag /\ V.commits = T.commits
  BY DEF Tabs
<1>3. V \in Tabs
  <2> DEFINE h == Append(T.host, s)
  <2>1. h \in Seq(Specs)
    BY TabsType
  <2> HIDE DEF h
  <2>2. [T EXCEPT !.host = h] \in Tabs
    BY <2>1, TabsChanged
  <2> QED
    BY <2>2 DEF h
<1> HIDE DEF V
<1>4. Follows(T, V)
  BY <1>2, <1>3 DEF Follows, Sync, Whole
<1>5. InfoOK(V)
  BY <1>4, InfoFollows
<1>6. /\ Len(V.host) = Len(T.host) + 1 /\ Len(T.host) \in Nat /\ T.cur \in Nat
      /\ T.host \in Seq(Specs) /\ V.host # <<>> /\ (T.host = <<>> => V.host[1] = s)
  BY <1>2, TabsType
<1>7. CASE T.cur = 0
  <2>1. T.host = <<>> /\ 1 \in 1..Len(V.host) /\ 1 # V.cur /\ 1 \in Nat
    BY <1>2, <1>6, <1>7 DEF CurOK
  <2>2. /\ Follows(V, U) /\ U.host = V.host /\ CurOK(U) /\ U.cur = 1
        /\ U.last = V.info[TagOf(V.host[1])]
        /\ U.commits = (V.commits \/ V.last # V.info[TagOf(V.host[1])])
    BY <1>1, <1>3, <1>5, <1>7, <2>1, SetTab
  <2> HIDE DEF U
  <2>3. Follows(T, U)
    BY <1>4, <2>2, FollowsOn
  <2> QED
    BY <1>2, <1>6, <1>7, <2>1, <2>2, <2>3 DEF U
<1>8. CASE T.cur # 0
  <2>1. U = V
    BY <1>1, <1>8
  <2>2. CurOK(V)
    BY <1>2, <1>6, <1>8 DEF CurOK
  <2> QED
    BY <1>2, <1>4, <1>8, <2>1, <2>2
<1> QED
  BY <1>7, <1>8

\* addTab.
LEMMA AddTabDoes ==
  ASSUME NEW T \in Tabs, NEW s \in Specs, InfoOK(T), CurOK(T)
  PROVE  LET U == AddTab(T, s)
         IN /\ U \in Tabs /\ InfoOK(U) /\ CurOK(U)
            /\ (Sync(T) => Sync(U)) /\ (Whole(T) => Whole(U))
            /\ U.host = Append(T.host, s) /\ U.info = [T.info EXCEPT ![TagOf(s)] = s]
            /\ U.cur = IF T.cur = 0 THEN 1 ELSE T.cur
            /\ U.last = IF T.cur = 0 THEN T.info[TagOf(s)] ELSE T.last
<1> DEFINE again == T.frag[TagOf(s)] # NoFragment /\ TagOf(s) \in T.shown
           V == [T EXCEPT !.commits = again]
           W == HostAddTab(V, s)
           U == AddTab(T, s)
<1>1. again \in BOOLEAN
  OBVIOUS
<1> HIDE DEF again
<1>2. /\ V.host = T.host /\ V.cur = T.cur /\ V.info = T.info /\ V.last = T.last
      /\ V.shown = T.shown /\ V.frag = T.frag
  BY DEF Tabs
<1>3. V \in Tabs
  BY <1>1, TabsChanged
<1>4. U = [W EXCEPT !.info = [W.info EXCEPT ![TagOf(s)] = s]]
  BY DEF AddTab, again
<1> HIDE DEF V
<1>5. InfoOK(V) /\ CurOK(V) /\ (Sync(T) => Sync(V)) /\ (Whole(T) => Whole(V))
  BY <1>2 DEF InfoOK, CurOK, Sync, Whole
<1>6. /\ Follows(V, W) /\ W.host = Append(V.host, s) /\ CurOK(W)
      /\ W.cur = IF V.cur = 0 THEN 1 ELSE V.cur
      /\ W.last = IF V.cur = 0 THEN V.info[TagOf(s)] ELSE V.last
  BY <1>3, <1>5, HostAdds
<1> HIDE DEF W
<1>7. W \in Tabs /\ W.info = T.info /\ (Sync(T) => Sync(W)) /\ (Whole(T) => Whole(W))
  BY <1>2, <1>5, <1>6 DEF Follows
<1> DEFINE i == [W.info EXCEPT ![TagOf(s)] = s]
<1>8. /\ i \in [Tags -> Specs \cup {NoSpec}] /\ i = [T.info EXCEPT ![TagOf(s)] = s]
      /\ \A t \in Tags : i[t] # NoSpec => TagOf(i[t]) = t
  BY <1>7, TabsType, SpecType DEF InfoOK
<1> HIDE DEF i
<1>9. U \in Tabs
  <2>1. [W EXCEPT !.info = i] \in Tabs
    BY <1>7, <1>8, TabsChanged
  <2> QED
    BY <1>4, <2>1 DEF i
<1>10. /\ U.info = i /\ U.host = W.host /\ U.cur = W.cur /\ U.last = W.last
       /\ U.shown = W.shown /\ U.frag = W.frag
  BY <1>4, <1>7 DEF Tabs, i
<1> HIDE DEF U
<1>11. InfoOK(U) /\ CurOK(U) /\ (Sync(W) => Sync(U)) /\ (Whole(W) => Whole(U))
  BY <1>6, <1>8, <1>10 DEF InfoOK, CurOK, Sync, Whole
<1> QED
  BY <1>2, <1>6, <1>7, <1>8, <1>9, <1>10, <1>11 DEF U

\* removeAllTabs.
LEMMA RemoveAllDoes ==
  ASSUME NEW T \in Tabs, InfoOK(T), CurOK(T)
  PROVE  LET U == RemoveAllTabs(T)
         IN /\ Follows(T, U) /\ CurOK(U) /\ U.host = <<>> /\ U.cur = 0
            /\ T.cur = 1 \/ T.host = <<>> => U.last = T.last /\ U.commits = T.commits
            /\ T.cur # 1 /\ T.host # <<>> =>
                 /\ U.last = T.info[TagOf(T.host[1])]
                 /\ U.commits = (T.commits \/ T.last # T.info[TagOf(T.host[1])])
<1> DEFINE V == SetCurrentTab(T, 1)
           U == [V EXCEPT !.host = <<>>, !.cur = 0]
<1>1. RemoveAllTabs(T) = U
  BY DEF RemoveAllTabs, ClearAllTabs
<1>2. T.host \in Seq(Specs) /\ T.cur \in Nat /\ (1 \in 1..Len(T.host) <=> T.host # <<>>) /\ 1 \in Nat
  BY TabsType
<1>3. /\ Follows(T, V)
      /\ T.cur = 1 \/ T.host = <<>> => V.last = T.last /\ V.commits = T.commits
      /\ T.cur # 1 /\ T.host # <<>> =>
           /\ V.last = T.info[TagOf(T.host[1])]
           /\ V.commits = (T.commits \/ T.last # T.info[TagOf(T.host[1])])
  BY <1>2, SetTab
<1> HIDE DEF V
<1>4. V \in Tabs
  BY <1>3 DEF Follows
<1>5. /\ U.host = <<>> /\ U.cur = 0 /\ U.info = V.info /\ U.last = V.last
      /\ U.shown = V.shown /\ U.frag = V.frag /\ U.commits = V.commits
  BY <1>4 DEF Tabs
<1>6. U \in Tabs
  <2>1. <<>> \in Seq(Specs) /\ 0 \in Nat
    OBVIOUS
  <2> QED
    BY <1>4, <2>1, TabsChanged
<1> HIDE DEF U
<1>7. Follows(V, U) /\ CurOK(U)
  BY <1>5, <1>6 DEF Follows, Sync, Whole, CurOK
<1>8. Follows(T, U)
  BY <1>3, <1>7, FollowsOn
<1> QED
  BY <1>1, <1>3, <1>5, <1>7, <1>8

\* One turn of the loop of removeTab: the tab added back is made current.
AddedBack(U, r) == SetCurrentTab(HostAddTab(U, r), Len(HostAddTab(U, r).host))

LEMMA AddBackDoes ==
  ASSUME NEW T \in Tabs, NEW r \in Specs, InfoOK(T), CurOK(T), T.cur = Len(T.host)
  PROVE  LET U == AddedBack(T, r)
         IN /\ Follows(T, U) /\ CurOK(U)
            /\ U.host = Append(T.host, r) /\ U.cur = Len(U.host)
            /\ U.last = T.info[TagOf(r)]
            /\ U.commits = (T.commits \/ T.last # T.info[TagOf(r)])
<1> DEFINE V == HostAddTab(T, r)
           U == AddedBack(T, r)
           k == Len(T.host)
<1>1. U = SetCurrentTab(V, Len(V.host))
  BY DEF AddedBack
<1>2. /\ Follows(T, V) /\ V.host = Append(T.host, r) /\ CurOK(V)
      /\ V.cur = IF T.cur = 0 THEN 1 ELSE T.cur
      /\ V.last = IF T.cur = 0 THEN T.info[TagOf(r)] ELSE T.last
      /\ T.cur # 0 => V.commits = T.commits
      /\ T.cur = 0 => V.commits = (T.commits \/ T.last # T.info[TagOf(r)])
  BY HostAdds
<1> HIDE DEF V, U
<1>3. V \in Tabs /\ V.info = T.info /\ InfoOK(V)
  BY <1>2, InfoFollows DEF Follows
<1>4. /\ k \in Nat /\ Len(V.host) = k + 1 /\ V.host[k + 1] = r /\ T.cur = k
      /\ k + 1 \in Nat /\ k + 1 \in 1..Len(V.host)
  BY <1>2, TabsType
<1> HIDE DEF k
<1>5. /\ Follows(V, U) /\ U.host = V.host /\ CurOK(U) /\ U.cur = k + 1
      /\ V.cur = k + 1 => U = V
      /\ V.cur # k + 1 => /\ U.last = V.info[TagOf(r)]
                          /\ U.commits = (V.commits \/ V.last # V.info[TagOf(r)])
  BY <1>1, <1>3, <1>4, SetTab
<1>6. Follows(T, U)
  BY <1>2, <1>5, FollowsOn
<1>7. CASE k = 0
  <2>1. V.cur = k + 1
    BY <1>2, <1>4, <1>7
  <2> QED
    BY <1>2, <1>4, <1>5, <1>6, <1>7, <2>1 DEF U
<1>8. CASE k # 0
  <2>1. V.cur # k + 1
    BY <1>2, <1>4, <1>8
  <2> QED
    BY <1>2, <1>3, <1>4, <1>5, <1>6, <1>8, <2>1 DEF U
<1> QED
  BY <1>7, <1>8

\* The loop: h[k] is what the first k turns have made of T.
Loopable == {U \in Tabs : InfoOK(U) /\ CurOK(U) /\ U.cur = Len(U.host)}
Turns(q) == [k \in 1..Len(q) |-> [U \in Loopable |-> AddedBack(U, q[k])]]

LEMMA TurnType == \A U \in Loopable, r \in Specs : AddedBack(U, r) \in Loopable
<1> SUFFICES ASSUME NEW T \in Loopable, NEW r \in Specs PROVE AddedBack(T, r) \in Loopable
  OBVIOUS
<1> DEFINE U == AddedBack(T, r)
<1>1. T \in Tabs /\ InfoOK(T) /\ CurOK(T) /\ T.cur = Len(T.host)
  BY DEF Loopable
<1>2. Follows(T, U) /\ CurOK(U) /\ U.cur = Len(U.host)
  BY <1>1, AddBackDoes
<1> HIDE DEF U
<1>3. InfoOK(U) /\ U \in Tabs
  BY <1>1, <1>2, InfoFollows DEF Follows
<1> QED
  BY <1>2, <1>3 DEF Loopable, U

LEMMA LoopFolds ==
  ASSUME NEW T, NEW s, NEW q \in Seq(Specs),
         NEW R \in Loopable,
         R = RemoveAllTabs([T EXCEPT !.info[TagOf(s)] = NoSpec, !.commits = FALSE])
  PROVE  \E h \in [0..Len(q) -> Loopable] :
           LeftSteps(h, Len(q), R, Turns(q)) /\ RemoveTab(T, s, q) = h[Len(q)]
<1> DEFINE n == Len(q)
           step == Turns(q)
           Loops(g) == g = [S \in SUBSET (1..n) |->
                         IF S = {} THEN R ELSE AddedBack(g[S \ {Max(S)}], q[Max(S)])]
           f == CHOOSE g : Loops(g)
<1>1. n \in Nat /\ DOMAIN q = 1..n /\ \A k \in 1..n : q[k] \in Specs
  OBVIOUS
<1>2. RemoveTab(T, s, q) = f[1..n]
  <2> HIDE DEF n
  <2> QED
    BY <1>1, Zenon DEF RemoveTab, FoldLeft, MapThenFoldSet, AddedBack
<1>4. step \in [1..n -> [Loopable -> Loopable]]
  BY <1>1, TurnType DEF Turns
<1>5. \A k \in 1..n, U \in Loopable : step[k][U] = AddedBack(U, q[k])
  BY DEF Turns
<1> HIDE DEF n, step
<1>6. \A S \in SUBSET (1..n) : S # {} => Max(S) \in 1..n
  BY <1>1, MaxUpTo
<1>7. PICK g \in [SUBSET (1..n) -> Loopable] : LeftFolded(g, n, R, step)
  <2>1. n \in Nat /\ R \in Loopable
    BY <1>1
  <2> QED
    BY <1>4, <2>1, LeftFoldExists, Zenon
<1>8. Loops(g)
  <2>1. ASSUME NEW S \in SUBSET (1..n), S # {}
        PROVE  step[Max(S)][g[S \ {Max(S)}]] = AddedBack(g[S \ {Max(S)}], q[Max(S)])
    <3>1. g[S \ {Max(S)}] \in Loopable /\ Max(S) \in 1..n
      BY <1>6, <1>7, <2>1
    <3> QED
      BY <1>5, <3>1
  <2>2. \A S \in SUBSET (1..n) :
          g[S] = IF S = {} THEN R ELSE AddedBack(g[S \ {Max(S)}], q[Max(S)])
    BY <1>7, <2>1 DEF LeftFolded
  <2>3. g = [S \in SUBSET (1..n) |-> g[S]]
    BY <1>7
  <2> QED
    BY <2>2, <2>3
<1>9. Loops(f)
  <2> HIDE DEF Loops
  <2> QED
    BY <1>8, Zenon
<1>10. LeftFold(f, n, Loopable, R, step)
  <2>1. f[{}] = R
    BY <1>9
  <2>2. ASSUME NEW S \in SUBSET (1..n), S # {}, f[S \ {Max(S)}] \in Loopable
        PROVE  f[S] = step[Max(S)][f[S \ {Max(S)}]]
    <3>1. f[S] = AddedBack(f[S \ {Max(S)}], q[Max(S)])
      BY <1>9, <2>2
    <3> QED
      BY <1>5, <1>6, <2>2, <3>1
  <2> HIDE DEF f
  <2> QED
    BY <2>1, <2>2 DEF LeftFold
<1> HIDE DEF f
<1>11. PICK h \in [0..n -> Loopable] : LeftSteps(h, n, R, step) /\ f[1..n] = h[n]
  <2>1. n \in Nat /\ R \in Loopable
    BY <1>1
  <2> QED
    BY <1>4, <1>10, <2>1, LeftFoldSteps
<1> QED
  BY <1>2, <1>11 DEF n, step

\* removeTab: the host holds the tabs that remain, the last of them the current
\* one; a transaction is committed unless every tab that was made current on the
\* way was the last tab already.
Quiet(T, info, q) ==
  /\ T.cur = 1 \/ T.host = <<>> \/ T.last = info[TagOf(T.host[1])]
  /\ \A i \in 1..Len(q) : info[TagOf(q[i])] = T.last

Rebuilt(T, info, q, U) ==
  /\ U \in Tabs /\ InfoOK(U) /\ CurOK(U)
  /\ (Sync(T) => Sync(U)) /\ (Whole(T) => Whole(U))
  /\ U.host = q /\ U.cur = Len(q) /\ U.info = info
  /\ q # <<>> => U.last = info[TagOf(q[Len(q)])]
  /\ U.commits = FALSE <=> Quiet(T, info, q)

LEMMA RemoveTabDoes ==
  ASSUME NEW T \in Tabs, InfoOK(T), CurOK(T), NEW s \in Specs, NEW q \in Seq(Specs)
  PROVE  Rebuilt(T, [T.info EXCEPT ![TagOf(s)] = NoSpec], q, RemoveTab(T, s, q))
<1> DEFINE info == [T.info EXCEPT ![TagOf(s)] = NoSpec]
           F == [T EXCEPT !.info = info, !.commits = FALSE]
           R == RemoveAllTabs(F)
           n == Len(q)
           U == RemoveTab(T, s, q)
<1>1. /\ info \in [Tags -> Specs \cup {NoSpec}]
      /\ \A t \in Tags : info[t] # NoSpec => TagOf(info[t]) = t
  BY TabsType, SpecType DEF InfoOK
<1> HIDE DEF info
<1>2. /\ F.host = T.host /\ F.cur = T.cur /\ F.info = info /\ F.last = T.last
      /\ F.shown = T.shown /\ F.frag = T.frag /\ F.commits = FALSE
  BY DEF Tabs
<1>3. F \in Tabs
  <2> DEFINE E == [T EXCEPT !.info = info]
  <2>1. E \in Tabs
    BY <1>1, TabsChanged
  <2>2. F = [E EXCEPT !.commits = FALSE]
    BY DEF Tabs
  <2> HIDE DEF E
  <2>3. FALSE \in BOOLEAN
    OBVIOUS
  <2> QED
    BY <2>1, <2>2, <2>3, TabsChanged
<1>4. R = RemoveAllTabs([T EXCEPT !.info[TagOf(s)] = NoSpec, !.commits = FALSE])
  BY DEF info
<1> HIDE DEF F
<1>5. InfoOK(F) /\ CurOK(F) /\ (Sync(T) => Sync(F)) /\ (Whole(T) => Whole(F))
  BY <1>1, <1>2 DEF InfoOK, CurOK, Sync, Whole
<1>6. /\ Follows(F, R) /\ CurOK(R) /\ R.host = <<>> /\ R.cur = 0
      /\ T.cur = 1 \/ T.host = <<>> => R.last = T.last /\ R.commits = FALSE
      /\ T.cur # 1 /\ T.host # <<>> =>
           /\ R.last = info[TagOf(T.host[1])]
           /\ R.commits = (FALSE \/ T.last # info[TagOf(T.host[1])])
  BY <1>2, <1>3, <1>5, RemoveAllDoes
<1> HIDE DEF R
<1>7. InfoOK(R) /\ R \in Tabs /\ R.info = info /\ R.cur = Len(R.host)
      /\ (Sync(T) => Sync(R)) /\ (Whole(T) => Whole(R))
  BY <1>2, <1>5, <1>6, InfoFollows DEF Follows
<1>8. R \in Loopable
  BY <1>6, <1>7 DEF Loopable
<1>9. PICK h \in [0..n -> Loopable] : LeftSteps(h, n, R, Turns(q)) /\ U = h[n]
  BY <1>4, <1>8, LoopFolds
<1>10. n \in Nat /\ \A k \in 1..n : q[k] \in Specs
  OBVIOUS
<1>11. h[0] = R /\ \A k \in 1..n : h[k - 1] \in Loopable /\ h[k] = AddedBack(h[k - 1], q[k])
  <2>1. ASSUME NEW k \in 1..n
        PROVE  h[k - 1] \in Loopable /\ h[k] = Turns(q)[k][h[k - 1]]
    BY <1>9, <1>10 DEF LeftSteps
  <2>2. ASSUME NEW k \in 1..n
        PROVE  h[k - 1] \in Loopable /\ h[k] = AddedBack(h[k - 1], q[k])
    BY <2>1 DEF Turns
  <2> QED
    BY <1>9, <2>2 DEF LeftSteps
<1> DEFINE Good(k) ==
             /\ Follows(R, h[k]) /\ Len(h[k].host) = k
             /\ \A i \in 1..k : h[k].host[i] = q[i]
             /\ k # 0 => h[k].last = info[TagOf(q[k])]
             /\ h[k].commits = FALSE => h[k].last = R.last
             /\ h[k].commits = FALSE <=>
                  R.commits = FALSE /\ \A i \in 1..k : info[TagOf(q[i])] = R.last
           K == {k \in 0..n : Good(k)}
<1> HIDE DEF n, U
<1>12. 0 \in K
  <2>1. Follows(R, R)
    BY <1>7 DEF Follows
  <2> QED
    BY <1>6, <1>10, <1>11, <2>1
<1>13. ASSUME NEW k \in 1..n, k - 1 \in K PROVE k \in K
  <2> DEFINE W == h[k - 1]
             X == h[k]
             j == k - 1
  <2>1. /\ W \in Tabs /\ InfoOK(W) /\ CurOK(W) /\ W.cur = Len(W.host)
        /\ X = AddedBack(W, q[k]) /\ q[k] \in Specs
    BY <1>10, <1>11 DEF Loopable
  <2>2. /\ Follows(R, W) /\ Len(W.host) = j /\ \A i \in 1..j : W.host[i] = q[i]
        /\ W.commits = FALSE => W.last = R.last
        /\ W.commits = FALSE <=> R.commits = FALSE /\ \A i \in 1..j : info[TagOf(q[i])] = R.last
    BY <1>13
  <2> HIDE DEF W, X
  <2>3. /\ Follows(W, X) /\ X.host = Append(W.host, q[k]) /\ X.last = W.info[TagOf(q[k])]
        /\ X.commits = (W.commits \/ W.last # W.info[TagOf(q[k])])
    BY <2>1, AddBackDoes
  <2>4. Follows(R, X)
    BY <2>2, <2>3, FollowsOn
  <2>5. W.info = info /\ W.commits \in BOOLEAN /\ W.host \in Seq(Specs)
    BY <1>7, <2>1, <2>2, TabsType DEF Follows
  <2>6. Len(X.host) = k /\ \A i \in 1..k : X.host[i] = q[i]
    BY <1>10, <2>1, <2>2, <2>3, <2>5
  <2>7. X.commits = FALSE <=> W.commits = FALSE /\ W.last = info[TagOf(q[k])]
    BY <2>3, <2>5
  <2>8. X.commits = FALSE <=>
          R.commits = FALSE /\ \A i \in 1..k : info[TagOf(q[i])] = R.last
    <3>1. \A i \in 1..k : i = k \/ i \in 1..j
      BY <1>10
    <3>2. k \in 1..k /\ \A i \in 1..j : i \in 1..k
      BY <1>10
    <3> HIDE DEF j
    <3> QED
      BY <2>2, <2>7, <3>1, <3>2
  <2>9. X.commits = FALSE => X.last = R.last
    BY <2>2, <2>3, <2>5, <2>7
  <2>10. Good(k)
    BY <2>3, <2>4, <2>5, <2>6, <2>8, <2>9 DEF X
  <2> QED
    BY <1>10, <2>10
<1>14. n \in K
  <2>1. \A k \in 1..n : k - 1 \in K => k \in K
    BY <1>13, Zenon
  <2> HIDE DEF K
  <2>2. \A k \in 0..n : k \in K
    BY <1>10, <1>12, <2>1, NaturalSteps, Zenon
  <2> QED
    BY <1>10, <2>2
<1>15. /\ Follows(R, U) /\ Len(U.host) = n
       /\ \A i \in 1..n : U.host[i] = q[i]
       /\ n # 0 => U.last = info[TagOf(q[n])]
       /\ U.commits = FALSE <=>
            R.commits = FALSE /\ \A i \in 1..n : info[TagOf(q[i])] = R.last
  BY <1>9, <1>14
<1>16. U \in Tabs /\ InfoOK(U) /\ CurOK(U) /\ U.cur = Len(U.host)
  BY <1>9, <1>10 DEF Loopable
<1>17. U.info = info /\ (Sync(T) => Sync(U)) /\ (Whole(T) => Whole(U))
  BY <1>7, <1>15 DEF Follows
<1>18. U.host = q
  <2> DEFINE uh == U.host
  <2>1. uh \in Seq(Specs)
    BY <1>16, TabsType
  <2> HIDE DEF uh
  <2> QED
    BY <1>15, <2>1 DEF uh, n
<1>19. U.commits = FALSE <=> Quiet(T, info, q)
  <2>1. (R.commits = FALSE) <=> (T.cur = 1 \/ T.host = <<>> \/ T.last = info[TagOf(T.host[1])])
    BY <1>6
  <2>2. R.commits = FALSE => R.last = T.last
    BY <1>6
  <2> QED
    BY <1>15, <2>1, <2>2 DEF Quiet, n
<1>20. q # <<>> => n # 0
  BY DEF n
<1> QED
  BY <1>15, <1>16, <1>17, <1>18, <1>19, <1>20 DEF U, n, info, Rebuilt

\* The end of a handler: nothing of T but the commit is forgotten.
LEMMA HandlerEnds ==
  ASSUME NEW T \in Tabs
  PROVE  LET U == [T EXCEPT !.commits = FALSE]
         IN /\ U \in Tabs
            /\ U.host = T.host /\ U.cur = T.cur /\ U.info = T.info /\ U.last = T.last
            /\ U.shown = T.shown /\ U.frag = T.frag
            /\ (InfoOK(T) => InfoOK(U)) /\ (CurOK(T) => CurOK(U))
            /\ (Sync(T) => Sync(U)) /\ (Whole(T) => Whole(U))
<1> DEFINE U == [T EXCEPT !.commits = FALSE]
<1>1. FALSE \in BOOLEAN
  OBVIOUS
<1>2. U \in Tabs
  BY <1>1, TabsChanged
<1>3. /\ U.host = T.host /\ U.cur = T.cur /\ U.info = T.info /\ U.last = T.last
      /\ U.shown = T.shown /\ U.frag = T.frag
  BY DEF Tabs
<1> HIDE DEF U
<1>4. /\ (InfoOK(T) => InfoOK(U)) /\ (CurOK(T) => CurOK(U))
      /\ (Sync(T) => Sync(U)) /\ (Whole(T) => Whole(U))
  BY <1>3 DEF InfoOK, CurOK, Sync, Whole
<1> QED
  BY <1>2, <1>3, <1>4 DEF U

\* onDestroy.
LEMMA DestroyedDoes ==
  ASSUME NEW T \in Tabs
  PROVE  LET U == Destroyed(T)
         IN /\ U \in Tabs /\ Whole(U) /\ U.host = T.host /\ U.cur = T.cur /\ U.info = T.info
            /\ (InfoOK(T) => InfoOK(U)) /\ (CurOK(T) => CurOK(U))
<1> DEFINE f == [t \in Tags |-> NoFragment]
           U == [T EXCEPT !.frag = f, !.shown = {}]
<1>1. f \in [Tags -> Owners \cup {NoFragment, Restored}] /\ {} \in SUBSET Tags
  OBVIOUS
<1>2. \A t \in Tags : f[t] # Restored
  BY TabsAssumption
<1>3. Destroyed(T) = U
  BY DEF Destroyed, NoTabs
<1> HIDE DEF f
<1>4. U \in Tabs
  BY <1>1, TabsChanged
<1>5. U.host = T.host /\ U.cur = T.cur /\ U.info = T.info /\ U.frag = f
  BY DEF Tabs
<1> HIDE DEF U
<1>6. Whole(U) /\ (InfoOK(T) => InfoOK(U)) /\ (CurOK(T) => CurOK(U))
  BY <1>2, <1>5 DEF Whole, InfoOK, CurOK
<1> QED
  BY <1>3, <1>4, <1>5, <1>6

\* A tab host without tabs: of a new activity, or of a restored one.
Bare(T) ==
  /\ T \in Tabs /\ T.host = <<>> /\ T.cur = 0 /\ T.last = NoSpec
  /\ \A t \in Tags : T.info[t] = NoSpec

LEMMA NoTabsBare == Bare(NoTabs) /\ Sync(NoTabs) /\ Whole(NoTabs)
<1>1. NoTabs \in Tabs
  BY DEF NoTabs, Tabs
<1>2. /\ NoTabs.host = <<>> /\ NoTabs.cur = 0 /\ NoTabs.last = NoSpec /\ NoTabs.shown = {}
      /\ \A t \in Tags : NoTabs.info[t] = NoSpec /\ NoTabs.frag[t] = NoFragment
  BY DEF NoTabs
<1> QED
  BY <1>1, <1>2, TabsAssumption DEF Bare, Sync, Whole

LEMMA BareOK == ASSUME NEW T, Bare(T) PROVE T \in Tabs /\ InfoOK(T) /\ CurOK(T)
  BY DEF Bare, InfoOK, CurOK

LEMMA SavedBare == ASSUME NEW T \in Tabs PROVE Bare(Saved(T))
<1> DEFINE f == [t \in Tags |-> IF T.frag[t] = NoFragment THEN NoFragment
                                ELSE IF t = Tag[Base] THEN Base ELSE Restored]
           U == [NoTabs EXCEPT !.frag = f, !.shown = T.shown]
<1>1. f \in [Tags -> Owners \cup {NoFragment, Restored}]
  BY SpecType
<1>2. NoTabs \in Tabs /\ T.shown \in SUBSET Tags
  BY NoTabsBare, TabsType DEF Bare
<1>3. Saved(T) = U
  BY <1>2 DEF Saved, Tabs
<1> HIDE DEF f
<1>4. U \in Tabs
  BY <1>1, <1>2, TabsChanged
<1>5. U.host = NoTabs.host /\ U.cur = NoTabs.cur /\ U.info = NoTabs.info /\ U.last = NoTabs.last
  BY <1>2 DEF Tabs
<1> HIDE DEF U
<1> QED
  BY <1>3, <1>4, <1>5, NoTabsBare DEF Bare

\* initialiseTabHost.
LEMMA InitialiseDoes ==
  ASSUME NEW T, Bare(T), NEW a \in Activities, plugs \in Nat
  PROVE  LET U == Initialise(a, T)
             s == NewSpec(a, Base)
         IN /\ s \in Specs /\ U \in Tabs /\ InfoOK(U) /\ CurOK(U)
            /\ (Sync(T) => Sync(U)) /\ (Whole(T) => Whole(U))
            /\ U.host = <<s>> /\ U.cur = 1 /\ U.last = s
            /\ U.info = [T.info EXCEPT ![Tag[Base]] = s]
<1> DEFINE s == NewSpec(a, Base)
           V == AddTab(T, s)
           U == Initialise(a, T)
<1>1. s \in Specs /\ s.dev = Base /\ TagOf(s) = Tag[Base] /\ Tag[Base] \in Tags
  BY SpecType DEF NewSpec, Specs, TagOf
<1> HIDE DEF s
<1>2. T \in Tabs /\ InfoOK(T) /\ CurOK(T) /\ T.cur = 0 /\ T.host = <<>> /\ T.last = NoSpec
  BY BareOK DEF Bare
<1>3. /\ V \in Tabs /\ InfoOK(V) /\ CurOK(V) /\ (Sync(T) => Sync(V)) /\ (Whole(T) => Whole(V))
      /\ V.host = Append(T.host, s) /\ V.info = [T.info EXCEPT ![TagOf(s)] = s] /\ V.cur = 1
  BY <1>1, <1>2, AddTabDoes
<1>4. U = OnTabChanged(V, Tag[Base])
  BY DEF Initialise, s
<1> HIDE DEF V, U
<1>5. Follows(V, U) /\ U.host = V.host /\ U.cur = V.cur /\ U.last = V.info[Tag[Base]]
  BY <1>1, <1>3, <1>4, ChangedTab
<1>6. V.info[Tag[Base]] = s
  BY <1>1, <1>2, <1>3, TabsType
<1>7. InfoOK(U) /\ U \in Tabs /\ U.info = V.info /\ (Sync(V) => Sync(U)) /\ (Whole(V) => Whole(U))
  BY <1>3, <1>5, InfoFollows DEF Follows
<1>8. CurOK(U)
  BY <1>3, <1>5 DEF CurOK
<1>9. Append(T.host, s) = <<s>>
  BY <1>2
<1> QED
  BY <1>1, <1>3, <1>5, <1>6, <1>7, <1>8, <1>9 DEF U, s

-----------------------------------------------------------------------------
(* The type invariant: TypeOK, and what the calls on a tab host rely on.     *)

TabsOK ==
  /\ tabs \in [Activities -> Tabs]
  /\ \A a \in Activities : InfoOK(tabs[a]) /\ CurOK(tabs[a])
CrashOK == crash \in {"none", "saved", "destroyed", "unmapped", "hardware"}
RestOK ==
  /\ life \in [Activities -> {"new", "front", "stopped", "gone"}]
  /\ specList \in Seq(Specs)
  /\ managed \subseteq Activities
  /\ known \in [Activities -> Seq(Devices)]
  /\ plugged \subseteq Devices
  /\ plugs \in 0..MaxPlugs
TypeInv == TabsOK /\ CrashOK /\ RestOK

LEMMA TypeInvType == ASSUME TypeInv PROVE TypeOK
  BY DEF TypeInv, TabsOK, CrashOK, RestOK, TypeOK, CurOK

LEMMA NewSpecType ==
  ASSUME TypeInv, NEW a \in Activities, NEW d \in Owners
  PROVE  /\ NewSpec(a, d) \in Specs /\ NewSpec(a, d).act = a /\ NewSpec(a, d).dev = d
         /\ TagOf(NewSpec(a, d)) = Tag[d] /\ plugs \in Nat
  BY TabsAssumption DEF TypeInv, RestOK, NewSpec, Specs, TagOf

LEMMA OneTabsOK ==
  ASSUME TabsOK, NEW a \in Activities, NEW U \in Tabs, InfoOK(U), CurOK(U),
         tabs' = [tabs EXCEPT ![a] = U]
  PROVE  TabsOK'
<1> SUFFICES ASSUME NEW b \in Activities PROVE InfoOK(tabs'[b]) /\ CurOK(tabs'[b])
  BY DEF TabsOK
<1>1. tabs'[b] = IF b = a THEN U ELSE tabs[b]
  BY DEF TabsOK
<1> QED
  BY <1>1 DEF TabsOK

LEMMA ChangeOK ==
  ASSUME TabsOK, NEW a \in Activities, NEW T \in Tabs, InfoOK(T), CurOK(T), Change(a, T)
  PROVE  TabsOK' /\ CrashOK'
<1> DEFINE U == [T EXCEPT !.commits = FALSE]
<1>1. U \in Tabs /\ InfoOK(U) /\ CurOK(U)
  BY HandlerEnds
<1>2. tabs' = [tabs EXCEPT ![a] = U] /\ crash' = Committed(a, T)
  BY DEF Change
<1> HIDE DEF U
<1>3. TabsOK'
  BY <1>1, <1>2, OneTabsOK
<1>4. CrashOK'
  BY <1>2 DEF Committed, CrashOK
<1> QED
  BY <1>3, <1>4

LEMMA TypeInit == ASSUME Init PROVE TypeInv
<1>1. NoTabs \in Tabs /\ InfoOK(NoTabs) /\ CurOK(NoTabs)
  BY NoTabsBare, BareOK
<1>2. TabsOK
  BY <1>1 DEF Init, TabsOK
<1>3. <<>> \in Seq(Specs) /\ <<>> \in Seq(Devices) /\ 0 \in 0..MaxPlugs
  BY TabsAssumption
<1> QED
  BY <1>2, <1>3 DEF Init, TypeInv, CrashOK, RestOK

LEMMA AttachType ==
  ASSUME TypeInv, NEW a \in Activities, NEW d \in Devices, Attach(a, d)
  PROVE  TypeInv'
<1> DEFINE s == NewSpec(a, d)
           U == AddTab(tabs[a], s)
<1>1. s \in Specs
  BY NewSpecType, SpecType
<1>2. tabs[a] \in Tabs /\ InfoOK(tabs[a]) /\ CurOK(tabs[a]) /\ TabsOK
  BY DEF TypeInv, TabsOK
<1>3. Change(a, U)
  BY DEF Attach
<1> HIDE DEF s
<1>4. U \in Tabs /\ InfoOK(U) /\ CurOK(U)
  BY <1>1, <1>2, AddTabDoes
<1> HIDE DEF U
<1>5. TabsOK' /\ CrashOK'
  BY <1>2, <1>3, <1>4, ChangeOK
<1>6. RestOK'
  BY <1>1 DEF Attach, TypeInv, RestOK, s
<1> QED
  BY <1>5, <1>6 DEF TypeInv

\* Detach, either way.
Unmapped(a, d) ==
  /\ tabs[a].info[Tag[d]] = NoSpec
  /\ crash' = "unmapped" /\ UNCHANGED <<tabs, specList>>
Removes(a, d, s, q) ==
  /\ tabs[a].info[Tag[d]] = s /\ s \in Specs
  /\ q = RemoveFirst(specList, s) /\ q \in Seq(Specs) /\ specList' = q
  /\ Change(a, RemoveTab(tabs[a], s, q))

LEMMA DetachCases ==
  ASSUME TypeInv, NEW a \in Activities, NEW d \in Devices, Detach(a, d)
  PROVE  \/ Unmapped(a, d)
         \/ \E s \in Specs, q \in Seq(Specs) : Removes(a, d, s, q)
<1> DEFINE s == tabs[a].info[Tag[d]]
           q == RemoveFirst(specList, s)
<1>1. s \in Specs \cup {NoSpec}
  <2>1. tabs[a] \in Tabs /\ Tag[d] \in Tags
    BY SpecType DEF TypeInv, TabsOK
  <2> QED
    BY <2>1, TabsType
<1>2. CASE s = NoSpec
  BY <1>2 DEF Detach, Unmapped
<1>3. CASE s # NoSpec
  <2>1. s \in Specs
    BY <1>1, <1>3
  <2>2. q \in Seq(Specs)
    BY RemoveFirstType DEF TypeInv, RestOK
  <2>3. specList' = q /\ Change(a, RemoveTab(tabs[a], s, q))
    BY <1>3 DEF Detach
  <2>4. Removes(a, d, s, q)
    BY <2>1, <2>2, <2>3 DEF Removes
  <2> QED
    BY <2>1, <2>2, <2>4
<1> QED
  BY <1>2, <1>3

LEMMA DetachType ==
  ASSUME TypeInv, NEW a \in Activities, NEW d \in Devices, Detach(a, d)
  PROVE  TypeInv'
<1>1. RemoveFirst(known[a], d) \in Seq(Devices)
  BY RemoveFirstType DEF TypeInv, RestOK
<1>2. /\ known' \in [Activities -> Seq(Devices)]
      /\ UNCHANGED <<life, managed, plugged, plugs>>
  BY <1>1 DEF Detach, TypeInv, RestOK
<1>3. CASE Unmapped(a, d)
  <2>1. TabsOK' /\ CrashOK'
    BY <1>3 DEF Unmapped, TypeInv, TabsOK, CrashOK
  <2> QED
    BY <1>2, <1>3, <2>1 DEF Unmapped, TypeInv, RestOK
<1>4. CASE \E s \in Specs, q \in Seq(Specs) : Removes(a, d, s, q)
  <2>1. PICK s \in Specs, q \in Seq(Specs) : Removes(a, d, s, q)
    BY <1>4
  <2> DEFINE U == RemoveTab(tabs[a], s, q)
  <2>2. tabs[a] \in Tabs /\ InfoOK(tabs[a]) /\ CurOK(tabs[a]) /\ TabsOK
    BY DEF TypeInv, TabsOK
  <2>3. U \in Tabs /\ InfoOK(U) /\ CurOK(U)
    BY <2>2, RemoveTabDoes DEF Rebuilt
  <2>4. Change(a, U) /\ specList' \in Seq(Specs)
    BY <2>1 DEF Removes
  <2> HIDE DEF U
  <2>5. TabsOK' /\ CrashOK'
    BY <2>2, <2>3, <2>4, ChangeOK
  <2> QED
    BY <1>2, <2>4, <2>5 DEF TypeInv, RestOK
<1> QED
  BY <1>3, <1>4, DetachCases

LEMMA SelectType ==
  ASSUME TypeInv, NEW a \in Activities, Select(a)
  PROVE  TypeInv'
<1>1. PICK i \in 1..Len(tabs[a].host) : Change(a, SetCurrentTab(tabs[a], i))
  BY DEF Select
<1> DEFINE U == SetCurrentTab(tabs[a], i)
<1>2. tabs[a] \in Tabs /\ InfoOK(tabs[a]) /\ CurOK(tabs[a]) /\ TabsOK
  BY DEF TypeInv, TabsOK
<1>3. i \in Nat
  BY <1>1
<1>4. Follows(tabs[a], U) /\ CurOK(U)
  BY <1>2, <1>3, SetTab
<1>5. Change(a, U)
  BY <1>1
<1> HIDE DEF U
<1>6. U \in Tabs /\ InfoOK(U)
  BY <1>2, <1>4, InfoFollows DEF Follows
<1>7. TabsOK' /\ CrashOK'
  BY <1>2, <1>4, <1>5, <1>6, ChangeOK
<1> QED
  BY <1>7 DEF Select, TypeInv, RestOK

LEMMA OpenType ==
  ASSUME TypeInv, NEW a \in Activities, Open(a)
  PROVE  TypeInv'
<1> DEFINE U == Initialise(a, NoTabs)
           s == NewSpec(a, Base)
<1>1. s \in Specs /\ plugs \in Nat
  BY NewSpecType, SpecType
<1>2. U \in Tabs /\ InfoOK(U) /\ CurOK(U)
  BY <1>1, NoTabsBare, InitialiseDoes
<1>3. Change(a, U) /\ TabsOK
  BY DEF Open, TypeInv
<1> HIDE DEF U
<1>4. TabsOK' /\ CrashOK'
  BY <1>2, <1>3, ChangeOK
<1>5. specList' = Append(specList, s)
  BY DEF Open
<1> HIDE DEF s
<1> QED
  BY <1>1, <1>4, <1>5 DEF Open, TypeInv, RestOK

LEMMA BackType ==
  ASSUME TypeInv, NEW a \in Activities, Back(a)
  PROVE  TypeInv'
<1> DEFINE U == Destroyed(tabs[a])
<1>1. tabs[a] \in Tabs /\ InfoOK(tabs[a]) /\ CurOK(tabs[a]) /\ TabsOK
  BY DEF TypeInv, TabsOK
<1>2. U \in Tabs /\ InfoOK(U) /\ CurOK(U)
  BY <1>1, DestroyedDoes
<1>3. tabs' = [tabs EXCEPT ![a] = U]
  BY DEF Back
<1> HIDE DEF U
<1>4. TabsOK'
  BY <1>1, <1>2, <1>3, OneTabsOK
<1> QED
  BY <1>4 DEF Back, TypeInv, RestOK, CrashOK

\* disconnect: what is left of the tabs of a.
LEMMA DisconnectDoes ==
  ASSUME NEW T \in Tabs, InfoOK(T), CurOK(T)
  PROVE  LET U == Destroyed([RemoveAllTabs(T) EXCEPT !.commits = FALSE])
         IN U \in Tabs /\ InfoOK(U) /\ CurOK(U) /\ Whole(U) /\ U.info = T.info
<1> DEFINE R == RemoveAllTabs(T)
           V == [R EXCEPT !.commits = FALSE]
<1>1. Follows(T, R) /\ CurOK(R)
  BY RemoveAllDoes
<1> HIDE DEF R
<1>2. R \in Tabs /\ InfoOK(R) /\ R.info = T.info
  BY <1>1, InfoFollows DEF Follows
<1>3. V \in Tabs /\ InfoOK(V) /\ CurOK(V) /\ V.info = T.info
  BY <1>1, <1>2, HandlerEnds
<1> HIDE DEF V
<1>4. /\ Destroyed(V) \in Tabs /\ InfoOK(Destroyed(V)) /\ CurOK(Destroyed(V))
      /\ Whole(Destroyed(V)) /\ Destroyed(V).info = T.info
  BY <1>3, DestroyedDoes
<1> QED
  BY <1>4 DEF V, R

LEMMA DisconnectType ==
  ASSUME TypeInv, NEW a \in Activities, ServerDisconnect(a)
  PROVE  TypeInv'
<1> DEFINE U == Destroyed([RemoveAllTabs(tabs[a]) EXCEPT !.commits = FALSE])
<1>1. tabs[a] \in Tabs /\ InfoOK(tabs[a]) /\ CurOK(tabs[a]) /\ TabsOK
  BY DEF TypeInv, TabsOK
<1>2. U \in Tabs /\ InfoOK(U) /\ CurOK(U)
  BY <1>1, DisconnectDoes
<1>3. tabs' = [tabs EXCEPT ![a] = U]
  BY DEF ServerDisconnect
<1> HIDE DEF U
<1>4. TabsOK'
  BY <1>1, <1>2, <1>3, OneTabsOK
<1>5. CrashOK'
  BY DEF ServerDisconnect, CrashOK, Committed
<1>6. <<>> \in Seq(Devices)
  OBVIOUS
<1> QED
  BY <1>4, <1>5, <1>6 DEF ServerDisconnect, TypeInv, RestOK

LEMMA RecreateType ==
  ASSUME TypeInv, NEW a \in Activities, NEW b \in Activities, NEW killed \in BOOLEAN,
         Recreate(a, b, killed)
  PROVE  TypeInv'
<1> DEFINE D == Destroyed(tabs[a])
           I == Initialise(b, Saved(tabs[a]))
           U == [I EXCEPT !.commits = FALSE]
           s == NewSpec(b, Base)
<1>1. tabs[a] \in Tabs /\ InfoOK(tabs[a]) /\ CurOK(tabs[a]) /\ tabs \in [Activities -> Tabs]
  BY DEF TypeInv, TabsOK
<1>2. D \in Tabs /\ InfoOK(D) /\ CurOK(D)
  BY <1>1, DestroyedDoes
<1>3. s \in Specs /\ plugs \in Nat
  BY NewSpecType, SpecType
<1>4. I \in Tabs /\ InfoOK(I) /\ CurOK(I)
  BY <1>1, <1>3, SavedBare, InitialiseDoes
<1> HIDE DEF I
<1>5. U \in Tabs /\ InfoOK(U) /\ CurOK(U)
  BY <1>4, HandlerEnds
<1>6. tabs' = [tabs EXCEPT ![a] = D, ![b] = U]
  BY DEF Recreate, I
<1>7. a # b
  BY DEF Recreate
<1> HIDE DEF D, U
<1>8. TabsOK'
  <2>1. tabs' \in [Activities -> Tabs]
    BY <1>1, <1>2, <1>5, <1>6
  <2>2. ASSUME NEW c \in Activities PROVE InfoOK(tabs'[c]) /\ CurOK(tabs'[c])
    <3>1. tabs'[c] = IF c = b THEN U ELSE IF c = a THEN D ELSE tabs[c]
      BY <1>1, <1>6, <1>7
    <3>2. InfoOK(tabs[c]) /\ CurOK(tabs[c])
      BY DEF TypeInv, TabsOK
    <3> QED
      BY <1>2, <1>5, <3>1, <3>2
  <2> QED
    BY <2>1, <2>2 DEF TabsOK
<1>9. CrashOK'
  BY DEF Recreate, CrashOK
<1>10. specList' \in Seq(Specs)
  <2>1. specList' = Append(IF killed THEN <<>> ELSE specList, s)
    BY DEF Recreate
  <2> HIDE DEF s
  <2> QED
    BY <1>3, <2>1 DEF TypeInv, RestOK
<1>11. life' \in [Activities -> {"new", "front", "stopped", "gone"}]
  BY DEF Recreate, TypeInv, RestOK
<1> QED
  BY <1>8, <1>9, <1>10, <1>11 DEF Recreate, TypeInv, RestOK

LEMMA TypeStep == ASSUME TypeInv, [Next]_vars PROVE TypeInv'
<1>1. CASE UNCHANGED vars
  BY <1>1 DEF vars, TypeInv, TabsOK, CrashOK, RestOK
<1>2. ASSUME NEW a \in Activities, Stop(a) \/ Start(a) PROVE TypeInv'
  BY <1>2 DEF Stop, Start, TypeInv, TabsOK, CrashOK, RestOK
<1>3. ASSUME NEW d \in Devices, Plug(d) PROVE TypeInv'
  BY <1>3, TabsAssumption DEF Plug, TypeInv, TabsOK, CrashOK, RestOK
<1>4. ASSUME NEW d \in Devices, Unplug(d) PROVE TypeInv'
  BY <1>4 DEF Unplug, TypeInv, TabsOK, CrashOK, RestOK
<1>5. CASE Next
  BY <1>2, <1>3, <1>4, <1>5, AttachType, DetachType, SelectType, OpenType, BackType,
     DisconnectType, RecreateType DEF Next, Act
<1> QED
  BY <1>1, <1>5

(* Whatever the activities, devices and tags, and whether tags are distinct or   *)
(* not, every handler keeps every variable in its type; the current tab is one    *)
(* of the host's, also between the calls of removeTab (addTab, removeTab,         *)
(* removeAllTabs, onTabChanged, initialiseTabHost).                             *)
THEOREM TypeHolds == Spec => []TypeOK
<1>1. Init => TypeInv
  BY TypeInit
<1>2. TypeInv /\ [Next]_vars => TypeInv'
  BY TypeStep
<1>3. TypeInv => TypeOK
  BY TypeInvType
<1> QED
  BY <1>1, <1>2, <1>3, PTL DEF Spec

-----------------------------------------------------------------------------
(* The tabs of a visible activity a, with the record T, against the shared list *)
(* q and the devices K its manager has announced.                             *)

Distinct(q) == \A i, j \in 1..Len(q) : q[i] = q[j] => i = j
BaseFirst(q) == q # <<>> => q[1].dev = Base

\* Its own tabs are its own specs of the list, one for the main view and one for
\* each device, and the map has each of them.
MappedIn(a, T, q, K) ==
  /\ Own(a, T.host) = Own(a, q)
  /\ DevicesOf(Own(a, q)) = <<Base>> \o K
  /\ \A s : Contains(Own(a, q), s) => T.info[TagOf(s)] = s

\* The first tab is a main view; the last tab has the tag of the current one, and
\* is what the map holds under it if the current tab is a's own or a main view.
CurrentIn(a, T) ==
  /\ T.host # <<>> /\ T.host[1].dev = Base
  /\ T.last # NoSpec => TagOf(T.last) = TagOf(T.host[T.cur])
  /\ T.host[T.cur].act = a \/ T.host[T.cur].dev = Base =>
       T.last = T.info[TagOf(T.host[T.cur])]

LEMMA RemovedDistinct ==
  ASSUME NEW S, NEW q \in Seq(S), NEW e, Distinct(q)
  PROVE  /\ Distinct(RemoveFirst(q, e))
         /\ \A x : Contains(RemoveFirst(q, e), x) => Contains(q, x) /\ x # e
<1>1. CASE ~Contains(q, e)
  <2>1. RemoveFirst(q, e) = q
    BY <1>1, RemoveFirstType
  <2> QED
    BY <1>1, <2>1 DEF Contains
<1>2. CASE Contains(q, e)
  <2> DEFINE n == Len(q)
  <2>1. PICK p \in 1..n : First(q, e, p)
    BY <1>2, FirstExists
  <2> DEFINE r == RemoveAt(q, p)
  <2>2. /\ RemoveFirst(q, e) = r /\ r \in Seq(S) /\ Len(r) = n - 1
        /\ \A i \in 1..(n - 1) : r[i] = IF i < p THEN q[i] ELSE q[i + 1]
    BY <2>1, RemovedFirst
  <2>3. q[p] = e /\ n \in Nat /\ \A i, j \in 1..n : q[i] = q[j] => i = j
    BY <2>1 DEF First, Distinct
  <2>4. \A x : Contains(q, x) <=> \E i \in 1..n : q[i] = x
    BY DEF Contains
  <2> HIDE DEF r, n
  <2> DEFINE at(i) == IF i < p THEN i ELSE i + 1
  <2>5. /\ \A i \in 1..(n - 1) : at(i) \in 1..n /\ at(i) # p /\ r[i] = q[at(i)]
        /\ \A i, j \in 1..(n - 1) : at(i) = at(j) => i = j
    BY <2>1, <2>2, <2>3, SMTT(40)
  <2> HIDE DEF at
  <2>6. Distinct(r)
    <3>1. ASSUME NEW i \in 1..(n - 1), NEW j \in 1..(n - 1), r[i] = r[j] PROVE i = j
      <4>1. /\ at(i) \in 1..n /\ at(j) \in 1..n
            /\ q[at(i)] = q[at(j)]
        BY <2>5, <3>1
      <4>2. at(i) = at(j)
        BY <2>3, <4>1
      <4> QED
        BY <2>5, <4>2
    <3>2. Len(r) = n - 1
      BY <2>2
    <3> QED
      BY <3>1, <3>2 DEF Distinct
  <2>7. ASSUME NEW x, Contains(r, x) PROVE Contains(q, x) /\ x # e
    <3>1. PICK i \in 1..(n - 1) : r[i] = x
      BY <2>2, <2>7 DEF Contains
    <3>2. at(i) \in 1..n /\ at(i) # p /\ q[at(i)] = x
      BY <2>5, <3>1
    <3>3. Contains(q, x)
      BY <2>4, <3>2
    <3>4. x # e
      BY <2>1, <2>3, <3>2
    <3> QED
      BY <3>3, <3>4
  <2> QED
    BY <2>2, <2>6, <2>7
<1> QED
  BY <1>1, <1>2

LEMMA BaseFirstRemoved ==
  ASSUME NEW q \in Seq(Specs), NEW s \in Specs, s.dev # Base, BaseFirst(q)
  PROVE  BaseFirst(RemoveFirst(q, s)) /\ (q # <<>> => RemoveFirst(q, s) # <<>>)
<1>1. CASE ~Contains(q, s)
  BY <1>1, RemoveFirstType
<1>2. CASE Contains(q, s)
  <2> DEFINE n == Len(q)
  <2>1. PICK p \in 1..n : First(q, s, p)
    BY <1>2, FirstExists
  <2> DEFINE r == RemoveAt(q, p)
  <2>2. /\ RemoveFirst(q, s) = r /\ r \in Seq(Specs) /\ Len(r) = n - 1
        /\ \A i \in 1..(n - 1) : r[i] = IF i < p THEN q[i] ELSE q[i + 1]
    BY <2>1, RemovedFirst
  <2>3. p # 1
    BY <2>1 DEF First, BaseFirst
  <2>4. n \in Nat /\ q # <<>>
    BY <2>1
  <2> HIDE DEF r
  <2>5. r # <<>> /\ 1 \in 1..(n - 1)
    <3> HIDE DEF n
    <3> QED
      BY <2>1, <2>2, <2>3, <2>4
  <2> HIDE DEF n
  <2>6. r[1] = q[1]
    BY <2>1, <2>2, <2>3, <2>5
  <2> QED
    BY <2>2, <2>4, <2>5, <2>6 DEF BaseFirst
<1> QED
  BY <1>1, <1>2

\* The devices of the tabs: the main view, then K.
LEMMA WithBase ==
  ASSUME NEW K \in Seq(Devices)
  PROVE  /\ <<Base>> \o K \in Seq(Owners) /\ Len(<<Base>> \o K) = Len(K) + 1
         /\ (<<Base>> \o K)[1] = Base /\ \A i \in 1..Len(K) : (<<Base>> \o K)[i + 1] = K[i]
<1>1. <<Base>> \in Seq(Owners) /\ Len(<<Base>>) = 1 /\ <<Base>>[1] = Base
  BY SpecType
<1>2. K \in Seq(Owners) /\ Len(K) \in Nat
  BY SpecType
<1>3. /\ <<Base>> \o K \in Seq(Owners) /\ Len(<<Base>> \o K) = Len(<<Base>>) + Len(K)
      /\ \A i \in 1..(Len(<<Base>>) + Len(K)) :
           (<<Base>> \o K)[i] = IF i <= Len(<<Base>>) THEN <<Base>>[i] ELSE K[i - Len(<<Base>>)]
  BY <1>1, <1>2, ConcatProperties
<1> DEFINE w == <<Base>> \o K
           b == <<Base>>
           n == Len(K)
<1> HIDE DEF w, b, n
<1>4. w \in Seq(Owners) /\ Len(w) = 1 + n
      /\ \A i \in 1..(1 + n) : w[i] = IF i <= 1 THEN Base ELSE K[i - 1]
  BY <1>1, <1>3 DEF w, b, n
<1>5. \A i \in 1..n : i + 1 \in 1..(1 + n) /\ ~(i + 1 <= 1) /\ i + 1 - 1 = i
  BY <1>2 DEF n
<1>6. Len(w) = n + 1 /\ w[1] = Base /\ \A i \in 1..n : w[i + 1] = K[i]
  BY <1>2, <1>4, <1>5 DEF n
<1> QED
  BY <1>4, <1>6 DEF w, n

LEMMA WithBaseContains ==
  ASSUME NEW K \in Seq(Devices)
  PROVE  /\ \A e : Contains(<<Base>> \o K, e) <=> e = Base \/ Contains(K, e)
         /\ Distinct(K) => Distinct(<<Base>> \o K)
<1> DEFINE w == <<Base>> \o K
           n == Len(K)
<1>1. n \in Nat /\ \A i \in 1..n : K[i] \in Devices
  OBVIOUS
<1>2. Len(w) = n + 1 /\ w[1] = Base /\ \A i \in 1..n : w[i + 1] = K[i]
  BY WithBase
<1> HIDE DEF w
<1>3. \A e : Contains(w, e) <=> \E i \in 1..(n + 1) : w[i] = e
  BY <1>2 DEF Contains
<1>4. \A e : Contains(K, e) <=> \E i \in 1..n : K[i] = e
  BY DEF Contains
<1>7. Distinct(K) => \A i, j \in 1..n : K[i] = K[j] => i = j
  BY DEF Distinct
<1> HIDE DEF n
<1>5. \A i \in 1..(n + 1) : i = 1 \/ (i - 1 \in 1..n /\ w[i] = K[i - 1])
  <2> SUFFICES ASSUME NEW i \in 1..(n + 1), i # 1 PROVE i - 1 \in 1..n /\ w[i] = K[i - 1]
    OBVIOUS
  <2>1. i - 1 \in 1..n /\ i - 1 + 1 = i
    BY <1>1
  <2> QED
    BY <1>2, <2>1
<1>6. ASSUME NEW e PROVE Contains(w, e) <=> e = Base \/ Contains(K, e)
  <2>1. ASSUME Contains(w, e) PROVE e = Base \/ Contains(K, e)
    BY <1>2, <1>3, <1>4, <1>5, <2>1
  <2>2. ASSUME e = Base PROVE Contains(w, e)
    BY <1>1, <1>2, <1>3, <2>2
  <2>3. ASSUME Contains(K, e) PROVE Contains(w, e)
    <3>1. PICK i \in 1..n : K[i] = e
      BY <1>4, <2>3
    <3>2. i + 1 \in 1..(n + 1) /\ w[i + 1] = e
      BY <1>1, <1>2, <3>1
    <3> QED
      BY <1>3, <3>2
  <2> QED
    BY <2>1, <2>2, <2>3
<1>8. ASSUME Distinct(K), NEW i \in 1..(n + 1), NEW j \in 1..(n + 1), w[i] = w[j] PROVE i = j
  <2>1. i = 1 => j = 1
    BY <1>1, <1>2, <1>5, <1>8, SpecType
  <2>2. j = 1 => i = 1
    BY <1>1, <1>2, <1>5, <1>8, SpecType
  <2>3. CASE i # 1 /\ j # 1
    <3>1. i - 1 = j - 1
      BY <1>5, <1>7, <1>8, <2>3
    <3> QED
      BY <3>1
  <2> QED
    BY <2>1, <2>2, <2>3
<1>9. Distinct(K) => Distinct(w)
  BY <1>2, <1>8 DEF Distinct
<1> QED
  BY <1>6, <1>9 DEF w

LEMMA WithBaseAppended ==
  ASSUME NEW K \in Seq(Devices), NEW d \in Devices
  PROVE  <<Base>> \o Append(K, d) = Append(<<Base>> \o K, d)
<1> DEFINE L == Append(K, d)
           w == <<Base>> \o K
           l == <<Base>> \o L
           r == Append(w, d)
           n == Len(K)
<1>1. L \in Seq(Devices) /\ Len(L) = n + 1 /\ L[n + 1] = d /\ n \in Nat
      /\ \A i \in 1..n : L[i] = K[i]
  OBVIOUS
<1> HIDE DEF L
<1>2. l \in Seq(Owners) /\ Len(l) = n + 1 + 1 /\ l[1] = Base /\ \A i \in 1..(n + 1) : l[i + 1] = L[i]
  BY <1>1, WithBase
<1>3. w \in Seq(Owners) /\ Len(w) = n + 1 /\ w[1] = Base /\ \A i \in 1..n : w[i + 1] = K[i]
  BY WithBase
<1> HIDE DEF w, l, n
<1>4. r \in Seq(Owners) /\ Len(r) = n + 1 + 1 /\ r[n + 1 + 1] = d
      /\ \A i \in 1..(n + 1) : r[i] = w[i]
  BY <1>1, <1>3, SpecType
<1> HIDE DEF r
<1>5. ASSUME NEW i \in 1..(n + 1 + 1) PROVE l[i] = r[i]
  <2>1. CASE i = 1
    BY <1>1, <1>2, <1>3, <1>4, <2>1
  <2>2. CASE i = n + 1 + 1
    BY <1>1, <1>2, <1>4, <2>2
  <2>3. CASE i # 1 /\ i # n + 1 + 1
    <3>1. i - 1 \in 1..n /\ i - 1 \in 1..(n + 1) /\ i \in 1..(n + 1) /\ i - 1 + 1 = i
      BY <1>1, <2>3
    <3>2. l[i] = L[i - 1]
      BY <1>2, <3>1
    <3>3. L[i - 1] = K[i - 1]
      BY <1>1, <3>1
    <3>4. w[i] = K[i - 1]
      BY <1>3, <3>1
    <3>5. r[i] = w[i]
      BY <1>4, <3>1
    <3> QED
      BY <3>2, <3>3, <3>4, <3>5
  <2> QED
    BY <2>1, <2>2, <2>3
<1>6. l = r
  BY <1>2, <1>4, <1>5
<1> QED
  BY <1>6 DEF l, r, w, L

LEMMA WithBaseRemoved ==
  ASSUME NEW K \in Seq(Devices), NEW d \in Devices, Contains(K, d)
  PROVE  RemoveFirst(<<Base>> \o K, d) = <<Base>> \o RemoveFirst(K, d)
<1> DEFINE w == <<Base>> \o K
           n == Len(K)
<1>1. w \in Seq(Owners) /\ Len(w) = n + 1 /\ w[1] = Base /\ \A i \in 1..n : w[i + 1] = K[i]
  BY WithBase
<1> HIDE DEF w
<1>2. PICK p \in 1..n : First(K, d, p)
  BY FirstExists
<1>3. n \in Nat
  OBVIOUS
<1> DEFINE L == RemoveAt(K, p)
<1>4. /\ RemoveFirst(K, d) = L /\ L \in Seq(Devices) /\ Len(L) = n - 1
      /\ \A i \in 1..(n - 1) : L[i] = IF i < p THEN K[i] ELSE K[i + 1]
  BY <1>2, RemovedFirst
<1> HIDE DEF L
<1> DEFINE m == p + 1
           r == RemoveAt(w, m)
           l == <<Base>> \o L
<1>5. /\ l \in Seq(Owners) /\ Len(l) = n - 1 + 1 /\ l[1] = Base
      /\ \A i \in 1..(n - 1) : l[i + 1] = L[i]
  BY <1>4, WithBase
<1> HIDE DEF n, l
<1>6. First(w, d, m)
  <2>1. m \in 1..Len(w) /\ w[m] = d
    BY <1>1, <1>2, <1>3 DEF First
  <2>2. ASSUME NEW i \in 1..(m - 1) PROVE w[i] # d
    <3>1. CASE i = 1
      BY <1>1, <3>1, SpecType
    <3>2. CASE i # 1
      <4>1. i - 1 \in 1..n /\ i - 1 \in 1..(p - 1) /\ i - 1 + 1 = i
        BY <1>2, <1>3, <3>2
      <4> QED
        BY <1>1, <1>2, <4>1 DEF First
    <3> QED
      BY <3>1, <3>2
  <2> QED
    BY <2>1, <2>2 DEF First
<1>7. /\ RemoveFirst(w, d) = r /\ r \in Seq(Owners) /\ Len(r) = n
      /\ \A i \in 1..n : r[i] = IF i < m THEN w[i] ELSE w[i + 1]
  <2>1. /\ RemoveFirst(w, d) = RemoveAt(w, m)
        /\ RemoveAt(w, m) \in Seq(Owners) /\ Len(RemoveAt(w, m)) = Len(w) - 1
        /\ \A i \in 1..(Len(w) - 1) : RemoveAt(w, m)[i] = IF i < m THEN w[i] ELSE w[i + 1]
    BY <1>1, <1>6, RemovedFirst
  <2>2. Len(w) - 1 = n
    BY <1>1, <1>3
  <2> HIDE DEF m
  <2> QED
    BY <2>1, <2>2
<1> HIDE DEF r
<1>8. ASSUME NEW i \in 1..n PROVE l[i] = r[i]
  <2>1. CASE i = 1
    BY <1>1, <1>2, <1>5, <1>7, <2>1
  <2>2. CASE i # 1
    <3>1. /\ i - 1 \in 1..(n - 1) /\ i - 1 \in 1..n /\ i - 1 + 1 = i /\ i \in 1..n
          /\ (i < m <=> i - 1 < p)
      BY <1>2, <1>3, <2>2
    <3>2. l[i] = IF i - 1 < p THEN K[i - 1] ELSE K[i]
      BY <1>4, <1>5, <3>1
    <3>3. r[i] = IF i < m THEN K[i - 1] ELSE K[i]
      BY <1>1, <1>7, <3>1
    <3> QED
      BY <3>1, <3>2, <3>3
  <2> QED
    BY <2>1, <2>2
<1>9. l = r
  <2>1. Len(l) = n
    BY <1>3, <1>5
  <2> QED
    BY <1>5, <1>7, <1>8, <2>1
<1> QED
  BY <1>4, <1>7, <1>9 DEF l, w

\* The specs that MappedIn speaks of.
OwnSpec(a, T, q, K, s) ==
  /\ s \in Specs /\ s.act = a /\ Contains(q, s) /\ T.info[TagOf(s)] = s
  /\ s.dev = Base \/ Contains(K, s.dev)
SpecOf(o, T, d) == \E s \in Specs : Contains(o, s) /\ s.dev = d /\ T.info[Tag[d]] = s

LEMMA MappedSpecs ==
  ASSUME NEW a, NEW T, NEW q \in Seq(Specs), NEW K \in Seq(Devices), MappedIn(a, T, q, K)
  PROVE  /\ \A s : Contains(Own(a, q), s) => OwnSpec(a, T, q, K, s)
         /\ \A d : d = Base \/ Contains(K, d) => SpecOf(Own(a, q), T, d)
<1> DEFINE o == Own(a, q)
           ds == DevicesOf(o)
<1>1. o \in Seq(Specs)
  BY OwnFolds
<1>2. ds = <<Base>> \o K /\ \A s : Contains(o, s) => T.info[TagOf(s)] = s
  BY DEF MappedIn
<1>3. \A s : Contains(o, s) => Contains(q, s) /\ s.act = a
  BY OwnContains
<1> HIDE DEF o
<1>4. Len(ds) = Len(o) /\ \A i \in 1..Len(o) : ds[i] = o[i].dev
  BY <1>1, DevicesType
<1>5. \A e : Contains(ds, e) <=> e = Base \/ Contains(K, e)
  BY <1>2, WithBaseContains
<1> HIDE DEF ds
<1>6. ASSUME NEW s, Contains(o, s)
      PROVE  s \in Specs /\ (s.dev = Base \/ Contains(K, s.dev))
  <2>1. PICK i \in 1..Len(o) : o[i] = s
    BY <1>6 DEF Contains
  <2>2. Contains(ds, s.dev)
    BY <1>4, <2>1 DEF Contains
  <2> QED
    BY <1>1, <1>5, <2>1, <2>2
<1>7. ASSUME NEW d, d = Base \/ Contains(K, d)
      PROVE  SpecOf(o, T, d)
  <2>1. PICK i \in 1..Len(ds) : ds[i] = d
    BY <1>5, <1>7 DEF Contains
  <2> DEFINE s == o[i]
  <2>2. s \in Specs /\ Contains(o, s) /\ s.dev = d
    BY <1>1, <1>4, <2>1 DEF Contains
  <2> HIDE DEF s
  <2>3. T.info[Tag[d]] = s
    BY <1>2, <2>2 DEF TagOf
  <2> QED
    BY <2>2, <2>3 DEF SpecOf
<1>8. \A s : Contains(o, s) => OwnSpec(a, T, q, K, s)
  BY <1>2, <1>3, <1>6 DEF OwnSpec
<1> QED
  BY <1>7, <1>8 DEF o

\* A call that changes neither.
LEMMA InTabsSame ==
  ASSUME NEW a, NEW T, NEW U, NEW q, NEW K, U.host = T.host, U.info = T.info
  PROVE  /\ MappedIn(a, T, q, K) => MappedIn(a, U, q, K)
         /\ U.cur = T.cur /\ U.last = T.last /\ CurrentIn(a, T) => CurrentIn(a, U)
  BY DEF MappedIn, CurrentIn

\* Another activity adds a spec to the list, or removes one of its own.
LEMMA OthersKeep ==
  ASSUME NEW a, NEW T, NEW q \in Seq(Specs), NEW K, NEW s \in Specs, s.act # a,
         MappedIn(a, T, q, K)
  PROVE  MappedIn(a, T, Append(q, s), K) /\ MappedIn(a, T, RemoveFirst(q, s), K)
<1>1. Own(a, Append(q, s)) = Own(a, q)
  BY OwnAppended
<1>2. Own(a, RemoveFirst(q, s)) = Own(a, q)
  BY OwnRemoved
<1> QED
  BY <1>1, <1>2 DEF MappedIn

\* The current tab.
LEMMA CurrentSpec ==
  ASSUME NEW T \in Tabs, CurOK(T), T.host # <<>>
  PROVE  /\ T.cur \in 1..Len(T.host) /\ T.host[T.cur] \in Specs /\ Contains(T.host, T.host[T.cur])
         /\ TagOf(T.host[T.cur]) \in Tags
<1>1. T.cur \in 1..Len(T.host) /\ T.host \in Seq(Specs)
  BY TabsType DEF CurOK
<1>2. T.host[T.cur] \in Specs
  BY <1>1
<1> QED
  BY <1>1, <1>2, SpecType DEF Contains

\* A device is attached.
LEMMA AttachKeeps ==
  ASSUME DistinctTags, NEW a, NEW T \in Tabs, InfoOK(T), CurOK(T),
         NEW q \in Seq(Specs), NEW K \in Seq(Devices), NEW s \in Specs,
         s.act = a, s.dev \in Devices, ~Contains(K, s.dev),
         MappedIn(a, T, q, K), CurrentIn(a, T)
  PROVE  /\ MappedIn(a, AddTab(T, s), Append(q, s), Append(K, s.dev))
         /\ CurrentIn(a, AddTab(T, s))
<1> DEFINE U == AddTab(T, s)
           o == Own(a, q)
           c == T.host[T.cur]
<1>1. T.host # <<>> /\ T.host \in Seq(Specs) /\ T.cur \in 1..Len(T.host) /\ c \in Specs
      /\ Contains(T.host, c) /\ TagOf(c) \in Tags
  BY TabsType, CurrentSpec DEF CurrentIn
<1>2. /\ U.host = Append(T.host, s) /\ U.info = [T.info EXCEPT ![TagOf(s)] = s]
      /\ U.cur = T.cur /\ U.last = T.last
  <2>1. T.cur # 0
    BY <1>1
  <2> QED
    BY <2>1, AddTabDoes
<1> HIDE DEF U
<1>3. Own(a, U.host) = Append(o, s) /\ Own(a, Append(q, s)) = Append(o, s) /\ o \in Seq(Specs)
  BY <1>1, <1>2, OwnAppended, OwnFolds DEF MappedIn
<1>4. DevicesOf(Append(o, s)) = <<Base>> \o Append(K, s.dev)
  <2>1. DevicesOf(Append(o, s)) = Append(DevicesOf(o), s.dev)
    BY <1>3, DevicesAppended
  <2>2. <<Base>> \o Append(K, s.dev) = Append(<<Base>> \o K, s.dev)
    BY WithBaseAppended
  <2> QED
    BY <2>1, <2>2 DEF MappedIn
<1> HIDE DEF c
<1>5. \A x \in Specs : x.dev = Base \/ Contains(K, x.dev) => TagOf(x) # TagOf(s)
  <2> SUFFICES ASSUME NEW x \in Specs, x.dev = Base \/ Contains(K, x.dev)
               PROVE  TagOf(x) # TagOf(s)
    OBVIOUS
  <2>1. CASE x.dev = Base
    BY <2>1, SpecType DEF TagOf
  <2>2. CASE Contains(K, x.dev)
    <3>1. x.dev \in Devices
      BY <2>2 DEF Contains
    <3> QED
      BY <2>2, <3>1 DEF TagOf, DistinctTags
  <2> QED
    BY <2>1, <2>2
<1>6. \A x \in Specs : TagOf(x) # TagOf(s) => U.info[TagOf(x)] = T.info[TagOf(x)]
  BY <1>2, TabsType, SpecType
<1>7. U.info[TagOf(s)] = s
  BY <1>2, TabsType, SpecType
<1>8. \A x : Contains(o, x) =>
        /\ x \in Specs /\ x.act = a /\ Contains(q, x) /\ T.info[TagOf(x)] = x
        /\ x.dev = Base \/ Contains(K, x.dev)
  <2>1. \A x : Contains(o, x) => OwnSpec(a, T, q, K, x)
    BY MappedSpecs
  <2> HIDE DEF o
  <2> QED
    BY <2>1 DEF OwnSpec
<1>9. ASSUME NEW x, Contains(Append(o, s), x) PROVE U.info[TagOf(x)] = x
  <2>1. Contains(o, x) \/ s = x
    BY <1>3, <1>9, ContainsAppended
  <2>2. CASE s = x
    BY <1>7, <2>2
  <2>3. CASE Contains(o, x)
    BY <1>5, <1>6, <1>8, <2>3
  <2> QED
    BY <2>1, <2>2, <2>3
<1>10. MappedIn(a, U, Append(q, s), Append(K, s.dev))
  BY <1>3, <1>4, <1>9 DEF MappedIn
<1>11. U.host[U.cur] = c /\ U.host[1] = T.host[1] /\ U.host # <<>>
  BY <1>1, <1>2 DEF c
<1>12. ASSUME c.act = a \/ c.dev = Base PROVE TagOf(c) # TagOf(s)
  <2>1. CASE c.dev = Base
    BY <1>1, <1>5, <2>1
  <2>2. CASE c.act = a
    <3>1. Contains(Own(a, T.host), c)
      BY <1>1, <2>2, OwnContains
    <3>2. Contains(o, c)
      BY <3>1 DEF MappedIn
    <3> QED
      BY <1>5, <1>8, <3>2
  <2> QED
    BY <1>12, <2>1, <2>2
<1>13. CurrentIn(a, U)
  <2>1. T.last # NoSpec => TagOf(T.last) = TagOf(c)
    BY DEF CurrentIn, c
  <2>2. c.act = a \/ c.dev = Base => U.last = U.info[TagOf(c)]
    BY <1>1, <1>2, <1>6, <1>12 DEF CurrentIn, c
  <2> QED
    BY <1>2, <1>11, <2>1, <2>2 DEF CurrentIn
<1> QED
  BY <1>10, <1>13 DEF U

\* A device is detached.
LEMMA DetachKeeps ==
  ASSUME NEW a, NEW T \in Tabs, InfoOK(T), CurOK(T),
         NEW q \in Seq(Specs), NEW K \in Seq(Devices), Distinct(K), BaseFirst(q),
         NEW d \in Devices, Contains(K, d),
         MappedIn(a, T, q, K)
  PROVE  LET s == T.info[Tag[d]]
             r == RemoveFirst(q, s)
         IN /\ s \in Specs /\ s.dev = d /\ s.act = a /\ r \in Seq(Specs) /\ r # <<>>
            /\ MappedIn(a, RemoveTab(T, s, r), r, RemoveFirst(K, d))
            /\ CurrentIn(a, RemoveTab(T, s, r))
<1> DEFINE s == T.info[Tag[d]]
           r == RemoveFirst(q, s)
           U == RemoveTab(T, s, r)
           o == Own(a, q)
           info == [T.info EXCEPT ![TagOf(s)] = NoSpec]
<1>1. \A x : Contains(o, x) =>
        /\ x \in Specs /\ x.act = a /\ Contains(q, x) /\ T.info[TagOf(x)] = x
        /\ x.dev = Base \/ Contains(K, x.dev)
  <2>1. \A x : Contains(o, x) => OwnSpec(a, T, q, K, x)
    BY MappedSpecs
  <2> HIDE DEF o
  <2> QED
    BY <2>1 DEF OwnSpec
<1>2. PICK x \in Specs : Contains(o, x) /\ x.dev = d /\ T.info[Tag[d]] = x
  <2>1. SpecOf(o, T, d)
    BY MappedSpecs
  <2> HIDE DEF o
  <2> QED
    BY <2>1 DEF SpecOf
<1>3. s = x
  BY <1>2
<1>4. s \in Specs /\ s.dev = d /\ s.act = a /\ Contains(o, s) /\ T.info[Tag[d]] = s
  BY <1>1, <1>2, <1>3
<1> HIDE DEF s
<1>5. r \in Seq(Specs) /\ o \in Seq(Specs)
  BY RemoveFirstType, OwnFolds
<1>6. Own(a, r) = RemoveFirst(o, s)
  BY <1>4, OwnRemoved
<1>7. \A i \in 1..Len(o) : o[i].dev = s.dev => o[i] = s
  <2> SUFFICES ASSUME NEW i \in 1..Len(o), o[i].dev = d PROVE o[i] = s
    BY <1>4
  <2>1. Contains(o, o[i])
    BY DEF Contains
  <2>2. T.info[TagOf(o[i])] = o[i]
    BY <1>1, <2>1
  <2> QED
    BY <1>4, <2>2 DEF TagOf
<1> HIDE DEF r
<1>8. /\ InfoOK(U) /\ U.host = r /\ U.cur = Len(r) /\ U.info = info
      /\ r # <<>> => U.last = info[TagOf(r[Len(r)])]
  <2>1. Rebuilt(T, info, r, U)
    BY <1>4, <1>5, RemoveTabDoes
  <2> QED
    BY <2>1, Zenon DEF Rebuilt
<1> HIDE DEF U
<1>9. Distinct(o)
  <2>1. Distinct(<<Base>> \o K)
    BY WithBaseContains
  <2>2. Len(DevicesOf(o)) = Len(o) /\ \A i \in 1..Len(o) : DevicesOf(o)[i] = o[i].dev
    BY <1>5, DevicesType
  <2>3. Distinct(DevicesOf(o))
    BY <2>1 DEF MappedIn
  <2> DEFINE ds == DevicesOf(o)
  <2> HIDE DEF ds, o
  <2> QED
    BY <2>2, <2>3 DEF Distinct, ds
<1>10. \A y : Contains(RemoveFirst(o, s), y) => Contains(o, y) /\ y # s
  BY <1>5, <1>9, RemovedDistinct
<1>11. DevicesOf(RemoveFirst(o, s)) = <<Base>> \o RemoveFirst(K, d)
  <2>1. DevicesOf(RemoveFirst(o, s)) = RemoveFirst(DevicesOf(o), s.dev)
    BY <1>4, <1>5, <1>7, DevicesRemoved
  <2>2. RemoveFirst(<<Base>> \o K, d) = <<Base>> \o RemoveFirst(K, d)
    BY WithBaseRemoved
  <2> QED
    BY <1>4, <2>1, <2>2 DEF MappedIn
<1>12. ASSUME NEW y, Contains(RemoveFirst(o, s), y) PROVE U.info[TagOf(y)] = y
  <2>1. y \in Specs /\ T.info[TagOf(y)] = y /\ y # s
    BY <1>1, <1>10, <1>12
  <2>2. TagOf(y) # TagOf(s)
    BY <1>4, <2>1 DEF TagOf
  <2> QED
    BY <1>8, <2>1, <2>2, TabsType, SpecType
<1>13. MappedIn(a, U, r, RemoveFirst(K, d))
  BY <1>6, <1>8, <1>11, <1>12 DEF MappedIn
<1>14. r # <<>>
  <2>1. RemoveFirst(K, d) \in Seq(Devices)
    BY RemoveFirstType
  <2>4. SpecOf(Own(a, r), U, Base)
    BY <1>5, <1>13, <2>1, MappedSpecs
  <2>2. PICK B \in Specs : Contains(Own(a, r), B)
    BY <2>4 DEF SpecOf
  <2>3. Contains(r, B)
    BY <1>5, <2>2, OwnContains
  <2> QED
    BY <2>3 DEF Contains
<1>15. BaseFirst(r)
  <2>1. s.dev # Base
    BY <1>4, SpecType
  <2> QED
    BY <1>4, <2>1, BaseFirstRemoved DEF r
<1>16. U.host[U.cur] = r[Len(r)] /\ TagOf(r[Len(r)]) \in Tags /\ U.last = U.info[TagOf(r[Len(r)])]
  <2>1. r[Len(r)] \in Specs
    BY <1>5, <1>14
  <2> QED
    BY <1>8, <1>14, <2>1, SpecType
<1>17. CurrentIn(a, U)
  BY <1>8, <1>14, <1>15, <1>16 DEF CurrentIn, BaseFirst, InfoOK
<1> QED
  BY <1>4, <1>5, <1>13, <1>14, <1>17 DEF U, r, s

\* The user selects a tab.
LEMMA SelectKeeps ==
  ASSUME NEW a, NEW T \in Tabs, InfoOK(T), CurrentIn(a, T), NEW i \in 1..Len(T.host),
         NEW q, NEW K, MappedIn(a, T, q, K)
  PROVE  MappedIn(a, SetCurrentTab(T, i), q, K) /\ CurrentIn(a, SetCurrentTab(T, i))
<1> DEFINE U == SetCurrentTab(T, i)
<1>1. i \in Nat
  BY TabsType
<1>2. /\ Follows(T, U) /\ U.host = T.host /\ U.cur = i /\ (i = T.cur => U = T)
      /\ i # T.cur => U.last = T.info[TagOf(T.host[i])]
  BY <1>1, SetTab
<1> HIDE DEF U
<1>3. U.info = T.info /\ InfoOK(U)
  BY <1>2, InfoFollows DEF Follows
<1>4. MappedIn(a, U, q, K)
  BY <1>2, <1>3, InTabsSame
<1>5. CASE i = T.cur
  BY <1>2, <1>4, <1>5 DEF U
<1>6. CASE i # T.cur
  <2>1. TagOf(T.host[i]) \in Tags
    BY TabsType, SpecType
  <2>2. CurrentIn(a, U)
    BY <1>2, <1>3, <1>6, <2>1 DEF CurrentIn, InfoOK
  <2> QED
    BY <1>4, <2>2 DEF U
<1> QED
  BY <1>5, <1>6

\* onCreate.
LEMMA InitialiseKeeps ==
  ASSUME NEW T, Bare(T), NEW a \in Activities, plugs \in Nat,
         NEW q \in Seq(Specs), Own(a, q) = <<>>
  PROVE  LET U == Initialise(a, T)
         IN MappedIn(a, U, Append(q, NewSpec(a, Base)), <<>>) /\ CurrentIn(a, U)
<1> DEFINE U == Initialise(a, T)
           s == NewSpec(a, Base)
<1>1. /\ s \in Specs /\ U.host = <<s>> /\ U.cur = 1 /\ U.last = s
      /\ U.info = [T.info EXCEPT ![Tag[Base]] = s]
  BY InitialiseDoes
<1>2. s.act = a /\ s.dev = Base /\ TagOf(s) = Tag[Base] /\ Tag[Base] \in Tags
  BY SpecType DEF NewSpec, TagOf
<1> HIDE DEF U, s
<1>3. Own(a, <<s>>) = <<s>> /\ Own(a, Append(q, s)) = <<s>>
  <2> DEFINE e == <<>>
  <2>1. Append(e, s) = <<s>>
    OBVIOUS
  <2>2. e \in Seq(Specs)
    OBVIOUS
  <2>3. Own(a, e) = e /\ Own(a, q) = e
    BY OwnEmpty
  <2> HIDE DEF e
  <2>4. s \in Specs /\ s.act = a
    BY <1>1, <1>2
  <2>5. Own(a, Append(e, s)) = Append(Own(a, e), s)
    BY <2>2, <2>4, OwnAdded
  <2>6. Own(a, Append(q, s)) = Append(Own(a, q), s)
    BY <2>4, OwnAdded
  <2> QED
    BY <2>1, <2>3, <2>5, <2>6
<1>4. DevicesOf(<<s>>) = <<Base>> \o <<>>
  <2>1. Len(<<s>>) = 1 /\ <<s>>[1] = s
    OBVIOUS
  <2>2. DevicesOf(<<s>>) = [i \in 1..1 |-> Base]
    BY <1>2, <2>1 DEF DevicesOf
  <2> DEFINE e == <<>>
             w == <<Base>> \o e
  <2>3. e \in Seq(Devices) /\ Len(e) = 0
    OBVIOUS
  <2> HIDE DEF e
  <2>4. w \in Seq(Owners) /\ Len(w) = Len(e) + 1 /\ w[1] = Base
    BY <2>3, WithBase
  <2> HIDE DEF w
  <2>5. w = [i \in 1..1 |-> Base]
    BY <2>3, <2>4
  <2> QED
    BY <2>2, <2>5 DEF w, e
<1>5. U.info[TagOf(s)] = s
  BY <1>1, <1>2 DEF Bare, Tabs
<1>6. \A x : Contains(<<s>>, x) => x = s
  BY DEF Contains
<1>7. MappedIn(a, U, Append(q, s), <<>>)
  BY <1>1, <1>3, <1>4, <1>5, <1>6 DEF MappedIn
<1>8. U.host[1] = s /\ U.host # <<>>
  BY <1>1
<1>9. CurrentIn(a, U)
  BY <1>1, <1>2, <1>5, <1>8 DEF CurrentIn
<1> QED
  BY <1>7, <1>9 DEF U, s

-----------------------------------------------------------------------------
(* The books of all activities.                                              *)

Alone == \A a, b \in Activities : Visible(a) /\ Visible(b) => a = b
Named(a) == \A t \in Tags : tabs[a].info[t] # NoSpec => tabs[a].info[t].act = a

Book(a) ==
  /\ life[a] = "new" => a \notin managed /\ known[a] = <<>> /\ Own(a, specList) = <<>>
  /\ Named(a) /\ Distinct(known[a])
  /\ Visible(a) => MappedIn(a, tabs[a], specList, known[a]) /\ CurrentIn(a, tabs[a])

Books ==
  /\ Alone
  /\ BaseFirst(specList) /\ (managed # {} => specList # <<>>)
  /\ \A a \in Activities : Book(a)
BookInv == crash = "none" => Books

LEMMA BookInit == ASSUME Init PROVE BookInv
<1>1. \A a \in Activities : ~Visible(a)
  BY DEF Init, Visible
<1>2. \A a \in Activities : Named(a)
  <2>1. \A a \in Activities : tabs[a] = NoTabs
    BY DEF Init
  <2>2. \A t \in Tags : NoTabs.info[t] = NoSpec
    BY DEF NoTabs
  <2> QED
    BY <2>1, <2>2 DEF Named
<1>3. \A a \in Activities : a \notin managed /\ known[a] = <<>> /\ Own(a, specList) = <<>>
  BY OwnEmpty DEF Init
<1>4. Distinct(<<>>) /\ BaseFirst(specList) /\ managed = {}
  BY DEF Init, Distinct, BaseFirst
<1> QED
  BY <1>1, <1>2, <1>3, <1>4 DEF BookInv, Books, Book, Alone

LEMMA TabPerDeviceFollows == ASSUME BookInv PROVE TabPerDevice
  BY DEF BookInv, Books, Book, MappedIn, TabPerDevice, OwnTabs

\* An activity that a step does not reach.
LEMMA BookSame ==
  ASSUME NEW b, Book(b), life'[b] = life[b], tabs'[b] = tabs[b], known'[b] = known[b],
         b \in managed' => b \in managed, Own(b, specList') = Own(b, specList)
  PROVE  Book(b)'
  BY DEF Book, Named, Visible, MappedIn, CurrentIn

\* What holds of one activity after a step, read off its new record.
LEMMA BookOf ==
  ASSUME NEW a, NEW U, tabs'[a] = U, life'[a] # "new",
         \A t \in Tags : U.info[t] # NoSpec => U.info[t].act = a,
         Distinct(known'[a]),
         life'[a] \in {"front", "stopped"} =>
           MappedIn(a, U, specList', known'[a]) /\ CurrentIn(a, U)
  PROVE  Book(a)'
  BY DEF Book, Named, Visible

LEMMA DistinctAppended ==
  ASSUME NEW S, NEW K \in Seq(S), NEW d \in S, ~Contains(K, d), Distinct(K)
  PROVE  Distinct(Append(K, d))
<1> DEFINE L == Append(K, d)
           n == Len(K)
<1>1. /\ Len(L) = n + 1 /\ L[n + 1] = d /\ n \in Nat
      /\ \A i \in 1..n : L[i] = K[i] /\ K[i] # d
  BY DEF Contains
<1>2. \A i, j \in 1..n : K[i] = K[j] => i = j
  BY DEF Distinct
<1> HIDE DEF L, n
<1>3. \A i \in 1..(n + 1) : i = n + 1 \/ i \in 1..n
  BY <1>1
<1>4. \A i, j \in 1..(n + 1) : L[i] = L[j] => i = j
  BY <1>1, <1>2, <1>3
<1> QED
  BY <1>1, <1>4 DEF Distinct, L

LEMMA BaseFirstAppended ==
  ASSUME NEW q \in Seq(Specs), NEW s \in Specs, BaseFirst(q), q # <<>> \/ s.dev = Base
  PROVE  BaseFirst(Append(q, s)) /\ Append(q, s) # <<>>
<1>1. CASE q = <<>>
  BY <1>1 DEF BaseFirst
<1>2. CASE q # <<>>
  <2>1. Append(q, s)[1] = q[1] /\ Append(q, s) # <<>>
    BY <1>2
  <2> QED
    BY <1>2, <2>1 DEF BaseFirst
<1> QED
  BY <1>1, <1>2

LEMMA TabsFacts ==
  ASSUME TypeInv, NEW a \in Activities
  PROVE  /\ tabs[a] \in Tabs /\ InfoOK(tabs[a]) /\ CurOK(tabs[a])
         /\ specList \in Seq(Specs) /\ known[a] \in Seq(Devices) /\ plugs \in Nat
         /\ tabs \in [Activities -> Tabs] /\ known \in [Activities -> Seq(Devices)]
         /\ life \in [Activities -> {"new", "front", "stopped", "gone"}]
  BY TabsAssumption DEF TypeInv, TabsOK, RestOK

LEMMA ChangeSets ==
  ASSUME TypeInv, NEW a \in Activities, NEW T \in Tabs, Change(a, T)
  PROVE  /\ \A b \in Activities \ {a} : tabs'[b] = tabs[b]
         /\ tabs'[a].host = T.host /\ tabs'[a].cur = T.cur
         /\ tabs'[a].info = T.info /\ tabs'[a].last = T.last
         /\ tabs'[a].shown = T.shown /\ tabs'[a].frag = T.frag
<1> DEFINE U == [T EXCEPT !.commits = FALSE]
<1>1. /\ U.host = T.host /\ U.cur = T.cur /\ U.info = T.info /\ U.last = T.last
      /\ U.shown = T.shown /\ U.frag = T.frag
  BY HandlerEnds
<1>2. tabs' = [tabs EXCEPT ![a] = U]
  BY DEF Change
<1> HIDE DEF U
<1>3. tabs'[a] = U /\ \A b \in Activities \ {a} : tabs'[b] = tabs[b]
  BY <1>2, TabsFacts
<1> QED
  BY <1>1, <1>3

LEMMA ChangedBook ==
  ASSUME TypeInv, NEW a \in Activities, NEW T \in Tabs, Change(a, T), life'[a] # "new",
         \A t \in Tags : T.info[t] # NoSpec => T.info[t].act = a,
         Distinct(known'[a]),
         life'[a] \in {"front", "stopped"} =>
           MappedIn(a, T, specList', known'[a]) /\ CurrentIn(a, T)
  PROVE  Book(a)'
<1> DEFINE U == tabs'[a]
<1>1. U.host = T.host /\ U.cur = T.cur /\ U.info = T.info /\ U.last = T.last
  BY ChangeSets
<1>2. /\ MappedIn(a, T, specList', known'[a]) => MappedIn(a, U, specList', known'[a])
      /\ CurrentIn(a, T) => CurrentIn(a, U)
  BY <1>1 DEF MappedIn, CurrentIn
<1>3. \A t \in Tags : U.info[t] # NoSpec => U.info[t].act = a
  BY <1>1
<1> QED
  BY <1>2, <1>3, BookOf

LEMMA AttachBook ==
  ASSUME DistinctTags, TypeInv, Books, NEW a \in Activities, NEW d \in Devices, Attach(a, d)
  PROVE  Books'
<1> DEFINE s == NewSpec(a, d)
           T == tabs[a]
           U == AddTab(T, s)
           K == known[a]
<1>1. s \in Specs /\ s.act = a /\ s.dev = d /\ TagOf(s) = Tag[d]
  BY NewSpecType, SpecType
<1>2. /\ T \in Tabs /\ InfoOK(T) /\ CurOK(T) /\ specList \in Seq(Specs) /\ K \in Seq(Devices)
      /\ known \in [Activities -> Seq(Devices)]
  BY TabsFacts
<1>3. /\ a \in managed /\ ~Contains(K, d) /\ Change(a, U)
      /\ known' = [known EXCEPT ![a] = Append(K, d)] /\ specList' = Append(specList, s)
      /\ UNCHANGED <<life, managed>>
  BY DEF Attach
<1> HIDE DEF s
<1>4. U \in Tabs /\ U.info = [T.info EXCEPT ![TagOf(s)] = s]
  BY <1>1, <1>2, AddTabDoes
<1>5. Alone /\ BaseFirst(specList) /\ specList # <<>> /\ \A b \in Activities : Book(b)
  BY <1>3 DEF Books
<1>6. known'[a] = Append(K, d) /\ \A b \in Activities \ {a} : known'[b] = known[b]
  BY <1>2, <1>3
<1>7. ASSUME NEW b \in Activities \ {a} PROVE Book(b)'
  <2>1. Own(b, specList') = Own(b, specList)
    BY <1>1, <1>2, <1>3, OwnAppended
  <2>2. tabs'[b] = tabs[b]
    BY <1>3, <1>4, ChangeSets
  <2> QED
    BY <1>3, <1>5, <1>6, <2>1, <2>2, BookSame
<1>8. Book(a)'
  <2>1. life'[a] # "new" /\ (life'[a] \in {"front", "stopped"} => Visible(a))
    BY <1>3, <1>5 DEF Book, Visible
  <2>2. \A t \in Tags : U.info[t] # NoSpec => U.info[t].act = a
    <3>1. \A t \in Tags : T.info[t] # NoSpec => T.info[t].act = a
      BY <1>5 DEF Book, Named
    <3> HIDE DEF U, T
    <3> QED
      BY <1>1, <1>2, <1>4, <3>1, TabsType
  <2>3. Distinct(known'[a])
    BY <1>2, <1>3, <1>5, <1>6, DistinctAppended DEF Book
  <2>4. Visible(a) => MappedIn(a, U, specList', known'[a]) /\ CurrentIn(a, U)
    <3>1. Visible(a) => MappedIn(a, T, specList, K) /\ CurrentIn(a, T)
      BY <1>5 DEF Book
    <3> HIDE DEF T, K, U
    <3> QED
      BY <1>1, <1>2, <1>3, <1>6, <3>1, AttachKeeps DEF U
  <2> HIDE DEF U
  <2> QED
    BY <1>3, <1>4, <2>1, <2>2, <2>3, <2>4, ChangedBook
<1>9. Alone'
  BY <1>3, <1>5 DEF Alone, Visible
<1>10. BaseFirst(specList') /\ specList' # <<>>
  BY <1>1, <1>2, <1>3, <1>5, BaseFirstAppended
<1> QED
  BY <1>7, <1>8, <1>9, <1>10 DEF Books

\* The spec that the map holds for a device is the activity's own.
LEMMA RemovesOwn ==
  ASSUME TypeInv, Books, NEW a \in Activities, NEW d \in Devices,
         NEW s \in Specs, NEW q \in Seq(Specs), Removes(a, d, s, q)
  PROVE  s.act = a /\ s.dev # Base /\ TagOf(s) = Tag[d]
<1>1. tabs[a].info[Tag[d]] = s /\ s # NoSpec /\ Tag[d] \in Tags
  BY SpecType DEF Removes
<1>2. InfoOK(tabs[a]) /\ Named(a)
  BY TabsFacts DEF Books, Book
<1>3. s.act = a /\ TagOf(s) = Tag[d]
  BY <1>1, <1>2 DEF InfoOK, Named
<1> QED
  BY <1>3, SpecType DEF TagOf

LEMMA DetachBook ==
  ASSUME TypeInv, Books, NEW a \in Activities, NEW d \in Devices, Detach(a, d),
         NEW s \in Specs, NEW q \in Seq(Specs), Removes(a, d, s, q)
  PROVE  Books'
<1> DEFINE T == tabs[a]
           U == RemoveTab(T, s, q)
           K == known[a]
           info == [T.info EXCEPT ![TagOf(s)] = NoSpec]
<1>1. s.act = a /\ s.dev # Base /\ TagOf(s) = Tag[d]
  BY RemovesOwn
<1>2. /\ T \in Tabs /\ InfoOK(T) /\ CurOK(T) /\ specList \in Seq(Specs) /\ K \in Seq(Devices)
      /\ known \in [Activities -> Seq(Devices)]
  BY TabsFacts
<1>3. /\ a \in managed /\ Contains(K, d)
      /\ known' = [known EXCEPT ![a] = RemoveFirst(K, d)] /\ UNCHANGED <<life, managed>>
  BY DEF Detach
<1>4. /\ T.info[Tag[d]] = s /\ q = RemoveFirst(specList, s) /\ specList' = q /\ Change(a, U)
  BY DEF Removes
<1>5. U \in Tabs /\ U.info = info
  <2>1. Rebuilt(T, info, q, U)
    BY <1>2, RemoveTabDoes
  <2> QED
    BY <2>1, Zenon DEF Rebuilt
<1>6. /\ Alone /\ BaseFirst(specList) /\ (managed # {} => specList # <<>>)
      /\ \A b \in Activities : Book(b)
  BY DEF Books
<1>7. known'[a] = RemoveFirst(K, d) /\ \A b \in Activities \ {a} : known'[b] = known[b]
  BY <1>2, <1>3
<1>8. ASSUME NEW b \in Activities \ {a} PROVE Book(b)'
  <2>1. Own(b, specList') = Own(b, specList)
    BY <1>1, <1>2, <1>4, OwnRemoved
  <2>2. tabs'[b] = tabs[b]
    BY <1>4, <1>5, ChangeSets
  <2> QED
    BY <1>3, <1>6, <1>7, <2>1, <2>2, BookSame
<1>9. Book(a)'
  <2>1. life'[a] # "new" /\ (life'[a] \in {"front", "stopped"} => Visible(a))
    BY <1>3, <1>6 DEF Book, Visible
  <2>2. \A t \in Tags : U.info[t] # NoSpec => U.info[t].act = a
    <3>1. \A t \in Tags : T.info[t] # NoSpec => T.info[t].act = a
      BY <1>6 DEF Book, Named
    <3> HIDE DEF U, T
    <3> QED
      BY <1>2, <1>5, <3>1, TabsType
  <2>3. Distinct(known'[a])
    BY <1>2, <1>6, <1>7, RemovedDistinct DEF Book
  <2>4. Visible(a) => MappedIn(a, U, specList', known'[a]) /\ CurrentIn(a, U)
    <3>1. Visible(a) => MappedIn(a, T, specList, K) /\ CurrentIn(a, T)
      BY <1>6 DEF Book
    <3>2. Distinct(K)
      BY <1>6 DEF Book
    <3> HIDE DEF T, K, U
    <3>3. MappedIn(a, T, specList, K) =>
            /\ MappedIn(a, RemoveTab(T, s, q), q, RemoveFirst(K, d))
            /\ CurrentIn(a, RemoveTab(T, s, q))
      BY <1>2, <1>3, <1>4, <1>6, <3>2, DetachKeeps
    <3> QED
      BY <1>4, <1>7, <3>1, <3>3 DEF U
  <2> HIDE DEF U
  <2> QED
    BY <1>4, <1>5, <2>1, <2>2, <2>3, <2>4, ChangedBook
<1>10. Alone'
  BY <1>3, <1>6 DEF Alone, Visible
<1>11. BaseFirst(q) /\ q # <<>>
  BY <1>1, <1>2, <1>3, <1>4, <1>6, BaseFirstRemoved
<1> QED
  BY <1>4, <1>8, <1>9, <1>10, <1>11 DEF Books

LEMMA SelectBook ==
  ASSUME TypeInv, Books, NEW a \in Activities, Select(a)
  PROVE  Books'
<1>1. PICK i \in 1..Len(tabs[a].host) : Change(a, SetCurrentTab(tabs[a], i))
  BY DEF Select
<1> DEFINE T == tabs[a]
           U == SetCurrentTab(T, i)
<1>2. T \in Tabs /\ InfoOK(T)
  BY TabsFacts
<1>3. life[a] = "front" /\ UNCHANGED <<life, specList, managed, known>>
  BY DEF Select
<1>4. U \in Tabs /\ U.info = T.info
  <2>1. i \in Nat
    BY <1>1
  <2>2. Follows(T, U)
    BY <1>2, <2>1, SetTab
  <2> QED
    BY <2>2 DEF Follows
<1>5. /\ Alone /\ BaseFirst(specList) /\ (managed # {} => specList # <<>>)
      /\ \A b \in Activities : Book(b)
  BY DEF Books
<1>6. ASSUME NEW b \in Activities \ {a} PROVE Book(b)'
  <2>1. tabs'[b] = tabs[b]
    BY <1>1, <1>4, ChangeSets
  <2> QED
    BY <1>3, <1>5, <2>1, BookSame
<1>7. Book(a)'
  <2>1. MappedIn(a, T, specList, known[a]) /\ CurrentIn(a, T) /\ Named(a) /\ Distinct(known[a])
    BY <1>3, <1>5 DEF Book, Visible
  <2>2. MappedIn(a, U, specList, known[a]) /\ CurrentIn(a, U)
    BY <1>1, <1>2, <2>1, SelectKeeps
  <2>3. \A t \in Tags : U.info[t] # NoSpec => U.info[t].act = a
    BY <1>4, <2>1 DEF Named
  <2>4. Change(a, U)
    BY <1>1
  <2>5. life'[a] # "new" /\ known'[a] = known[a] /\ specList' = specList
    BY <1>3
  <2> HIDE DEF U
  <2> QED
    BY <1>4, <2>1, <2>2, <2>3, <2>4, <2>5, ChangedBook
<1>8. Alone'
  BY <1>3, <1>5 DEF Alone, Visible
<1> QED
  BY <1>3, <1>5, <1>6, <1>7, <1>8 DEF Books

LEMMA OpenBook ==
  ASSUME TypeInv, Books, NEW a \in Activities, Open(a)
  PROVE  Books'
<1> DEFINE s == NewSpec(a, Base)
           U == Initialise(a, NoTabs)
<1>1. s \in Specs /\ s.act = a /\ s.dev = Base /\ plugs \in Nat /\ specList \in Seq(Specs)
      /\ life \in [Activities -> {"new", "front", "stopped", "gone"}]
  BY NewSpecType, SpecType, TabsFacts
<1>2. /\ life[a] = "new" /\ \A b \in Activities : ~Visible(b)
      /\ life' = [life EXCEPT ![a] = "front"] /\ specList' = Append(specList, s)
      /\ managed' = managed \cup {a} /\ Change(a, U) /\ known' = known
  BY DEF Open
<1>3. /\ BaseFirst(specList) /\ \A b \in Activities : Book(b)
  BY DEF Books
<1>4. U \in Tabs /\ U.info = [NoTabs.info EXCEPT ![Tag[Base]] = s]
  BY <1>1, NoTabsBare, InitialiseDoes
<1>5. known[a] = <<>> /\ Own(a, specList) = <<>>
  BY <1>2, <1>3 DEF Book
<1>6. MappedIn(a, U, Append(specList, s), <<>>) /\ CurrentIn(a, U)
  BY <1>1, <1>5, NoTabsBare, InitialiseKeeps
<1> HIDE DEF s, U
<1>7. life'[a] = "front" /\ \A b \in Activities \ {a} : life'[b] = life[b]
  BY <1>1, <1>2
<1>8. ASSUME NEW b \in Activities \ {a} PROVE Book(b)'
  <2>1. Own(b, specList') = Own(b, specList)
    BY <1>1, <1>2, OwnAppended
  <2>2. tabs'[b] = tabs[b]
    BY <1>2, <1>4, ChangeSets
  <2>3. known'[b] = known[b] /\ (b \in managed' => b \in managed)
    BY <1>2
  <2> QED
    BY <1>3, <1>7, <2>1, <2>2, <2>3, BookSame
<1>9. Book(a)'
  <2>1. \A t \in Tags : U.info[t] # NoSpec => U.info[t].act = a
    <3>1. NoTabs.info \in [Tags -> Specs \cup {NoSpec}] /\ \A t \in Tags : NoTabs.info[t] = NoSpec
      BY NoTabsBare, TabsType DEF Bare
    <3> QED
      BY <1>1, <1>4, <3>1
  <2>2. Distinct(known'[a])
    BY <1>2, <1>5 DEF Distinct
  <2>3. MappedIn(a, U, specList', known'[a])
    BY <1>2, <1>5, <1>6
  <2> QED
    BY <1>2, <1>4, <1>6, <1>7, <2>1, <2>2, <2>3, ChangedBook
<1>10. Alone'
  <2>1. \A b \in Activities : Visible(b)' => b = a
    BY <1>2, <1>7 DEF Visible
  <2> QED
    BY <2>1 DEF Alone
<1>11. BaseFirst(specList') /\ specList' # <<>>
  BY <1>1, <1>2, <1>3, BaseFirstAppended
<1> QED
  BY <1>8, <1>9, <1>10, <1>11 DEF Books

\* An activity that is gone.
LEMMA GoneBook ==
  ASSUME NEW a, Named(a), life'[a] = "gone", tabs'[a].info = tabs[a].info,
         Distinct(known'[a])
  PROVE  Book(a)'
  BY DEF Book, Named, Visible

LEMMA BackBook ==
  ASSUME TypeInv, Books, NEW a \in Activities, Back(a)
  PROVE  Books'
<1>1. /\ tabs[a] \in Tabs /\ tabs \in [Activities -> Tabs]
      /\ life \in [Activities -> {"new", "front", "stopped", "gone"}]
  BY TabsFacts
<1>2. /\ life' = [life EXCEPT ![a] = "gone"] /\ tabs' = [tabs EXCEPT ![a] = Destroyed(tabs[a])]
      /\ UNCHANGED <<specList, managed, known>>
  BY DEF Back
<1>3. life'[a] = "gone" /\ \A b \in Activities \ {a} : life'[b] = life[b] /\ tabs'[b] = tabs[b]
  BY <1>1, <1>2
<1>4. tabs'[a].info = tabs[a].info
  BY <1>1, <1>2, DestroyedDoes
<1>5. ASSUME NEW b \in Activities \ {a} PROVE Book(b)'
  BY <1>2, <1>3, BookSame DEF Books
<1>6. Book(a)'
  BY <1>2, <1>3, <1>4, GoneBook DEF Books, Book
<1>7. Alone'
  <2>1. \A b \in Activities : Visible(b)' => Visible(b)
    BY <1>3 DEF Visible
  <2> QED
    BY <2>1 DEF Alone, Books
<1> QED
  BY <1>2, <1>5, <1>6, <1>7 DEF Books

LEMMA DisconnectBook ==
  ASSUME TypeInv, Books, NEW a \in Activities, ServerDisconnect(a)
  PROVE  Books'
<1> DEFINE U == Destroyed([RemoveAllTabs(tabs[a]) EXCEPT !.commits = FALSE])
<1>1. /\ tabs[a] \in Tabs /\ tabs \in [Activities -> Tabs] /\ InfoOK(tabs[a]) /\ CurOK(tabs[a])
      /\ life \in [Activities -> {"new", "front", "stopped", "gone"}]
      /\ known \in [Activities -> Seq(Devices)]
  BY TabsFacts
<1>2. /\ life' = [life EXCEPT ![a] = "gone"] /\ tabs' = [tabs EXCEPT ![a] = U]
      /\ managed' = managed \ {a} /\ known' = [known EXCEPT ![a] = <<>>] /\ specList' = specList
  BY DEF ServerDisconnect
<1>3. U.info = tabs[a].info
  BY <1>1, DisconnectDoes
<1> HIDE DEF U
<1>4. /\ life'[a] = "gone" /\ known'[a] = <<>> /\ tabs'[a] = U
      /\ \A b \in Activities \ {a} :
           life'[b] = life[b] /\ tabs'[b] = tabs[b] /\ known'[b] = known[b]
  BY <1>1, <1>2
<1>5. ASSUME NEW b \in Activities \ {a} PROVE Book(b)'
  <2>1. Book(b) /\ (b \in managed' => b \in managed)
    BY <1>2 DEF Books
  <2> QED
    BY <1>2, <1>4, <2>1, BookSame
<1>6. Book(a)'
  <2>1. Distinct(known'[a])
    BY <1>4 DEF Distinct
  <2> QED
    BY <1>3, <1>4, <2>1, GoneBook DEF Books, Book
<1>7. Alone'
  <2>1. \A b \in Activities : Visible(b)' => Visible(b)
    BY <1>4 DEF Visible
  <2> QED
    BY <2>1 DEF Alone, Books
<1> QED
  BY <1>2, <1>5, <1>6, <1>7 DEF Books

LEMMA RecreateBook ==
  ASSUME TypeInv, Books, NEW a \in Activities, NEW b \in Activities, NEW killed \in BOOLEAN,
         Recreate(a, b, killed)
  PROVE  Books'
<1> DEFINE D == Destroyed(tabs[a])
           I == Initialise(b, Saved(tabs[a]))
           U == [I EXCEPT !.commits = FALSE]
           s == NewSpec(b, Base)
           q == IF killed THEN <<>> ELSE specList
<1>1. /\ tabs[a] \in Tabs /\ tabs \in [Activities -> Tabs]
      /\ life \in [Activities -> {"new", "front", "stopped", "gone"}]
      /\ specList \in Seq(Specs)
  BY TabsFacts
<1>2. s \in Specs /\ s.act = b /\ s.dev = Base /\ plugs \in Nat
  BY NewSpecType, SpecType
<1>3. /\ life[a] = "stopped" /\ life[b] = "new" /\ known' = known
      /\ life' = [c \in Activities |->
                    IF c = b THEN "front" ELSE IF c = a THEN "gone" ELSE life[c]]
      /\ managed' = (IF killed THEN {} ELSE managed) \cup {b}
  BY DEF Recreate
<1>4. tabs' = [tabs EXCEPT ![a] = D, ![b] = U] /\ specList' = Append(q, s)
  BY DEF Recreate
<1>5. Alone /\ BaseFirst(specList) /\ \A c \in Activities : Book(c)
  BY DEF Books
<1>6. q \in Seq(Specs) /\ BaseFirst(q) /\ \A c : Own(c, specList) = <<>> => Own(c, q) = <<>>
  BY <1>1, <1>5, OwnEmpty DEF BaseFirst
<1>7. known[b] = <<>> /\ Own(b, q) = <<>>
  BY <1>3, <1>5, <1>6 DEF Book
<1>8. I \in Tabs /\ I.info = [Saved(tabs[a]).info EXCEPT ![Tag[Base]] = s] /\ Bare(Saved(tabs[a]))
  BY <1>1, <1>2, SavedBare, InitialiseDoes
<1>9. MappedIn(b, I, Append(q, s), <<>>) /\ CurrentIn(b, I)
  <2> HIDE DEF q
  <2> QED
    BY <1>2, <1>6, <1>7, <1>8, InitialiseKeeps
<1>10. D.info = tabs[a].info
  BY <1>1, DestroyedDoes
<1> HIDE DEF I, D, s, q
<1>11. U.host = I.host /\ U.cur = I.cur /\ U.info = I.info /\ U.last = I.last
  BY <1>8, HandlerEnds
<1> HIDE DEF U
<1>12. a # b /\ life'[b] = "front" /\ life'[a] = "gone" /\ tabs'[b] = U /\ tabs'[a] = D
       /\ \A c \in Activities \ {a, b} : life'[c] = life[c] /\ tabs'[c] = tabs[c]
  BY <1>1, <1>3, <1>4
<1>13. \A c \in Activities \ {a, b} : ~Visible(c)
  BY <1>3, <1>5 DEF Alone, Visible
<1>14. ASSUME NEW c \in Activities \ {a, b} PROVE Book(c)'
  <2>1. life'[c] = life[c] /\ tabs'[c] = tabs[c] /\ known'[c] = known[c] /\ Book(c) /\ ~Visible(c)
    BY <1>3, <1>5, <1>12, <1>13
  <2>2. life[c] = "new" => c \notin managed' /\ known'[c] = <<>> /\ Own(c, specList') = <<>>
    <3>1. Own(c, specList') = Own(c, q)
      BY <1>2, <1>4, <1>6, OwnAppended
    <3> QED
      BY <1>3, <1>6, <2>1, <3>1 DEF Book
  <2> QED
    BY <2>1, <2>2 DEF Book, Named, Visible
<1>15. Book(a)'
  <2>1. Distinct(known'[a]) /\ Named(a)
    BY <1>3, <1>5 DEF Book
  <2> QED
    BY <1>10, <1>12, <2>1, GoneBook
<1>16. Book(b)'
  <2>1. \A t \in Tags : U.info[t] # NoSpec => U.info[t].act = b
    <3> DEFINE W == Saved(tabs[a])
    <3>1. W.info \in [Tags -> Specs \cup {NoSpec}] /\ \A t \in Tags : W.info[t] = NoSpec
      BY <1>8, TabsType DEF Bare
    <3> HIDE DEF W
    <3> QED
      BY <1>2, <1>8, <1>11, <3>1 DEF W
  <2>2. Distinct(known'[b])
    BY <1>3, <1>7 DEF Distinct
  <2>3. MappedIn(b, U, specList', known'[b]) /\ CurrentIn(b, U)
    BY <1>3, <1>4, <1>7, <1>9, <1>11 DEF MappedIn, CurrentIn
  <2> QED
    BY <1>12, <2>1, <2>2, <2>3, BookOf
<1>17. Alone'
  <2>1. \A c \in Activities : Visible(c)' => c = b
    BY <1>12, <1>13 DEF Visible
  <2> QED
    BY <2>1 DEF Alone
<1>18. BaseFirst(specList') /\ specList' # <<>>
  BY <1>2, <1>4, <1>6, BaseFirstAppended
<1> QED
  BY <1>14, <1>15, <1>16, <1>17, <1>18 DEF Books

LEMMA BookStep == ASSUME DistinctTags, TypeInv, BookInv, [Next]_vars PROVE BookInv'
<1> SUFFICES ASSUME crash' = "none" PROVE Books'
  BY DEF BookInv
<1>1. CASE UNCHANGED vars
  BY <1>1 DEF vars, BookInv, Books, Alone, Book, Named, Visible, MappedIn, CurrentIn, BaseFirst
<1>2. CASE Next
  <2>1. Books
    BY <1>2 DEF BookInv, Next, Act, Attach, Detach, Select, Open, Back, ServerDisconnect,
       Stop, Start, Recreate, Plug, Unplug, Running
  <2>2. ASSUME NEW a \in Activities, NEW d \in Devices, Attach(a, d) PROVE Books'
    BY <2>1, <2>2, AttachBook
  <2>3. ASSUME NEW a \in Activities, NEW d \in Devices, Detach(a, d) PROVE Books'
    <3>1. ~Unmapped(a, d)
      BY DEF Unmapped
    <3>2. PICK s \in Specs, q \in Seq(Specs) : Removes(a, d, s, q)
      BY <2>3, <3>1, DetachCases
    <3> QED
      BY <2>1, <2>3, <3>2, DetachBook
  <2>4. ASSUME NEW a \in Activities, Stop(a) \/ Start(a) PROVE Books'
    <3>1. /\ life \in [Activities -> {"new", "front", "stopped", "gone"}]
          /\ UNCHANGED <<tabs, specList, managed, known>>
      BY <2>4, TabsFacts DEF Stop, Start
    <3>2. \A b \in Activities : (Visible(b)' <=> Visible(b)) /\ (life'[b] = "new" <=> life[b] = "new")
      BY <2>4, <3>1 DEF Stop, Start, Visible
    <3>3. Alone'
      BY <2>1, <3>2 DEF Books, Alone
    <3>4. \A b \in Activities : Book(b)'
      BY <2>1, <3>1, <3>2 DEF Books, Book, Named
    <3> QED
      BY <2>1, <3>1, <3>3, <3>4 DEF Books
  <2>5. ASSUME NEW d \in Devices, Plug(d) \/ Unplug(d) PROVE Books'
    <3>1. UNCHANGED <<life, tabs, specList, managed, known>>
      BY <2>5 DEF Plug, Unplug
    <3> QED
      BY <2>1, <3>1 DEF Books, Alone, Book, Named, Visible
  <2> QED
    BY <1>2, <2>1, <2>2, <2>3, <2>4, <2>5, SelectBook, OpenBook, BackBook, DisconnectBook,
       RecreateBook DEF Next, Act
<1> QED
  BY <1>1, <1>2

(* With distinct tags, whatever devices came and went, however often an        *)
(* activity was opened, stopped, finished or restored, and whatever specs the    *)
(* others left on m_TabSpeclist: rebuilding the tab host from the shared list    *)
(* (removeTab) leaves a visible activity one tab of its own for the main view    *)
(* and for each device its manager has announced, in the order of attachment.    *)
THEOREM TabPerDeviceHolds == Spec => []TabPerDevice
<1>1. CASE DistinctTags
  <2>1. Init => TypeInv /\ BookInv
    BY TypeInit, BookInit
  <2>2. TypeInv /\ BookInv /\ [Next]_vars => (TypeInv /\ BookInv)'
    BY <1>1, TypeStep, BookStep
  <2>3. TypeInv /\ BookInv => TabPerDevice
    BY TabPerDeviceFollows
  <2> QED
    BY <2>1, <2>2, <2>3, PTL DEF Spec
<1>2. CASE ~DistinctTags
  <2>1. TabPerDevice
    BY <1>2 DEF TabPerDevice
  <2> QED
    BY <2>1, PTL
<1> QED
  BY <1>1, <1>2

-----------------------------------------------------------------------------
(* The fragments.                                                            *)

\* No fragment lacks its bundle, and a visible activity shows that of its last tab.
SyncInv == \A a \in Activities : Whole(tabs[a]) /\ (Visible(a) => Sync(tabs[a]))

NoneRestored == \A a, b \in Activities, killed \in BOOLEAN : ~Recreate(a, b, killed)

LEMMA SyncInit == ASSUME Init PROVE SyncInv
<1>1. \A a \in Activities : tabs[a] = NoTabs
  BY DEF Init
<1> QED
  BY <1>1, NoTabsBare DEF SyncInv

LEMMA SyncSame ==
  ASSUME SyncInv, UNCHANGED tabs, \A b \in Activities : Visible(b)' => Visible(b)
  PROVE  SyncInv'
  BY DEF SyncInv, Whole, Sync

\* A handler that changes the tabs of a.
LEMMA SyncChange ==
  ASSUME SyncInv, TypeInv, NEW a \in Activities, NEW T \in Tabs, Change(a, T),
         \A b \in Activities \ {a} : Visible(b)' => Visible(b),
         Whole(T), Visible(a)' => Sync(T)
  PROVE  SyncInv'
<1>1. /\ \A b \in Activities \ {a} : tabs'[b] = tabs[b]
      /\ tabs'[a].last = T.last /\ tabs'[a].shown = T.shown /\ tabs'[a].frag = T.frag
  BY ChangeSets
<1>2. ASSUME NEW b \in Activities \ {a}
      PROVE  Whole(tabs'[b]) /\ (Visible(b)' => Sync(tabs'[b]))
  <2>1. tabs'[b] = tabs[b]
    BY <1>1
  <2> QED
    BY <2>1 DEF SyncInv
<1>3. Whole(tabs'[a]) /\ (Visible(a)' => Sync(tabs'[a]))
  BY <1>1 DEF Whole, Sync
<1> QED
  BY <1>2, <1>3 DEF SyncInv

LEMMA SyncGone ==
  ASSUME SyncInv, NEW a \in Activities, life'[a] = "gone", Whole(tabs'[a]),
         \A b \in Activities \ {a} : tabs'[b] = tabs[b] /\ life'[b] = life[b]
  PROVE  SyncInv'
<1>1. ASSUME NEW b \in Activities \ {a}
      PROVE  Whole(tabs'[b]) /\ (Visible(b)' => Sync(tabs'[b]))
  <2>1. tabs'[b] = tabs[b] /\ (Visible(b)' <=> Visible(b))
    BY DEF Visible
  <2> QED
    BY <2>1 DEF SyncInv
<1>2. ~Visible(a)'
  BY DEF Visible
<1> QED
  BY <1>1, <1>2 DEF SyncInv

LEMMA SyncStep == ASSUME TypeInv, SyncInv, NoneRestored, [Next]_vars PROVE SyncInv'
<1>1. CASE UNCHANGED vars
  BY <1>1, SyncSame DEF vars, Visible
<1>2. ASSUME NEW a \in Activities, NEW d \in Devices, Attach(a, d) PROVE SyncInv'
  <2> DEFINE s == NewSpec(a, d)
             U == AddTab(tabs[a], s)
  <2>1. s \in Specs /\ tabs[a] \in Tabs /\ InfoOK(tabs[a]) /\ CurOK(tabs[a])
    BY NewSpecType, SpecType, TabsFacts
  <2>2. Change(a, U) /\ life' = life
    BY <1>2 DEF Attach
  <2> HIDE DEF s
  <2>3. U \in Tabs /\ Whole(U) /\ (Visible(a) => Sync(U))
    BY <2>1, AddTabDoes DEF SyncInv
  <2> HIDE DEF U
  <2> QED
    BY <2>2, <2>3, SyncChange DEF Visible
<1>3. ASSUME NEW a \in Activities, NEW d \in Devices, Detach(a, d) PROVE SyncInv'
  <2>1. life' = life
    BY <1>3 DEF Detach
  <2>2. CASE Unmapped(a, d)
    BY <2>1, <2>2, SyncSame DEF Unmapped, Visible
  <2>3. ASSUME NEW s \in Specs, NEW q \in Seq(Specs), Removes(a, d, s, q) PROVE SyncInv'
    <3> DEFINE U == RemoveTab(tabs[a], s, q)
    <3>1. tabs[a] \in Tabs /\ InfoOK(tabs[a]) /\ CurOK(tabs[a])
      BY TabsFacts
    <3>2. Rebuilt(tabs[a], [tabs[a].info EXCEPT ![TagOf(s)] = NoSpec], q, U)
      BY <3>1, RemoveTabDoes
    <3>3. U \in Tabs /\ Whole(U) /\ (Visible(a) => Sync(U))
      BY <3>2 DEF Rebuilt, SyncInv
    <3>4. Change(a, U)
      BY <2>3 DEF Removes
    <3> HIDE DEF U
    <3> QED
      BY <2>1, <3>3, <3>4, SyncChange DEF Visible
  <2> QED
    BY <1>3, <2>2, <2>3, DetachCases
<1>4. ASSUME NEW a \in Activities, Select(a) PROVE SyncInv'
  <2>1. PICK i \in 1..Len(tabs[a].host) : Change(a, SetCurrentTab(tabs[a], i))
    BY <1>4 DEF Select
  <2> DEFINE U == SetCurrentTab(tabs[a], i)
  <2>2. tabs[a] \in Tabs /\ InfoOK(tabs[a]) /\ i \in Nat
    BY <2>1, TabsFacts
  <2>3. Follows(tabs[a], U)
    BY <2>2, SetTab
  <2>4. Change(a, U) /\ life' = life
    BY <1>4, <2>1 DEF Select
  <2> HIDE DEF U
  <2>5. U \in Tabs /\ Whole(U) /\ (Visible(a) => Sync(U))
    BY <2>3 DEF Follows, SyncInv
  <2> QED
    BY <2>4, <2>5, SyncChange DEF Visible
<1>5. ASSUME NEW a \in Activities, Open(a) PROVE SyncInv'
  <2> DEFINE U == Initialise(a, NoTabs)
  <2>1. plugs \in Nat /\ life \in [Activities -> {"new", "front", "stopped", "gone"}]
    BY TabsFacts
  <2>2. U \in Tabs /\ Whole(U) /\ Sync(U)
    BY <2>1, NoTabsBare, InitialiseDoes
  <2>3. Change(a, U) /\ life' = [life EXCEPT ![a] = "front"]
    BY <1>5 DEF Open
  <2> HIDE DEF U
  <2>4. \A b \in Activities \ {a} : Visible(b)' => Visible(b)
    BY <2>1, <2>3 DEF Visible
  <2> QED
    BY <2>2, <2>3, <2>4, SyncChange
<1>6. ASSUME NEW a \in Activities, Back(a) PROVE SyncInv'
  <2>1. /\ tabs[a] \in Tabs /\ tabs \in [Activities -> Tabs]
        /\ life \in [Activities -> {"new", "front", "stopped", "gone"}]
    BY TabsFacts
  <2>2. life' = [life EXCEPT ![a] = "gone"] /\ tabs' = [tabs EXCEPT ![a] = Destroyed(tabs[a])]
    BY <1>6 DEF Back
  <2>3. Whole(Destroyed(tabs[a]))
    BY <2>1, DestroyedDoes
  <2>4. life'[a] = "gone" /\ tabs'[a] = Destroyed(tabs[a])
        /\ \A b \in Activities \ {a} : tabs'[b] = tabs[b] /\ life'[b] = life[b]
    BY <2>1, <2>2
  <2> QED
    BY <2>3, <2>4, SyncGone
<1>7. ASSUME NEW a \in Activities, ServerDisconnect(a) PROVE SyncInv'
  <2> DEFINE U == Destroyed([RemoveAllTabs(tabs[a]) EXCEPT !.commits = FALSE])
  <2>1. /\ tabs[a] \in Tabs /\ tabs \in [Activities -> Tabs] /\ InfoOK(tabs[a]) /\ CurOK(tabs[a])
        /\ life \in [Activities -> {"new", "front", "stopped", "gone"}]
    BY TabsFacts
  <2>2. life' = [life EXCEPT ![a] = "gone"] /\ tabs' = [tabs EXCEPT ![a] = U]
    BY <1>7 DEF ServerDisconnect
  <2>3. Whole(U)
    BY <2>1, DisconnectDoes
  <2> HIDE DEF U
  <2>4. life'[a] = "gone" /\ tabs'[a] = U
        /\ \A b \in Activities \ {a} : tabs'[b] = tabs[b] /\ life'[b] = life[b]
    BY <2>1, <2>2
  <2> QED
    BY <2>3, <2>4, SyncGone
<1>8. ASSUME NEW a \in Activities, Stop(a) \/ Start(a) PROVE SyncInv'
  <2>1. life \in [Activities -> {"new", "front", "stopped", "gone"}]
    BY TabsFacts
  <2>2. UNCHANGED tabs /\ \A b \in Activities : Visible(b)' => Visible(b)
    BY <1>8, <2>1 DEF Stop, Start, Visible
  <2> QED
    BY <2>2, SyncSame
<1>9. ASSUME NEW d \in Devices, Plug(d) \/ Unplug(d) PROVE SyncInv'
  BY <1>9, SyncSame DEF Plug, Unplug, Visible
<1> QED
  BY <1>1, <1>2, <1>3, <1>4, <1>5, <1>6, <1>7, <1>8, <1>9 DEF Next, Act, NoneRestored

\* An activity shows the fragment of the current tab when that is its own.
LEMMA OwnTabShown ==
  ASSUME TypeInv, Books, SyncInv, NEW a \in Activities, Visible(a),
         tabs[a].host[tabs[a].cur].act = a
  PROVE  tabs[a].shown = {CurrentTag(a)}
<1> DEFINE T == tabs[a]
           c == T.host[T.cur]
<1>1. T \in Tabs /\ CurOK(T) /\ specList \in Seq(Specs) /\ known[a] \in Seq(Devices)
  BY TabsFacts
<1>2. MappedIn(a, T, specList, known[a]) /\ CurrentIn(a, T) /\ Sync(T)
  BY DEF Books, Book, SyncInv
<1>3. c \in Specs /\ Contains(T.host, c) /\ T.host \in Seq(Specs) /\ c.act = a
  BY <1>1, <1>2, CurrentSpec, TabsType DEF CurrentIn
<1>4. T.last = T.info[TagOf(c)]
  BY <1>2 DEF CurrentIn
<1> HIDE DEF c, T
<1>5. Contains(Own(a, T.host), c)
  BY <1>3, OwnContains
<1>6. T.info[TagOf(c)] = c
  BY <1>2, <1>5 DEF MappedIn
<1>7. T.last # NoSpec
  BY <1>3, <1>4, <1>6, SpecType
<1> QED
  BY <1>2, <1>4, <1>6, <1>7 DEF Sync, CurrentTag, c, T

(* One activity and any number of devices with distinct tags: whatever the     *)
(* order of arrivals, departures, selections and stops, the one fragment that    *)
(* is shown is that of the current tab, although removeTab makes every tab that   *)
(* remains the current one in turn.                                             *)
THEOREM ShownHolds ==
  ASSUME DistinctTags, \A a, b \in Activities : a = b
  PROVE  Spec => []ShownIsCurrent
<1>1. Init => TypeInv /\ BookInv /\ SyncInv
  BY TypeInit, BookInit, SyncInit
<1>2. TypeInv /\ BookInv /\ SyncInv /\ [Next]_vars => (TypeInv /\ BookInv /\ SyncInv)'
  <2>1. NoneRestored
    <3>1. ASSUME NEW a \in Activities, NEW b \in Activities, NEW killed \in BOOLEAN,
                 Recreate(a, b, killed)
          PROVE  FALSE
      <4>1. a = b
        OBVIOUS
      <4> QED
        BY <3>1, <4>1 DEF Recreate
    <3> QED
      BY <3>1 DEF NoneRestored
  <2> QED
    BY <2>1, TypeStep, BookStep, SyncStep
<1>3. TypeInv /\ BookInv /\ SyncInv => ShownIsCurrent
  <2> SUFFICES ASSUME TypeInv, Books, SyncInv, NEW a \in Activities, Visible(a)
               PROVE  tabs[a].shown = {CurrentTag(a)}
    BY DEF ShownIsCurrent, BookInv
  <2> DEFINE c == tabs[a].host[tabs[a].cur]
  <2>1. c \in Specs
    BY TabsFacts, CurrentSpec DEF Books, Book, CurrentIn
  <2>2. c.act = a
    BY <2>1, SpecType
  <2> QED
    BY <2>2, OwnTabShown
<1> QED
  BY <1>1, <1>2, <1>3, PTL DEF Spec

-----------------------------------------------------------------------------
(* What ends the process.                                                    *)

\* A visible activity has a tab for every device its manager has announced.
LEMMA DetachMapped ==
  ASSUME TypeInv, Books, NEW a \in Activities, Visible(a), NEW d \in Devices, Detach(a, d)
  PROVE  \E s \in Specs, q \in Seq(Specs) : Removes(a, d, s, q)
<1>1. specList \in Seq(Specs) /\ known[a] \in Seq(Devices) /\ Contains(known[a], d)
  BY TabsFacts DEF Detach
<1>2. MappedIn(a, tabs[a], specList, known[a])
  BY DEF Books, Book
<1>3. SpecOf(Own(a, specList), tabs[a], d)
  BY <1>1, <1>2, MappedSpecs
<1>4. tabs[a].info[Tag[d]] # NoSpec
  BY <1>3, SpecType DEF SpecOf
<1> QED
  BY <1>4, DetachCases DEF Unmapped

\* A crash of a transaction needs an activity that is stopped or gone.
LEMMA CommittedUnseen ==
  ASSUME NEW a \in Activities, NEW T, Committed(a, T) # "none"
  PROVE  T.commits /\ life[a] \in {"stopped", "gone"}
  BY DEF Committed

LEMMA UnseenStep ==
  ASSUME DistinctTags, Unsupported = {}, Recreation = FALSE,
         TypeInv, BookInv, SyncInv, Next, crash' # "none"
  PROVE  \E a \in managed : life[a] \in {"stopped", "gone"}
<1>1. Books
  BY DEF BookInv, Next, Act, Attach, Detach, Select, Open, Back, ServerDisconnect,
     Stop, Start, Recreate, Plug, Unplug, Running
<1>2. \A a \in Activities : ~Heedless(a)
  BY DEF Heedless, SyncInv, Whole
<1>3. ASSUME NEW a \in Activities, a \in managed, life[a] # "front"
      PROVE  life[a] \in {"stopped", "gone"}
  <2>1. life[a] # "new"
    BY <1>1, <1>3 DEF Books, Book
  <2> QED
    BY <1>3, <2>1, TabsFacts
<1>4. ASSUME NEW a \in Activities, NEW d \in Devices, Attach(a, d)
      PROVE  a \in managed /\ life[a] \in {"stopped", "gone"}
  BY <1>4, CommittedUnseen DEF Attach, Change
<1>5. ASSUME NEW a \in Activities, NEW d \in Devices, Detach(a, d)
      PROVE  a \in managed /\ life[a] \in {"stopped", "gone"}
  <2>1. a \in managed
    BY <1>5 DEF Detach
  <2>2. CASE life[a] = "front"
    <3>1. PICK s \in Specs, q \in Seq(Specs) : Removes(a, d, s, q)
      BY <1>1, <1>5, <2>2, DetachMapped DEF Visible
    <3> QED
      BY <2>1, <3>1, CommittedUnseen DEF Removes, Change
  <2> QED
    BY <1>3, <2>1, <2>2
<1>6. ASSUME NEW a \in Activities, Select(a) PROVE FALSE
  BY <1>6, CommittedUnseen DEF Select, Change
<1>7. ASSUME NEW a \in Activities, Open(a) PROVE FALSE
  BY <1>7, CommittedUnseen DEF Open, Change
<1>8. ASSUME NEW a \in Activities, Back(a) PROVE FALSE
  BY <1>2, <1>8 DEF Back
<1>9. ASSUME NEW a \in Activities, ServerDisconnect(a)
      PROVE  a \in managed /\ life[a] \in {"stopped", "gone"}
  <2> DEFINE T == RemoveAllTabs(tabs[a])
  <2>1. /\ a \in managed
        /\ crash' = IF Committed(a, T) = "none" /\ Visible(a) /\ Heedless(a)
                    THEN "hardware" ELSE Committed(a, T)
    BY <1>9 DEF ServerDisconnect
  <2> HIDE DEF T
  <2>2. Committed(a, T) # "none"
    BY <1>2, <2>1
  <2> QED
    BY <2>1, <2>2, CommittedUnseen
<1>10. ASSUME NEW a \in Activities, Stop(a) \/ Start(a) PROVE FALSE
  BY <1>10 DEF Stop, Start, Running
<1>11. ASSUME NEW a \in Activities, NEW b \in Activities, NEW killed \in BOOLEAN,
              Recreate(a, b, killed)
       PROVE  FALSE
  BY <1>11 DEF Recreate
<1>12. ASSUME NEW d \in Devices, Plug(d) \/ Unplug(d) PROVE FALSE
  BY <1>12 DEF Plug, Unplug, Running
<1> QED
  BY <1>4, <1>5, <1>6, <1>7, <1>8, <1>9, <1>10, <1>11, <1>12 DEF Next, Act

(* With distinct tags, classes that PhidgetHardwareFactory knows and no         *)
(* restored activity, no handler ends the process while every activity whose     *)
(* manager is open is in the foreground: a commit throws only after onStop, and   *)
(* onDestroy and the detach handler find what they look up.                       *)
THEOREM CrashesUnseenHolds ==
  ASSUME DistinctTags, Unsupported = {}, Recreation = FALSE
  PROVE  Spec => CrashesUnseen
<1>1. Init => TypeInv /\ BookInv /\ SyncInv
  BY TypeInit, BookInit, SyncInit
<1>2. TypeInv /\ BookInv /\ SyncInv /\ [Next]_vars => (TypeInv /\ BookInv /\ SyncInv)'
  <2>1. NoneRestored
    BY DEF NoneRestored, Recreate
  <2> QED
    BY <2>1, TypeStep, BookStep, SyncStep
<1>3. TypeInv /\ BookInv /\ SyncInv /\ [Next]_vars =>
        [crash' # "none" => \E a \in managed : life[a] \in {"stopped", "gone"}]_vars
  BY UnseenStep
<1> QED
  BY <1>1, <1>2, <1>3, PTL DEF Spec, CrashesUnseen

\* When removeTab commits nothing, although it makes every tab that remains the
\* current one: the main view is selected and nothing else remains.
LEMMA QuietMeans ==
  ASSUME NEW a, NEW T \in Tabs, InfoOK(T), CurOK(T), CurrentIn(a, T),
         NEW info, \A t \in Tags : info[t] # NoSpec => TagOf(info[t]) = t,
         info[Tag[Base]] = T.info[Tag[Base]],
         NEW q \in Seq(Specs), NEW B \in Specs, Contains(q, B), TagOf(B) = Tag[Base],
         info[Tag[Base]] = B
  PROVE  Quiet(T, info, q) <=>
           TagOf(T.host[T.cur]) = Tag[Base] /\ \A i \in 1..Len(q) : q[i].dev = Base
<1> DEFINE c == T.host[T.cur]
<1>1. c \in Specs /\ B # NoSpec /\ T.host \in Seq(Specs) /\ T.host # <<>>
  BY CurrentSpec, TabsType, SpecType DEF CurrentIn
<1>2. /\ T.last # NoSpec => TagOf(T.last) = TagOf(c)
      /\ c.dev = Base => T.last = T.info[TagOf(c)]
      /\ T.host[1].dev = Base
  BY DEF CurrentIn
<1> HIDE DEF c
<1>3. \A s \in Specs : TagOf(s) = Tag[Base] <=> s.dev = Base
  <2> SUFFICES ASSUME NEW s \in Specs PROVE TagOf(s) = Tag[Base] <=> s.dev = Base
    OBVIOUS
  <2>1. s.dev \in Owners /\ (s.dev # Base => s.dev \in Devices)
    BY SpecType DEF Owners
  <2> QED
    BY <2>1, SpecType DEF TagOf
<1>4. \A i \in 1..Len(q) : q[i] \in Specs /\ TagOf(q[i]) \in Tags
  BY SpecType
<1>5. ASSUME Quiet(T, info, q)
      PROVE  TagOf(c) = Tag[Base] /\ \A i \in 1..Len(q) : q[i].dev = Base
  <2>1. \A i \in 1..Len(q) : info[TagOf(q[i])] = T.last
    BY <1>5 DEF Quiet
  <2>2. T.last = B
    BY <2>1 DEF Contains
  <2>3. TagOf(c) = Tag[Base]
    BY <1>1, <1>2, <2>2
  <2>4. ASSUME NEW i \in 1..Len(q) PROVE q[i].dev = Base
    BY <1>1, <1>3, <1>4, <2>1, <2>2
  <2> QED
    BY <2>3, <2>4
<1>6. ASSUME TagOf(c) = Tag[Base], \A i \in 1..Len(q) : q[i].dev = Base
      PROVE  Quiet(T, info, q)
  <2>1. T.last = info[Tag[Base]]
    BY <1>1, <1>2, <1>3, <1>6
  <2>2. \A i \in 1..Len(q) : TagOf(q[i]) = Tag[Base]
    BY <1>6 DEF TagOf
  <2>3. TagOf(T.host[1]) = Tag[Base]
    BY <1>2 DEF TagOf
  <2> QED
    BY <2>1, <2>2, <2>3 DEF Quiet
<1> QED
  BY <1>5, <1>6 DEF c

LEMMA DepartureStep ==
  ASSUME TypeInv, Books, NEW a \in Activities, life[a] = "stopped",
         NEW d \in Devices, Detach(a, d)
  PROVE  crash' = "none" <=>
           /\ CurrentTag(a) = Tag[Base]
           /\ \A i \in 1..Len(specList') : specList'[i].dev = Base
<1> DEFINE T == tabs[a]
           K == known[a]
<1>1. /\ T \in Tabs /\ InfoOK(T) /\ CurOK(T) /\ specList \in Seq(Specs) /\ K \in Seq(Devices)
      /\ Contains(K, d)
  BY TabsFacts DEF Detach
<1>2. MappedIn(a, T, specList, K) /\ CurrentIn(a, T) /\ Distinct(K) /\ BaseFirst(specList)
  BY DEF Books, Book, Visible
<1>3. PICK s \in Specs, q \in Seq(Specs) : Removes(a, d, s, q)
  BY DetachMapped DEF Visible
<1>4. /\ T.info[Tag[d]] = s /\ q = RemoveFirst(specList, s) /\ specList' = q
      /\ Change(a, RemoveTab(T, s, q))
  BY <1>3 DEF Removes
<1>5. s.dev # Base /\ TagOf(s) = Tag[d] /\ Tag[d] # Tag[Base] /\ Tag[Base] \in Tags
  BY <1>3, RemovesOwn, SpecType
<1> DEFINE U == RemoveTab(T, s, q)
           info == [T.info EXCEPT ![TagOf(s)] = NoSpec]
<1> HIDE DEF T, K
<1>6. Rebuilt(T, info, q, U)
  BY <1>1, RemoveTabDoes
<1>7. MappedIn(a, U, q, RemoveFirst(K, d))
  BY <1>1, <1>2, <1>4, DetachKeeps
<1>8. RemoveFirst(K, d) \in Seq(Devices)
  BY <1>1, RemoveFirstType
<1> HIDE DEF U
<1>9. U \in Tabs /\ InfoOK(U) /\ U.info = info /\ (U.commits = FALSE <=> Quiet(T, info, q))
  BY <1>6, Zenon DEF Rebuilt
<1>10. SpecOf(Own(a, q), U, Base)
  BY <1>7, <1>8, MappedSpecs
<1>11. PICK B \in Specs : Contains(Own(a, q), B) /\ B.dev = Base /\ U.info[Tag[Base]] = B
  BY <1>10 DEF SpecOf
<1>12. Contains(q, B) /\ TagOf(B) = Tag[Base]
  BY <1>11, OwnContains DEF TagOf
<1>13. info[Tag[Base]] = T.info[Tag[Base]]
  BY <1>1, <1>5, TabsType
<1> HIDE DEF info
<1>14. (\A t \in Tags : info[t] # NoSpec => TagOf(info[t]) = t) /\ info[Tag[Base]] = B
  BY <1>9, <1>11 DEF InfoOK
<1>15. Quiet(T, info, q) <=>
         TagOf(T.host[T.cur]) = Tag[Base] /\ \A i \in 1..Len(q) : q[i].dev = Base
  BY <1>1, <1>2, <1>12, <1>13, <1>14, QuietMeans
<1>16. crash' = Committed(a, U) /\ U.commits \in BOOLEAN
  BY <1>4, <1>9, TabsType DEF Change, U, T
<1>17. crash' = "none" <=> U.commits = FALSE
  BY <1>16 DEF Committed
<1> QED
  BY <1>4, <1>9, <1>15, <1>17 DEF CurrentTag, T

LEMMA DeparturesStep ==
  ASSUME TypeInv, BookInv, [Next]_vars, NEW a \in managed', life[a] = "stopped",
         Len(known'[a]) < Len(known[a])
  PROVE  crash' = "none" <=>
           /\ CurrentTag(a) = Tag[Base]
           /\ \A i \in 1..Len(specList') : specList'[i].dev = Base
<1>1. a \in Activities
  <2>1. TypeInv'
    BY TypeStep
  <2> QED
    BY <2>1 DEF TypeInv, RestOK
<1>2. /\ known \in [Activities -> Seq(Devices)] /\ Len(known[a]) \in Nat
      /\ \A d : Len(Append(known[a], d)) = Len(known[a]) + 1
  BY <1>1, TabsFacts
<1>3. known'[a] # known[a]
  BY <1>2
<1>4. ~ UNCHANGED vars
  BY <1>3 DEF vars
<1>5. Books
  BY <1>4 DEF BookInv, Next, Act, Attach, Detach, Select, Open, Back, ServerDisconnect,
     Stop, Start, Recreate, Plug, Unplug, Running
<1>6. ASSUME NEW b \in Activities, NEW d \in Devices, Attach(b, d) PROVE FALSE
  <2>1. known' = [known EXCEPT ![b] = Append(known[b], d)]
    BY <1>6 DEF Attach
  <2>2. CASE b = a
    <3>1. Len(known'[a]) = Len(known[a]) + 1
      BY <1>1, <1>2, <2>1, <2>2
    <3> QED
      BY <1>2, <3>1
  <2>3. CASE b # a
    BY <1>1, <1>2, <1>3, <2>1, <2>3
  <2> QED
    BY <2>2, <2>3
<1>7. ASSUME NEW b \in Activities, NEW d \in Devices, Detach(b, d) PROVE b = a
  BY <1>1, <1>2, <1>3, <1>7 DEF Detach
<1>8. ASSUME NEW b \in Activities, ServerDisconnect(b) PROVE FALSE
  BY <1>1, <1>2, <1>3, <1>8 DEF ServerDisconnect
<1>9. \E d \in Devices : Detach(a, d)
  BY <1>3, <1>4, <1>6, <1>7, <1>8 DEF Next, Act, Select, Open, Back, Stop, Start, Recreate,
     Plug, Unplug
<1> QED
  BY <1>1, <1>5, <1>9, DepartureStep

(* With distinct tags, whatever an activity went through before: the departure  *)
(* of a device while it is stopped ends the process (IllegalStateException from   *)
(* the commit in onTabChanged), unless the main tab is the current one and no      *)
(* device tab is left on m_TabSpeclist, not even that of another activity.         *)
THEOREM DeparturesHold == ASSUME DistinctTags PROVE Spec => DeparturesInBackground
<1>1. Init => TypeInv /\ BookInv
  BY TypeInit, BookInit
<1>2. TypeInv /\ BookInv /\ [Next]_vars => (TypeInv /\ BookInv)'
  BY TypeStep, BookStep
<1>3. TypeInv /\ BookInv /\ [Next]_vars =>
        [\A a \in managed' :
           life[a] = "stopped" /\ Len(known'[a]) < Len(known[a]) =>
             (crash' = "none" <=>
                /\ CurrentTag(a) = Tag[Base]
                /\ \A i \in 1..Len(specList') : specList'[i].dev = Base)]_vars
  BY DeparturesStep
<1> QED
  BY <1>1, <1>2, <1>3, PTL DEF Spec, DeparturesInBackground

-----------------------------------------------------------------------------
(* One activity is a directory of tabs.                                      *)

DirTabs == IF DirectoryOpen THEN DevicesOf(Visited.host) ELSE <<>>
DirSelected == IF DirectoryOpen THEN Visited.host[Visited.cur].dev ELSE Base

LEMMA SameHelpers ==
  /\ \A q, e : Directory!Contains(q, e) <=> Contains(q, e)
  /\ \A q, e : Directory!RemoveFirst(q, e) = RemoveFirst(q, e)
  /\ \A q : Directory!Last(q) = Last(q) /\ Directory!ToSet(q) = ToSet(q)
<1>1. \A q, e : Directory!Contains(q, e) <=> Contains(q, e)
  BY DEF Directory!Contains, Contains
<1>2. \A q, e : Directory!RemoveFirst(q, e) = RemoveFirst(q, e)
  BY Zenon DEF Directory!RemoveFirst, RemoveFirst, Directory!SelectInSeq, SelectInSeq,
     Directory!RemoveAt, RemoveAt, Directory!Min, Min
<1>3. \A q : Directory!Last(q) = Last(q) /\ Directory!ToSet(q) = ToSet(q)
  BY DEF Directory!Last, Last, Directory!ToSet, ToSet
<1> QED
  BY <1>1, <1>2, <1>3

\* The specs of the only activity are all its own.
LEMMA AllOwn ==
  ASSUME \A a, b \in Activities : a = b, NEW a \in Activities, NEW q \in Seq(Specs)
  PROVE  Own(a, q) = q
<1> DEFINE G == {z \in Seq(Specs) : Own(a, z) = z}
<1>1. <<>> \in G
  <2>1. <<>> \in Seq(Specs)
    OBVIOUS
  <2> QED
    BY <2>1, OwnEmpty
<1>2. ASSUME NEW z \in Seq(Specs), NEW x \in Specs, z \in G PROVE Append(z, x) \in G
  <2>1. x.act = a
    BY SpecType
  <2>2. Own(a, Append(z, x)) = Append(Own(a, z), x)
    BY <2>1, OwnAdded
  <2>3. Own(a, z) = z /\ Append(z, x) \in Seq(Specs)
    BY <1>2
  <2> QED
    BY <2>2, <2>3
<1>3. q \in G
  <2>1. \A z \in Seq(Specs), x \in Specs : z \in G => Append(z, x) \in G
    BY <1>2
  <2> HIDE DEF G
  <2>2. \A z \in Seq(Specs) : z \in G
    BY <1>1, <2>1, SequenceSteps, Zenon
  <2> QED
    BY <2>2
<1> QED
  BY <1>3

\* The directory is open while the only activity is visible.
LEMMA OnlyOpen ==
  ASSUME \A a, b \in Activities : a = b, NEW a \in Activities
  PROVE  /\ DirectoryOpen <=> crash = "none" /\ Visible(a)
         /\ Visible(a) => Visited = tabs[a]
         /\ DirectoryOpen' <=> crash' = "none" /\ Visible(a)'
         /\ Visible(a)' => Visited' = tabs'[a]
<1>1. Visible(a) => (CHOOSE b \in Activities : Visible(b)) = a
  OBVIOUS
<1>2. Visible(a)' => (CHOOSE b \in Activities : Visible(b)') = a
  OBVIOUS
<1> QED
  BY <1>1, <1>2 DEF DirectoryOpen, Visited

\* What it shows of a record T with the announced devices K.
LEMMA DirOf ==
  ASSUME \A a, b \in Activities : a = b, NEW a \in Activities, NEW T \in Tabs, CurOK(T),
         NEW q, NEW K \in Seq(Devices), MappedIn(a, T, q, K), CurrentIn(a, T)
  PROVE  /\ DevicesOf(T.host) = <<Base>> \o K
         /\ T.host[T.cur].dev = DevicesOf(T.host)[T.cur] /\ T.cur \in 1..Len(<<Base>> \o K)
         /\ Len(T.host) = Len(<<Base>> \o K) /\ T.host # <<>>
<1>1. T.host \in Seq(Specs)
  BY TabsType
<1>2. Own(a, T.host) = T.host
  BY <1>1, AllOwn
<1>3. DevicesOf(T.host) = <<Base>> \o K
  BY <1>2 DEF MappedIn
<1>4. Len(DevicesOf(T.host)) = Len(T.host) /\ T.cur \in 1..Len(T.host) /\ T.host # <<>>
      /\ \A i \in 1..Len(T.host) : DevicesOf(T.host)[i] = T.host[i].dev
  BY <1>1, DevicesType, CurrentSpec DEF CurrentIn
<1> QED
  BY <1>3, <1>4

LEMMA DirStays ==
  ASSUME \A a, b \in Activities : a = b, NEW a \in Activities,
         TypeInv, BookInv, TypeInv', BookInv', [Next]_vars, DirectoryOpen, DirectoryOpen'
  PROVE  [Directory!Next]_<<DirTabs, DirSelected, DirectoryOpen>>
<1> DEFINE T == tabs[a]
           U == tabs'[a]
           K == known[a]
           L == known'[a]
           w == <<Base>> \o K
           x == <<Base>> \o L
<1>1. crash = "none" /\ crash' = "none" /\ Visible(a) /\ Visible(a)'
  BY OnlyOpen
<1>2. Visited = T /\ Visited' = U
  BY <1>1, OnlyOpen
<1>3. T \in Tabs /\ CurOK(T) /\ InfoOK(T) /\ K \in Seq(Devices) /\ specList \in Seq(Specs)
      /\ U \in Tabs /\ CurOK(U) /\ L \in Seq(Devices)
      /\ known \in [Activities -> Seq(Devices)] /\ tabs \in [Activities -> Tabs]
  BY DEF TypeInv, TabsOK, RestOK
<1>4. /\ MappedIn(a, T, specList, K) /\ CurrentIn(a, T) /\ Distinct(K) /\ BaseFirst(specList)
      /\ MappedIn(a, U, specList', L) /\ CurrentIn(a, U)
      /\ Books
  BY <1>1 DEF BookInv, Books, Book
<1> HIDE DEF T, U, K, L
<1>5. /\ DevicesOf(T.host) = w /\ T.host[T.cur].dev = w[T.cur] /\ T.cur \in 1..Len(w)
      /\ Len(T.host) = Len(w)
  BY <1>3, <1>4, DirOf
<1>6. /\ DevicesOf(U.host) = x /\ U.host[U.cur].dev = x[U.cur] /\ U.cur \in 1..Len(x)
      /\ Len(U.host) = Len(x)
  BY <1>3, <1>4, DirOf
<1>7. /\ DirTabs = w /\ DirTabs' = x /\ DirSelected = w[T.cur] /\ DirSelected' = x[U.cur]
      /\ DirectoryOpen' = DirectoryOpen
  BY <1>2, <1>5, <1>6 DEF DirTabs, DirSelected
<1>8. \A b \in Activities : b = a
  OBVIOUS
<1> HIDE DEF w, x
<1>9. CASE UNCHANGED vars
  <2>1. U = T /\ L = K
    BY <1>9 DEF vars, U, T, L, K
  <2>2. x = w
    BY <2>1 DEF x, w
  <2> QED
    BY <1>7, <2>1, <2>2
<1>10. ASSUME NEW d \in Devices, Attach(a, d) PROVE Directory!Arrive(d)
  <2> DEFINE s == NewSpec(a, d)
             V == AddTab(T, s)
  <2>1. s \in Specs /\ T.cur # 0
    BY <1>3, <1>5, NewSpecType, SpecType
  <2>2. Change(a, V) /\ ~Contains(K, d) /\ known' = [known EXCEPT ![a] = Append(known[a], d)]
    BY <1>10 DEF Attach, T, K
  <2> HIDE DEF s
  <2>3. V \in Tabs /\ V.host = Append(T.host, s) /\ V.cur = T.cur
    BY <1>3, <2>1, AddTabDoes
  <2>4. L = Append(K, d)
    BY <1>3, <2>2 DEF L, K
  <2>5. x = Append(w, d)
    BY <1>3, <2>4, WithBaseAppended DEF x, w
  <2>6. ~Contains(w, d)
    BY <1>3, <2>2, WithBaseContains, SpecType DEF w
  <2>7. U.cur = T.cur
    BY <2>2, <2>3, ChangeSets DEF U
  <2>8. w \in Seq(Owners)
    BY <1>3, WithBase DEF w
  <2>9. x[U.cur] = w[T.cur]
    BY <1>5, <2>5, <2>7, <2>8, SpecType
  <2> QED
    BY <1>7, <2>5, <2>6, <2>9, SameHelpers DEF Directory!Arrive, DirTabs, DirSelected
<1>11. ASSUME NEW d \in Devices, Detach(a, d) PROVE Directory!Leave(d)
  <2>1. PICK s \in Specs, q \in Seq(Specs) : Removes(a, d, s, q)
    BY <1>1, <1>4, <1>11, DetachMapped
  <2> DEFINE V == RemoveTab(T, s, q)
  <2>2. Change(a, V) /\ Contains(K, d)
        /\ known' = [known EXCEPT ![a] = RemoveFirst(known[a], d)]
    BY <1>11, <2>1 DEF Detach, Removes, T, K
  <2>3. Rebuilt(T, [T.info EXCEPT ![TagOf(s)] = NoSpec], q, V)
    BY <1>3, RemoveTabDoes
  <2> HIDE DEF V
  <2>4. V \in Tabs /\ V.host = q /\ V.cur = Len(q)
    BY <2>3 DEF Rebuilt
  <2>5. L = RemoveFirst(K, d)
    BY <1>3, <2>2 DEF L, K
  <2>6. x = RemoveFirst(w, d) /\ Contains(w, d)
    BY <1>3, <2>2, <2>5, WithBaseRemoved, WithBaseContains DEF x, w
  <2>7. U.cur = Len(U.host)
    BY <2>2, <2>4, ChangeSets DEF U
  <2>8. x[U.cur] = Last(x)
    BY <1>6, <2>7 DEF Last
  <2> QED
    BY <1>7, <2>6, <2>8, SameHelpers DEF Directory!Leave, DirTabs, DirSelected
<1>12. ASSUME Select(a) PROVE Directory!Select
  <2>1. L = K
    BY <1>12 DEF Select, L, K
  <2>2. x = w
    BY <2>1 DEF x, w
  <2>3. x[U.cur] \in ToSet(w)
    <3>1. w \in Seq(Owners)
      BY <1>3, WithBase DEF w
    <3> QED
      BY <1>6, <2>2, <3>1 DEF ToSet
  <2> QED
    BY <1>7, <2>2, <2>3, SameHelpers DEF Directory!Select, DirTabs, DirSelected
<1>13. ASSUME Stop(a) \/ Start(a) \/ \E d \in Devices : Plug(d) \/ Unplug(d)
       PROVE  UNCHANGED <<DirTabs, DirSelected, DirectoryOpen>>
  <2>1. U = T /\ L = K
    BY <1>13 DEF Stop, Start, Plug, Unplug, U, T, L, K
  <2>2. x = w
    BY <2>1 DEF x, w
  <2> QED
    BY <1>7, <2>1, <2>2
<1>14. ~Open(a) /\ ~Back(a) /\ ~ServerDisconnect(a)
  <2>1. life \in [Activities -> {"new", "front", "stopped", "gone"}]
    BY TabsFacts
  <2> QED
    BY <1>1, <2>1 DEF Open, Back, ServerDisconnect, Visible
<1>15. \A b \in Activities, killed \in BOOLEAN : ~Recreate(a, b, killed)
  BY <1>8 DEF Recreate
<1>16. CASE Next
  <2>1. CASE \E b \in Activities : Act(b)
    <3>1. Act(a)
      BY <1>8, <2>1
    <3> QED
      BY <1>10, <1>11, <1>12, <1>13, <1>14, <1>15, <3>1 DEF Act, Directory!Next
  <2>2. CASE \E d \in Devices : Plug(d) \/ Unplug(d)
    BY <1>13, <2>2
  <2> QED
    BY <1>16, <2>1, <2>2 DEF Next
<1> QED
  BY <1>9, <1>16

LEMMA DirOpens ==
  ASSUME \A a, b \in Activities : a = b, NEW a \in Activities,
         TypeInv, BookInv, TypeInv', BookInv', [Next]_vars, ~DirectoryOpen, DirectoryOpen'
  PROVE  Directory!Open
<1> DEFINE U == tabs'[a]
<1>1. crash' = "none" /\ Visible(a)' /\ Visited' = U /\ ~(crash = "none" /\ Visible(a))
  BY OnlyOpen
<1>2. \A b \in Activities : b = a
  OBVIOUS
<1>3. Open(a)
  <2>1. ~UNCHANGED vars
    BY <1>1 DEF vars, Visible
  <2>2. crash = "none"
    BY <2>1 DEF Next, Act, Attach, Detach, Select, Open, Back, ServerDisconnect,
       Stop, Start, Recreate, Plug, Unplug, Running
  <2>3. life'[a] # life[a] /\ life[a] \notin {"front", "stopped"}
    BY <1>1, <2>2 DEF Visible
  <2>4. CASE \E b \in Activities : Act(b)
    <3>1. Act(a)
      BY <1>2, <2>4
    <3>2. ~ServerDisconnect(a)
      <4>1. life \in [Activities -> {"new", "front", "stopped", "gone"}]
        BY TabsFacts
      <4> QED
        BY <1>1, <4>1 DEF ServerDisconnect, Visible
    <3> QED
      BY <1>2, <2>3, <3>1, <3>2 DEF Act, Attach, Detach, Select, Back, Stop, Start, Recreate
  <2>5. ~ \E d \in Devices : Plug(d) \/ Unplug(d)
    BY <2>3 DEF Plug, Unplug
  <2> QED
    BY <2>1, <2>4, <2>5 DEF Next
<1>4. Books
  BY <1>3 DEF BookInv, Open, Running
<1>5. known'[a] = <<>>
  BY <1>3, <1>4 DEF Open, Books, Book
<1>6. U \in Tabs /\ CurOK(U)
  BY DEF TypeInv, TabsOK
<1>7. MappedIn(a, U, specList', known'[a]) /\ CurrentIn(a, U)
  BY <1>1 DEF BookInv, Books, Book
<1> DEFINE L == known'[a]
<1>8. L \in Seq(Devices)
  BY DEF TypeInv, RestOK
<1>14. L = <<>>
  BY <1>5
<1> HIDE DEF U, L
<1>9. /\ DevicesOf(U.host) = <<Base>> \o L /\ U.cur \in 1..Len(<<Base>> \o L)
      /\ U.host[U.cur].dev = DevicesOf(U.host)[U.cur]
  BY <1>6, <1>7, <1>8, DirOf DEF L
<1> DEFINE w == <<Base>> \o L
<1>10. w \in Seq(Owners) /\ Len(w) = Len(L) + 1 /\ w[1] = Base
  BY <1>8, WithBase
<1>15. U.cur \in 1..Len(w)
  BY <1>9
<1> HIDE DEF w
<1>11. Len(w) = 1
  BY <1>10, <1>14
<1>16. U.cur = 1
  BY <1>11, <1>15
<1> DEFINE o == <<Base>>
<1>17. o \in Seq(Owners) /\ Len(o) = 1 /\ o[1] = Base
  BY SpecType
<1> HIDE DEF o
<1>18. w = o
  BY <1>10, <1>11, <1>17
<1>12. w = <<Base>> /\ w[U.cur] = Base
  BY <1>10, <1>16, <1>18 DEF o
<1>13. DirTabs' = <<Base>> /\ DirSelected' = Base
  BY <1>1, <1>9, <1>12 DEF DirTabs, DirSelected, w
<1> QED
  BY <1>13 DEF Directory!Open, DirTabs, DirSelected

LEMMA DirStep ==
  ASSUME \A a, b \in Activities : a = b,
         TypeInv, BookInv, TypeInv', BookInv', [Next]_vars
  PROVE  [Directory!Next]_<<DirTabs, DirSelected, DirectoryOpen>>
<1>1. CASE DirectoryOpen /\ DirectoryOpen'
  <2>1. PICK a \in Activities : Visible(a)
    BY <1>1 DEF DirectoryOpen
  <2> QED
    BY <1>1, <2>1, DirStays
<1>2. CASE ~DirectoryOpen /\ DirectoryOpen'
  <2>1. PICK a \in Activities : Visible(a)'
    BY <1>2 DEF DirectoryOpen
  <2>2. Directory!Open
    BY <1>2, <2>1, DirOpens
  <2> QED
    BY <2>2 DEF Directory!Next
<1>3. CASE DirectoryOpen /\ ~DirectoryOpen'
  <2>1. DirTabs' = <<>> /\ DirSelected' = Base
    BY <1>3 DEF DirTabs, DirSelected
  <2>2. Directory!Close
    BY <1>3, <2>1 DEF Directory!Close, DirTabs, DirSelected
  <2> QED
    BY <2>2 DEF Directory!Next
<1>4. CASE ~DirectoryOpen /\ ~DirectoryOpen'
  <2>1. DirTabs' = <<>> /\ DirSelected' = Base /\ DirTabs = <<>> /\ DirSelected = Base
    BY <1>4 DEF DirTabs, DirSelected
  <2>2. DirectoryOpen' = DirectoryOpen
    BY <1>4, Zenon DEF DirectoryOpen
  <2> QED
    BY <2>1, <2>2
<1> QED
  BY <1>1, <1>2, <1>3, <1>4

(* One activity and any number of devices with distinct tags: the tabs of the   *)
(* host implement the directory of module TabDirectory.  A device that arrives     *)
(* (addTab) appends its tab and leaves the selection alone, one that departs       *)
(* (removeTab) takes its tab away in one step and selects the last tab that        *)
(* remains, although the host is emptied and filled again on the way.             *)
THEOREM DirectoryHolds ==
  ASSUME DistinctTags, \A a, b \in Activities : a = b
  PROVE  Spec => DirectorySpec
<1>1. Init => TypeInv /\ BookInv
  BY TypeInit, BookInit
<1>2. TypeInv /\ BookInv /\ [Next]_vars => (TypeInv /\ BookInv)'
  BY TypeStep, BookStep
<1>3. Init => Directory!Init
  BY DEF Init, Directory!Init, DirectoryOpen, Visible
<1>4. TypeInv /\ BookInv /\ (TypeInv /\ BookInv)' /\ [Next]_vars =>
        [Directory!Next]_<<DirTabs, DirSelected, DirectoryOpen>>
  BY DirStep
<1> QED
  BY <1>1, <1>2, <1>3, <1>4, PTL DEF Spec, DirectorySpec, Directory!Spec, DirTabs, DirSelected

=============================================================================
