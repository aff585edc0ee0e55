---------------------------- MODULE SyncCallback ----------------------------
(***************************************************************************)
(* What TabsFragmentActivity promises the Phidget library: a callback      *)
(* (attached, detached, serverDisconnected) behaves like a synchronous     *)
(* call into the main thread.  The library thread raises an event, the     *)
(* main thread handles it, and only then does the callback return.         *)
(***************************************************************************)
CONSTANT Threads        \* the library threads that deliver events

VARIABLE phase          \* where each library thread stands in its callback

Phases == {"out", "raised", "handled"}

TypeOK == phase \in [Threads -> Phases]

Init == phase = [t \in Threads |-> "out"]

Move(t, from, to) == /\ phase[t] = from
                     /\ phase' = [phase EXCEPT ![t] = to]

Raise(t)  == Move(t, "out", "raised")
Handle(t) == Move(t, "raised", "handled")
Return(t) == Move(t, "handled", "out")

Next == \E t \in Threads : Raise(t) \/ Handle(t) \/ Return(t)

(* The library may stay quiet forever, but an event once raised is handled *)
(* and the callback returns.                                               *)
Spec == /\ Init /\ [][Next]_phase
        /\ \A t \in Threads : WF_phase(Handle(t)) /\ WF_phase(Return(t))
=============================================================================
