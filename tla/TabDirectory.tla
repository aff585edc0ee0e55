---------------------------- MODULE TabDirectory ----------------------------
(***************************************************************************)
(* What TabsFragmentActivity promises its user: after the main tab, one    *)
(* tab for every attached device, in the order of attachment; a tab stays  *)
(* selected until the user selects another or a device leaves, which       *)
(* selects the last tab.                                                   *)
(***************************************************************************)
EXTENDS Naturals, Sequences, SequencesExt

CONSTANTS Devices, Base     \* the devices, and the tab that is not a device

VARIABLES tabs, selected, open

Init == tabs = <<>> /\ selected = Base /\ open = FALSE

Open == /\ ~open
        /\ open' = TRUE /\ tabs' = <<Base>> /\ selected' = Base

Arrive(d) == /\ open /\ ~Contains(tabs, d)
             /\ tabs' = Append(tabs, d)
             /\ UNCHANGED <<selected, open>>

Leave(d) == /\ open /\ Contains(tabs, d)
            /\ tabs' = RemoveFirst(tabs, d)
            /\ selected' = Last(tabs')
            /\ UNCHANGED open

Select == /\ open /\ selected' \in ToSet(tabs)
          /\ UNCHANGED <<tabs, open>>

Close == /\ open /\ open' = FALSE
         /\ tabs' = <<>> /\ selected' = Base

Next == Open \/ (\E d \in Devices : Arrive(d) \/ Leave(d)) \/ Select \/ Close

Spec == Init /\ [][Next]_<<tabs, selected, open>>
=============================================================================
