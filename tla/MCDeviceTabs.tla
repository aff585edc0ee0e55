---------------------------- MODULE MCDeviceTabs ----------------------------
(* Values for the constants of DeviceTabs.                                 *)
EXTENDS DeviceTabs

CONSTANTS d1, d2, d3

(* Every device has a tag of its own.                                      *)
OwnTags == [o \in Owners |-> IF o = Base THEN "BaseTab" ELSE
                             IF o = d1 THEN "kit" ELSE
                             IF o = d2 THEN "thermo" ELSE "motion"]

=============================================================================
