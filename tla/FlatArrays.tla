----------------------------- MODULE FlatArrays -----------------------------
(***************************************************************************)
(* What the memory manager of jpeg8d promises of its virtual arrays: each is *)
(* a plain array of rows, whatever part of it is in memory.  A caller is      *)
(* granted a range of rows and sees and changes just these, until its next   *)
(* access.  Rows that nobody has opened for writing are zero in a pre-zeroed  *)
(* array and may not be read in any other.                                   *)
(***************************************************************************)
EXTENDS Integers

CONSTANTS
  Arrays,  \* the virtual arrays
  Shape,   \* for each: [rows_in_array, width, maxaccess, pre_zero, kind]
  Values,  \* what a row may hold
  Blank(_) \* what a row of an array holds that was never written

VARIABLES
  cells,    \* for each array: its rows
  defined,  \* for each array: how many of them have been opened for writing
  grant     \* for each array: the rows its caller may use

vars == <<cells, defined, grant>>

Rows(a) == 0..(Shape[a].rows_in_array - 1)
NoGrant == [start |-> 0, num |-> 0, writable |-> FALSE]
Larger(x, y) == IF x < y THEN y ELSE x

Init ==
  /\ cells = [a \in Arrays |-> [r \in Rows(a) |-> Blank(a)]]
  /\ defined = [a \in Arrays |-> 0]
  /\ grant = [a \in Arrays |-> NoGrant]

\* The rows in [start, start + num) are granted.  What a newly defined row of
\* an array that is not pre-zeroed holds is nobody's business.
Grant(a, start, num, writable) ==
  /\ num <= Shape[a].maxaccess /\ start + num <= Shape[a].rows_in_array
  /\ writable => start <= defined[a]
  /\ ~writable /\ ~Shape[a].pre_zero => start + num <= defined[a]
  /\ grant' = [grant EXCEPT ![a] = [start |-> start, num |-> num, writable |-> writable]]
  /\ defined' = [defined EXCEPT ![a] = IF writable THEN Larger(@, start + num) ELSE @]
  /\ \A b \in Arrays \ {a} : cells'[b] = cells[b]
  /\ \A r \in Rows(a) :
       cells'[a][r] # cells[a][r] =>
         ~Shape[a].pre_zero /\ writable /\ r >= defined[a] /\ r < start + num

\* An access fails: nobody may use the array for now.
Revoke(a) ==
  /\ grant' = [grant EXCEPT ![a] = NoGrant]
  /\ UNCHANGED <<cells, defined>>

Write(a, r, x) ==
  /\ grant[a].writable /\ r \in grant[a].start..(grant[a].start + grant[a].num - 1)
  /\ cells' = [cells EXCEPT ![a][r] = x]
  /\ UNCHANGED <<defined, grant>>

\* The image is done with.
Discard ==
  /\ cells' = [a \in Arrays |-> [r \in Rows(a) |-> Blank(a)]]
  /\ defined' = [a \in Arrays |-> 0]
  /\ grant' = [a \in Arrays |-> NoGrant]

Next ==
  \/ \E a \in Arrays :
       \/ \E start \in Rows(a), num \in 0..Shape[a].maxaccess, writable \in BOOLEAN :
            Grant(a, start, num, writable)
       \/ \E r \in Rows(a), x \in Values : Write(a, r, x)
       \/ Revoke(a)
  \/ Discard

Spec == Init /\ [][Next]_vars
=============================================================================
