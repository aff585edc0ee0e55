----------------------------- MODULE DctScaling -----------------------------
(***************************************************************************)
(* What the forward and the inverse DCTs of jpeg8d share: the fixed point   *)
(* of jdct.h, jidctint.c and jfdctint.c, and how a function is tabulated.   *)
(***************************************************************************)
EXTENDS Integers, Sequences, TLC

\* Constants are held as 2^CONST_BITS times their value, and the workspace
\* between the two passes keeps PASS1_BITS more bits than the result.
CONST_BITS == 13
PASS1_BITS == 2
CENTERJSAMPLE == 128

\* DESCALE: a right shift of x after half a unit has been added.
Descale(x, n) == IF n = 0 THEN x ELSE (x + 2^(n - 1)) \div 2^n

\* The function f itself.  TLC evaluates a function expression again at every
\* application of it; the operands of @@ it evaluates once.
Table(f) == f @@ <<>>
=============================================================================
