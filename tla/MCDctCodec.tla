----------------------------- MODULE MCDctCodec -----------------------------
(* Instances of DctCodec for TLC. *)
EXTENDS DctCodec

Flat(q) == [v \in 0..7 |-> [u \in 0..7 |-> q]]

\* Table 0 keeps every coefficient, table 1 is coarser at high frequencies and
\* table 2 as coarse as the fast method needs: its tables are too small for
\* quantisation steps near 1.
MCQuant == 0 :> Flat(1) @@ 1 :> [v \in 0..7 |-> [u \in 0..7 |-> 2 + u + v]] @@ 2 :> Flat(40)

Comp(w, h, tbl) == [w |-> w, h |-> h, tbl |-> tbl, needed |-> TRUE]
Alone(wh) == [comps |-> <<Comp(wh[1], wh[2], 0)>>, method |-> "ISLOW"]

\* Every block size alone; a 4:2:0 file coded with the fast method, whose
\* chrominance has blocks and a table of its own, and one with a single table;
\* and a colour file of which the decoder needs the luminance only.
MCSetups ==
  {Alone(wh) : wh \in I!IdctSizes}
    \cup {[comps |-> <<Comp(8, 8, 2), Comp(16, 16, tbl)>>, method |-> "IFAST"] : tbl \in {1, 2}}
    \cup {[comps |-> <<Comp(8, 8, 1), [Comp(8, 8, 1) EXCEPT !.needed = FALSE]>>,
           method |-> "ISLOW"]}

\* The sizes with 12 and 14 samples in a row.
WideSetups == {Alone(wh) : wh \in {<<12, 12>>, <<12, 6>>, <<14, 14>>, <<14, 7>>}}

\* Every frequency, the sign of the coefficient alternating.
AllWaves == {<<u, v, IF (u + v) % 2 = 0 THEN 400 ELSE -391>> : u, v \in 0..7}
=============================================================================
