------------------------- MODULE MCProgressiveScans -------------------------
(* Instances of ProgressiveScans for TLC. *)
EXTENDS ProgressiveScans, TLC

\* A block of a 2x2 or 5x5 frame, from its coefficients 0..3 or its nonzero ones.
Small(a, b, c, d) == 0 :> a @@ 1 :> b @@ 2 :> c @@ 3 :> d @@ 63 :> 0
Sparse(nz) == nz @@ [k \in 0..24 \cup {63} |-> 0]

Sc(comps, Ss, Se, Ah, Al) == [comps |-> comps, Ss |-> Ss, Se |-> Se, Ah |-> Ah, Al |-> Al]
Zeroes == [dc |-> 2, ac |-> 1]

\* Two components, DC together, then each AC band in two or three steps.
TwoComponents ==
  <<Sc(<<1, 2>>, 0, 0, 0, 1), Sc(<<1>>, 1, 3, 0, 1), Sc(<<2>>, 1, 2, 0, 0),
    Sc(<<1, 2>>, 0, 0, 1, 0), Sc(<<1>>, 1, 3, 1, 0)>>
OneComponent ==
  <<Sc(<<1>>, 0, 0, 0, 1), Sc(<<1>>, 1, 3, 0, 2), Sc(<<1>>, 1, 3, 2, 1),
    Sc(<<1>>, 0, 0, 1, 0), Sc(<<1>>, 1, 3, 1, 0)>>
LongBand ==
  <<Sc(<<1>>, 0, 0, 0, 0), Sc(<<1>>, 1, 24, 0, 1), Sc(<<1>>, 1, 24, 1, 0)>>
Sequential(comps, Se) == <<Sc(comps, 0, Se, 0, 0)>>

\* Blocks with new, old, positive, negative and no coefficients at each step.
Textures == {Small(5, 1, -3, 1), Small(-2, 6, 0, -1), Small(3, 0, -1, 5), Small(0, -5, 1, 0),
             Small(-1, 0, 0, 0), Small(7, 4, -4, 3)}
Flat(n) == [m \in 1..n |-> Small(1, 0, 0, 0)]

Case(image, script, progressive, interval, lim_Se, suspends, lossy) ==
  [image |-> image, script |-> script, progressive |-> progressive,
   restart_interval |-> interval, lim_Se |-> lim_Se, zeroes |-> Zeroes,
   suspends |-> suspends, lossy |-> lossy]

Suspending ==
  {Case(<<<<a, b>>, <<b, a>>>>, TwoComponents, TRUE, i, 3, TRUE, FALSE) :
     a, b \in Textures, i \in {0, 1}}
  \cup {Case(<<<<a, b, Small(2, 0, 0, 0)>>>>, OneComponent, TRUE, 2, 3, TRUE, FALSE) :
          a, b \in Textures}
  \cup {Case(<<<<a, b>>, <<b, b>>>>, Sequential(<<1, 2>>, 3), FALSE, i, 3, TRUE, FALSE) :
          a, b \in Textures, i \in {0, 1}}

\* Runs of more than 15 zeroes, with and without corrections in between.
Long ==
  {Case(<<<<Sparse(nz), Sparse(0 :> 3), Sparse(5 :> -3 @@ 24 :> 1)>>>>, LongBand, TRUE, 0, 24,
        TRUE, FALSE) :
     nz \in {18 :> 1, 2 :> 3 @@ 20 :> -1, 1 :> -2 @@ 19 :> 1 @@ 21 :> 3, 20 :> 5, 22 :> -1 @@ 3 :> 2}}
  \cup {Case(<<<<Sparse(nz), Sparse(0 :> -9)>>>>, Sequential(<<1>>, 24), FALSE, 0, 24, TRUE, FALSE) :
          nz \in {18 :> 1, 2 :> 3 @@ 20 :> -1, 17 :> 7 @@ 24 :> 1}}

\* Runs of blocks that end early, longer than EOBRUN_MAX.
Runs == {Case(<<Flat(8) \o <<a, a>> \o Flat(2)>>, OneComponent, TRUE, i, 3, FALSE, FALSE) :
           a \in Textures, i \in {0, 5}}

\* Every loss from an image of six restart intervals.
Losing ==
  {Case(<<<<a, b, a, Small(2, 0, 0, 0), b, a>>>>,
        <<Sc(<<1>>, 0, 0, 0, 1), Sc(<<1>>, 1, 3, 0, 1), Sc(<<1>>, 0, 0, 1, 0), Sc(<<1>>, 1, 3, 1, 0)>>,
        TRUE, 1, 3, FALSE, TRUE) :
     a \in {Small(5, 1, -3, 1), Small(0, -5, 1, 0)}, b \in {Small(3, 0, -1, 5), Small(-1, 0, 0, 0)}}
  \cup {Case(<<<<a, Small(2, 0, 0, 0), a, Small(7, 4, -4, 3), a, Small(7, 4, -4, 3)>>>>,
             Sequential(<<1>>, 3), FALSE, 2, 3, FALSE, TRUE) : a \in Textures}

MCCases == Suspending \cup Long \cup Runs \cup Losing
=============================================================================
