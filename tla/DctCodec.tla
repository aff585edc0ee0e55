------------------------------ MODULE DctCodec ------------------------------
(***************************************************************************)
(* The DCT managers of jpeg8d, jcdctmgr.c and jddctmgr.c: which kernel a     *)
(* component gets, and the divisor and multiplier tables that go with it.    *)
(*                                                                          *)
(* The encoder's start_pass_fdctmgr walks through the components; a divisor  *)
(* table belongs to a QUANTISATION TABLE, so two components that name the    *)
(* same table share it.  The decoder's start_pass runs before every output   *)
(* pass (several in buffered-image mode, where the DCT method may change     *)
(* between them), and keeps per component the method its multiplier table    *)
(* was built for.                                                           *)
(*                                                                          *)
(* Blocks are cosine waves: a wave's transform is one coefficient, so what   *)
(* is right for every coefficient and every size is known without any        *)
(* transform.  The floating-point method (JDCT_FLOAT) is not modelled.       *)
(***************************************************************************)
EXTENDS DctScaling, FiniteSets

F == INSTANCE FdctKernels
I == INSTANCE IdctKernels

CONSTANTS
  Setups,    \* [comps, method] tried: components [w, h, tbl, needed], dct_method
  Quant,     \* quantisation tables: table number -> 8x8 quantval
  Methods,   \* the decoder's dct_method tried: a subset of {"ISLOW", "IFAST"}
  Waves      \* the waves tried: <<u, v, level>>, the frequencies and the coefficient

ASSUME MethodAssumption == Methods \subseteq {"ISLOW", "IFAST"}

VARIABLES
  comp_info,   \* the components, of a member of Setups
  dct_method,  \* the encoder's cinfo->dct_method
  do_dct,      \* encoder: the kernel of each component, "none" before start_pass
  divisors,    \* encoder: the divisor table of each quantisation table
  block,       \* what was encoded last: [c, u, v, level, coef], or NoBlock
  latched,     \* decoder: the components whose quant_table is saved
  inverse_DCT, \* decoder: the kernel of each component
  cur_method,  \* decoder: the method each multiplier table was built for
  dct_table,   \* decoder: the multiplier table of each component
  output       \* the samples block was decoded to, or NoBlock

vars == <<comp_info, dct_method, do_dct, divisors, block,
          latched, inverse_DCT, cur_method, dct_table, output>>

NoBlock == [c |-> 0]
Zero == [v \in 0..7 |-> [u \in 0..7 |-> 0]]
Components == 1..Len(comp_info)

-----------------------------------------------------------------------------
(* The tables.                                                             *)

\* scalefactor[row]*scalefactor[col] of the AA&N transforms, 14 bits.
AanScales ==
  <<<<16384, 22725, 21407, 19266, 16384, 12873, 8867, 4520>>,
    <<22725, 31521, 29692, 26722, 22725, 17855, 12299, 6270>>,
    <<21407, 29692, 27969, 25172, 21407, 16819, 11585, 5906>>,
    <<19266, 26722, 25172, 22654, 19266, 15137, 10426, 5315>>,
    <<16384, 22725, 21407, 19266, 16384, 12873, 8867, 4520>>,
    <<12873, 17855, 16819, 15137, 12873, 10114, 6967, 3552>>,
    <<8867, 12299, 11585, 10426, 8867, 6967, 4799, 2446>>,
    <<4520, 6270, 5906, 5315, 4520, 3552, 2446, 1247>>>>

\* The method that goes with a component's size: only 8x8 blocks have a choice.
MethodFor(comp, method) == IF <<comp.w, comp.h>> = <<8, 8>> THEN method ELSE "ISLOW"

\* The divisors of quantisation table q for a method.
DivisorTable(q, method) ==
  [v \in 0..7 |-> [u \in 0..7 |->
     CASE method = "ISLOW" -> q[v][u]*8
       [] method = "IFAST" -> Descale(q[v][u]*AanScales[v + 1][u + 1], 14 - 3)]]

\* The multipliers of quantisation table q for a method (IFAST_SCALE_BITS = 2).
MultiplierTable(q, method) ==
  [v \in 0..7 |-> [u \in 0..7 |->
     CASE method = "ISLOW" -> q[v][u]
       [] method = "IFAST" -> Descale(q[v][u]*AanScales[v + 1][u + 1], 14 - 2)]]

\* Mutant of Quantize: the quotient is truncated.
QuantizeTruncates(temp, qval) == IF temp < 0 THEN -((-temp) \div qval) ELSE temp \div qval

\* Division with rounding, away from zero at one half, of the quantiser.
Quantize(temp, qval) ==
  IF temp < 0 THEN -((-temp + qval \div 2) \div qval) ELSE (temp + qval \div 2) \div qval

\* The kernels behind do_dct and inverse_DCT.
Transform(comp, method, samples) ==
  IF method = "IFAST" THEN F!jpeg_fdct_ifast(samples)
  ELSE F!islow_kernel(comp.w, comp.h, samples)
InverseTransform(comp, method, coef) ==
  IF method = "IFAST" THEN I!jpeg_idct_ifast(coef)
  ELSE I!islow_kernel(comp.w, comp.h, coef)

-----------------------------------------------------------------------------
(* Cosine waves, the reference.                                            *)

\* sqrt(2)*cos(j*pi/(2N)) for j in 0..N, 13 bits: the cK of the sources.
CosTable ==
  <<  <<11585, 0>>,
      <<11585, 8192, 0>>,
      <<11585, 10033, 5793, 0>>,
      <<11585, 10703, 8192, 4433, 0>>,
      <<11585, 11018, 9373, 6810, 3580, 0>>,
      <<11585, 11190, 10033, 8192, 5793, 2998, 0>>,
      <<11585, 11295, 10438, 9058, 7223, 5027, 2578, 0>>,
      <<11585, 11363, 10703, 9633, 8192, 6436, 4433, 2260, 0>>,
      <<11585, 11409, 10887, 10033, 8875, 7447, 5793, 3962, 2012, 0>>,
      <<11585, 11443, 11018, 10323, 9373, 8192, 6810, 5260, 3580, 1812, 0>>,
      <<11585, 11467, 11116, 10538, 9746, 8756, 7587, 6263, 4813, 3264, 1649, 0>>,
      <<11585, 11486, 11190, 10703, 10033, 9191, 8192, 7053, 5793, 4433, 2998, 1512, 0>>,
      <<11585, 11501, 11249, 10832, 10258, 9534, 8672, 7682, 6581, 5384, 4108, 2773, 1396,
        0>>,
      <<11585, 11512, 11295, 10935, 10438, 9810, 9058, 8192, 7223, 6164, 5027, 3826, 2578,
        1297, 0>>,
      <<11585, 11522, 11332, 11018, 10584, 10033, 9373, 8610, 7752, 6810, 5793, 4712,
        3580, 2409, 1211, 0>>,
      <<11585, 11529, 11363, 11086, 10703, 10217, 9633, 8956, 8192, 7350, 6436, 5461,
        4433, 3363, 2260, 1136, 0>>>>

\* c(u)*cos((2x+1)*u*pi/(2N)), c(0) = 1 and c(u) = sqrt(2) otherwise, 13 bits.
Cosine(N, u, x) ==
  LET m == ((2*x + 1)*u) % (4*N)
  IN CASE u = 0 -> 8192
       [] u > 0 /\ m <= N -> CosTable[N][m + 1]
       [] u > 0 /\ m \in (N + 1)..(2*N) -> -CosTable[N][2*N - m + 1]
       [] u > 0 /\ m \in (2*N + 1)..(3*N) -> -CosTable[N][m - 2*N + 1]
       [] u > 0 /\ m > 3*N -> CosTable[N][4*N - m + 1]

\* The samples of a block whose only coefficient is level at <<u, v>>: an
\* eighth of the level times the two cosines, around CENTERJSAMPLE.
Wave(w, h, u, v, level) ==
  LET col == Table([x \in 0..(w - 1) |-> (level*Cosine(w, u, x)) \div 128])
      row == Table([y \in 0..(h - 1) |-> Cosine(h, v, y)])
  IN Table([y \in 0..(h - 1) |->
       Table([x \in 0..(w - 1) |-> CENTERJSAMPLE + Descale(col[x]*row[y], 22)])])

-----------------------------------------------------------------------------
Init ==
  /\ \E setup \in Setups : comp_info = setup.comps /\ dct_method = setup.method
  /\ do_dct = [c \in Components |-> "none"]
  /\ divisors = [t \in DOMAIN Quant |-> Zero]
  /\ block = NoBlock
  /\ latched = {}
  /\ inverse_DCT = [c \in Components |-> "none"]
  /\ cur_method = [c \in Components |-> "none"]
  /\ dct_table = [c \in Components |-> Zero]
  /\ output = NoBlock

\* start_pass_fdctmgr: the loop writes the divisors of a table once for every
\* component that names it, and the last one stays.
StartForward ==
  /\ \A c \in Components : do_dct[c] = "none"
  /\ do_dct' = [c \in Components |-> MethodFor(comp_info[c], dct_method)]
  /\ divisors' = [t \in DOMAIN Quant |->
       LET users == {c \in Components : comp_info[c].tbl = t}
           last == CHOOSE c \in users : \A d \in users : d <= c
       IN IF users = {} THEN divisors[t]
          ELSE DivisorTable(Quant[t], MethodFor(comp_info[last], dct_method))]
  /\ UNCHANGED <<comp_info, dct_method, block, latched, inverse_DCT, cur_method,
                 dct_table, output>>

\* forward_DCT of one block of component c, all of it before decoding starts.
ForwardDCT(c, u, v, level) ==
  LET comp == comp_info[c]
      workspace == Table(Transform(comp, do_dct[c], Wave(comp.w, comp.h, u, v, level)))
      d == divisors[comp.tbl]
  IN /\ do_dct[c] # "none" /\ latched = {} /\ inverse_DCT[c] = "none"
     /\ u < comp.w /\ v < comp.h
     /\ block = NoBlock
     /\ block' = [c |-> c, u |-> u, v |-> v, level |-> level,
                  coef |-> [r \in 0..7 |-> [s \in 0..7 |-> Quantize(workspace[r][s], d[r][s])]]]
     /\ UNCHANGED <<comp_info, dct_method, do_dct, divisors, latched, inverse_DCT,
                    cur_method, dct_table, output>>

\* latch_quant_tables (jdinput.c), in the first scan that holds component c.
Latch(c) ==
  /\ block # NoBlock /\ c \notin latched
  /\ latched' = latched \cup {c}
  /\ UNCHANGED <<comp_info, dct_method, do_dct, divisors, block, inverse_DCT,
                 cur_method, dct_table, output>>

\* Mutant of StartInverse: a table is built once, for the first method.
StartInverseOnce(method) ==
  LET new == [c \in Components |-> MethodFor(comp_info[c], method)]
      rebuild == {c \in latched : comp_info[c].needed /\ cur_method[c] = "none"}
  IN /\ block # NoBlock /\ output = NoBlock
     /\ inverse_DCT' = new
     /\ cur_method' = [c \in Components |-> IF c \in latched THEN new[c] ELSE cur_method[c]]
     /\ dct_table' = [c \in Components |->
          IF c \in rebuild THEN MultiplierTable(Quant[comp_info[c].tbl], new[c])
          ELSE dct_table[c]]
     /\ UNCHANGED <<comp_info, dct_method, do_dct, divisors, block, latched, output>>

\* start_pass of jddctmgr.c, before an output pass with the given method.  A
\* component's table is built when the component is needed, its quantisation
\* table is there and the table in place is for another method.
StartInverse(method) ==
  LET new == [c \in Components |-> MethodFor(comp_info[c], method)]
      rebuild == {c \in Components : /\ comp_info[c].needed
                                     /\ cur_method[c] # new[c]
                                     /\ c \in latched}
  IN /\ block # NoBlock /\ output = NoBlock
     /\ inverse_DCT' = new
     /\ cur_method' = [c \in Components |-> IF c \in rebuild THEN new[c] ELSE cur_method[c]]
     /\ dct_table' = [c \in Components |->
          IF c \in rebuild THEN MultiplierTable(Quant[comp_info[c].tbl], new[c])
          ELSE dct_table[c]]
     /\ UNCHANGED <<comp_info, dct_method, do_dct, divisors, block, latched, output>>

\* One block through inverse_DCT.  The coefficients of a component no scan has
\* brought yet are the zeroes of the coefficient controller's buffer.
InverseDCT ==
  LET c == block.c
      coef == IF c \in latched THEN block.coef ELSE Zero
      m == dct_table[c]
  IN /\ block # NoBlock /\ output = NoBlock
     /\ comp_info[c].needed /\ inverse_DCT[c] # "none"
     /\ output' = [c |-> c,
                   samples |-> InverseTransform(comp_info[c], inverse_DCT[c],
                                 [v \in 0..7 |-> [u \in 0..7 |-> coef[v][u]*m[v][u]]])]
     /\ UNCHANGED <<comp_info, dct_method, do_dct, divisors, block, latched, inverse_DCT,
                    cur_method, dct_table>>

Next ==
  \/ StartForward
  \/ \E c \in Components, wave \in Waves : ForwardDCT(c, wave[1], wave[2], wave[3])
  \/ \E c \in Components : Latch(c)
  \/ \E method \in Methods : StartInverse(method)
  \/ InverseDCT

Spec == Init /\ [][Next]_vars

-----------------------------------------------------------------------------
(* Properties.                                                             *)

CONSTANTS
  CoefSlack,   \* how far a coefficient may be off beyond its rounding
  FastStep,    \* the quantisation step from which JDCT_IFAST is held to SampleSlack
  SampleSlack  \* how far a sample may be off beyond its coefficient's rounding

Abs(x) == IF x < 0 THEN -x ELSE x

CoefError(r, s) ==
  LET q == Quant[comp_info[block.c].tbl][r][s]
      true == IF <<s, r>> = <<block.u, block.v>> THEN block.level ELSE 0
  IN Abs(2*(block.coef[r][s]*q - true)) - q

\* Every coefficient of an encoded block is the true one to within half a
\* quantisation step and a slack, whatever kernel, method and table were used
\* (start_pass_fdctmgr and forward_DCT).
EveryCoefAccurate ==
  block # NoBlock => \A r, s \in 0..7 : CoefError(r, s) <= 2*CoefSlack

\* The divisors of the component's table were made for a later component, which
\* names the same table and whose blocks need another method.
Overwritten(c) ==
  \E d \in Components : /\ d > c /\ comp_info[d].tbl = comp_info[c].tbl
                        /\ MethodFor(comp_info[d], dct_method) # MethodFor(comp_info[c], dct_method)

\* The same, except for the one coefficient of a row that the first pass of the
\* 12-point and of the 14-point kernel computes in a scale of its own, and for a
\* component whose divisors were overwritten: "We may do this more than once for
\* same table, but it's not a big deal" is right for all others.
CoefsAccurate ==
  block # NoBlock =>
    LET w == comp_info[block.c].w
    IN \/ Overwritten(block.c)
       \/ \A r, s \in 0..7 : CoefError(r, s) <= 2*CoefSlack \/ <<w, s>> \in {<<12, 2>>, <<14, 1>>}

\* What the decoder makes of a block with accurate coefficients is the wave the
\* encoder was given, to within the rounding of its coefficient, at every output
\* pass and whatever the method of the passes before it (start_pass of
\* jddctmgr.c); a block decoded in a pass that started before its component's
\* table was there is grey.
RoundTrip ==
  (output # NoBlock /\ EveryCoefAccurate) =>
    LET c == block.c
        comp == comp_info[c]
        q == Quant[comp.tbl][block.v][block.u]
        wave == Wave(comp.w, comp.h, block.u, block.v, block.level)
    IN IF cur_method[c] = inverse_DCT[c]
       THEN inverse_DCT[c] = "ISLOW" \/ q >= FastStep =>
            \A y \in 0..(comp.h - 1), x \in 0..(comp.w - 1) :
              Abs(output.samples[y][x] - wave[y][x]) <= SampleSlack + q \div 8
       ELSE \A y \in 0..(comp.h - 1), x \in 0..(comp.w - 1) :
              output.samples[y][x] = CENTERJSAMPLE
=============================================================================
