--------------------------- MODULE ArithmeticScans ---------------------------
(***************************************************************************)
(* Scans coded with arithmetic coding by jcarith.c and decoded by jdarith.c:  *)
(* the binary decisions of each MCU, sequential, first and refinement scans,   *)
(* with their conditioning on what was coded before, and restarts.            *)
(*                                                                          *)
(* One object writes a scan, decision by decision, another reads it.  Between  *)
(* the two a byte of the scan may be damaged.  Coefficients are named by their *)
(* zigzag index, statistics bins by area, table and offset.                   *)
(***************************************************************************)
EXTENDS ArithmeticCoder, SequencesExt

CONSTANT Jobs  \* [progressive, Ss, Se, Ah, Al, members, dc_tbl_no, ac_tbl_no, dc_L,
               \*  dc_U, ac_K, restart_interval, MCUs, damages]
ASSUME JobsAssumption ==
  \A j \in Jobs :
    /\ j.restart_interval \in Nat /\ j.damages \subseteq 0..255
    /\ j.Ss \in 0..63 /\ j.Se \in j.Ss..63 /\ j.members \in Seq(1..4) \ {<<>>}

VARIABLES
  job,      \* the scan's parameters, its MCUs, and how its bytes may be damaged
  e,        \* the registers of the encoder
  estats,   \* its statistics bins, as far as they were used
  ectx,     \* its last_dc_val and dc_context
  todo,     \* the decisions of the current MCU it has still to code
  coded,    \* how many MCUs it has begun
  scan,     \* the bytes of the scan with the marker after it, when it is complete
  damaged,  \* the restart interval with a damaged byte, or 0
  forged,   \* whether the damage made a marker that resynchronization stops at
  d,        \* the registers of the decoder
  dstats,   \* its statistics bins
  mcu,      \* its place in the current MCU, with last_dc_val and dc_context
  MCUs      \* the MCUs it has decoded

vars == <<job, e, estats, ectx, todo, coded, scan, damaged, forged, d, dstats, mcu, MCUs>>

DCRefine == job.Ah # 0 /\ job.Ss = 0
ACRefine == job.Ah # 0 /\ job.Ss # 0
HasDC == job.Ss = 0
HasAC == job.Se # 0
FirstAC == IF job.Ss = 0 THEN 1 ELSE job.Ss
Comps == Range(job.members)

Absolute(x) == IF x < 0 THEN -x ELSE x
Log2(w) == CHOOSE n \in 0..15 : 2^n <= w /\ w < 2^(n + 1)
Bit(w, n) == (w \div 2^n) % 2
JCOEF(x) == ((x + 32768) % 65536) - 32768

\* A statistics bin, MEMZERO'd unless it was used; fixed_bin never changes.
Fixed == <<"fixed", 0, 0>>
Stat(stats, bin) ==
  IF bin \in DOMAIN stats THEN stats[bin] ELSE <<IF bin = Fixed THEN FixedBin ELSE 0, 0>>
SetStat(stats, bin, s) ==
  [b \in DOMAIN stats \cup {bin} |-> IF b = bin THEN s ELSE stats[b]]
NoStats == [b \in {} |-> <<0, 0>>]

\* The predictions at the start of an interval.
Fresh == [last_dc_val |-> [c \in Comps |-> 0], dc_context |-> [c \in Comps |-> 0]]

\* Section F.1.4.4.1.2: the context for the next DC difference, from the
\* magnitude category m and the sign of this one.
Category(L, U, m, sign) ==
  IF m < 2^L \div 2 THEN 0
  ELSE IF m > 2^U \div 2 THEN 12 + 4*sign ELSE 4 + 4*sign

-----------------------------------------------------------------------------
(* What the encoder codes: decisions <<bin, val>>.                           *)

\* n decisions 1, a 0, and the bits of w below its highest, which is 2^n.
MagnitudeOf(Bin(_), first, ones, w, n) ==
  [i \in 1..ones |-> <<Bin(first + i - 1), 1>>] \o << <<Bin(first + ones), 0>> >>
  \o [i \in 1..n |-> <<Bin(first + ones + 14), Bit(w, n - i)>>]

\* A DC difference, in the context of its component.
DCDiff(tbl, context, v) ==
  LET Bin(i) == <<"dc", tbl, i>>
      sign == IF v > 0 THEN 0 ELSE 1
      w == Absolute(v) - 1
      signed == << <<Bin(context), 1>>, <<Bin(context + 1), sign>> >>
  IN IF v = 0 THEN << <<Bin(context), 0>> >>
     ELSE signed \o IF w = 0 THEN << <<Bin(context + 2 + sign), 0>> >>
                    ELSE << <<Bin(context + 2 + sign), 1>> >>
                         \o MagnitudeOf(Bin, 20, Log2(w), w, Log2(w))

\* An AC magnitude at coefficient k.
ACMagnitude(tbl, k, v) ==
  LET Bin(i) == <<"ac", tbl, i>>
      st == Bin(3*(k - 1) + 2)
      w == v - 1
  IN IF w = 0 THEN << <<st, 0>> >>
     ELSE IF w = 1 THEN << <<st, 1>>, <<st, 0>> >>
     ELSE << <<st, 1>>, <<st, 1>> >>
          \o MagnitudeOf(Bin, IF k <= job.ac_K[tbl] THEN 189 ELSE 217, Log2(w) - 1, w, Log2(w))

\* The AC coefficients of a block after the point transform, up to the last that
\* is not zero: before each run the decision that the block does not end here.
LastAC(block, shift) ==
  LET ks == {k \in 1..job.Se : Absolute(block[k]) \div 2^shift # 0}
  IN IF ks = {} THEN 0 ELSE Max(ks)

ACDecisions(block, tbl) ==
  LET Shown(k) == Absolute(block[k]) \div 2^job.Al
      sign(k) == <<Fixed, IF block[k] < 0 THEN 1 ELSE 0>>
      Bin(k, i) == <<"ac", tbl, 3*(k - 1) + i>>
      ke == LastAC(block, job.Al)
      kex == IF ACRefine THEN LastAC(block, job.Ah) ELSE 0
      NoEnd(k) == IF k > kex /\ (k = FirstAC \/ Shown(k - 1) # 0)
                  THEN << <<Bin(k, 0), 0>> >> ELSE <<>>
      Coef(k) == IF Shown(k) = 0 THEN << <<Bin(k, 1), 0>> >>
                 ELSE IF ~ACRefine
                 THEN << <<Bin(k, 1), 1>>, sign(k) >> \o ACMagnitude(tbl, k, Shown(k))
                 ELSE IF Shown(k) > 1 THEN << <<Bin(k, 2), Shown(k) % 2>> >>
                 ELSE << <<Bin(k, 1), 1>>, sign(k) >>
      after == IF ke < FirstAC THEN FirstAC ELSE ke + 1
  IN FlattenSeq([i \in 1..(after - FirstAC) |->
                   NoEnd(FirstAC + i - 1) \o Coef(FirstAC + i - 1)])
     \o IF after <= job.Se THEN << <<Bin(after, 0), 1>> >> ELSE <<>>

\* The decisions of the blocks of an MCU, and the predictions behind them.
DCOf(ctx, block, c) ==
  LET tbl == job.dc_tbl_no[c]
      m == block[0] \div 2^job.Al
      v == m - ctx.last_dc_val[c]
      w == Absolute(v) - 1
      context == IF v = 0 THEN 0
                 ELSE Category(job.dc_L[tbl], job.dc_U[tbl], IF w = 0 THEN 0 ELSE 2^Log2(w),
                               IF v > 0 THEN 0 ELSE 1)
  IN [todo |-> DCDiff(tbl, ctx.dc_context[c], v),
      ctx |-> [last_dc_val |-> [ctx.last_dc_val EXCEPT ![c] = m],
               dc_context |-> [ctx.dc_context EXCEPT ![c] = context]]]

BlockOf(coding, block, c) ==
  LET ac == IF HasAC THEN ACDecisions(block, job.ac_tbl_no[c]) ELSE <<>>
      dc == DCOf(coding.ctx, block, c)
  IN IF DCRefine THEN [coding EXCEPT !.todo = Append(@, <<Fixed, Bit(block[0], job.Al)>>)]
     ELSE IF ~HasDC THEN [coding EXCEPT !.todo = @ \o ac]
     ELSE [todo |-> coding.todo \o dc.todo \o ac, ctx |-> dc.ctx]

MCUOf(ctx, blocks) ==
  LET Next1(coding, b) == BlockOf(coding, blocks[b], job.members[b])
  IN FoldLeft(Next1, [todo |-> <<>>, ctx |-> ctx], [b \in DOMAIN blocks |-> b])

-----------------------------------------------------------------------------
(* Where the decoder is in an MCU.  ph names the decision it asks for next,    *)
(* from bin; an MCU ends with ph "done", or "error" behind a warning.          *)

\* The conditioning that the DAC marker brings: of the tables in use.
ReceivedL(tbl) == (job.dc_L[tbl] + 16*job.dc_U[tbl]) % 16
ReceivedU(tbl) == (job.dc_L[tbl] + 16*job.dc_U[tbl]) \div 16

Asking(x, ph, bin) == [x EXCEPT !.ph = ph, !.bin = bin]
Comp(x) == job.members[x.blk]
DCBin(x, i) == <<"dc", job.dc_tbl_no[Comp(x)], i>>
ACBin(x, i) == <<"ac", job.ac_tbl_no[Comp(x)], 3*(x.k - 1) + i>>
Further(bin, i) == <<bin[1], bin[2], bin[3] + i>>
Failed(x) == [x EXCEPT !.ph = "error"]

\* decode_mcu_AC_refine: EOBx, and a coefficient that is corrected or may be new.
Known(x, k) == x.blocks[x.blk][k] # 0
EOBx(x) == LET ks == {k \in 1..job.Se : Known(x, k)} IN IF ks = {} THEN 0 ELSE Max(ks)
AtCoef(x) ==
  IF ~ACRefine THEN Asking(x, "zero", ACBin(x, 1))
  ELSE IF Known(x, x.k) THEN Asking(x, "correct", ACBin(x, 2)) ELSE Asking(x, "new", ACBin(x, 1))

\* The next coefficient of a run.
Skip(x) == IF x.k + 1 > job.Se THEN Failed(x) ELSE AtCoef([x EXCEPT !.k = @ + 1])

\* The blocks follow each other, and the runs in a block.
EndBlock(x) == IF x.blk = Len(job.members) THEN [x EXCEPT !.ph = "done"]
               ELSE [x EXCEPT !.ph = "block", !.blk = @ + 1]
AtRun(x) ==
  IF x.k > job.Se THEN EndBlock(x)
  ELSE IF ~ACRefine \/ x.k > x.kex THEN Asking(x, "end", ACBin(x, 0)) ELSE AtCoef(x)
AtBlock(x) ==
  IF x.ph # "block" THEN x
  ELSE IF DCRefine THEN Asking(x, "dcbit", Fixed)
  ELSE IF HasDC THEN Asking(x, "dc", DCBin(x, x.ctx.dc_context[Comp(x)]))
  ELSE AtRun([x EXCEPT !.k = job.Ss, !.kex = EOBx(x)])

SetCoef(x, k, value) == [x EXCEPT !.blocks[x.blk][k] = JCOEF(value)]
Minus(sign, v) == IF sign = 1 THEN -v ELSE v
StoreDC(x, v) ==
  LET dc == x.ctx.last_dc_val[Comp(x)] + v
      y == SetCoef([x EXCEPT !.ctx.last_dc_val[Comp(x)] = dc], 0, dc*2^job.Al)
  IN IF HasAC THEN AtRun([y EXCEPT !.k = 1, !.kex = 0]) ELSE EndBlock(y)
StoreAC(x, value) == AtRun([SetCoef(x, x.k, value) EXCEPT !.k = @ + 1])

\* The bits of a magnitude below its highest, from x.m downward.
Bits(x) ==
  IF x.m > 1 THEN [x EXCEPT !.ph = "bits", !.m = @ \div 2]
  ELSE IF x.bin[1] = "dc" THEN StoreDC(x, Minus(x.sign, x.v + 1))
  ELSE StoreAC(x, Minus(x.sign, x.v + 1)*2^job.Al)
Magnitude(x) ==
  LET tbl == x.bin[2]
      y == [x EXCEPT !.v = x.m, !.bin = Further(@, 14)]
  IN Bits(IF x.bin[1] = "ac" THEN y
          ELSE [y EXCEPT !.ctx.dc_context[Comp(x)] =
                  Category(ReceivedL(tbl), ReceivedU(tbl), x.m, x.sign)])

\* Mutant of More: a magnitude may have any number of bits.
MoreUnchecked(x) == [x EXCEPT !.m = 2*@, !.bin = Further(@, 1)]

More(x) == IF 2*x.m = 32768 THEN Failed(x) ELSE [x EXCEPT !.m = 2*@, !.bin = Further(@, 1)]

\* What a decision leads to.
Decision(x, val) ==
  CASE x.ph = "dcbit" ->
         EndBlock(IF val = 1 THEN SetCoef(x, 0, x.blocks[x.blk][0] + 2^job.Al) ELSE x)
    [] x.ph = "dc" ->
         IF val = 1 THEN Asking(x, "dcsign", Further(x.bin, 1))
         ELSE StoreDC([x EXCEPT !.ctx.dc_context[Comp(x)] = 0], 0)
    [] x.ph = "dcsign" -> Asking([x EXCEPT !.sign = val], "dcmag", Further(x.bin, 1 + val))
    [] x.ph = "dcmag" ->
         IF val = 0 THEN Magnitude([x EXCEPT !.m = 0])
         ELSE Asking([x EXCEPT !.m = 1], "more", DCBin(x, 20))
    [] x.ph = "more" -> IF val = 1 THEN More(x) ELSE Magnitude(x)
    [] x.ph = "bits" -> Bits(IF val = 1 THEN [x EXCEPT !.v = @ + x.m] ELSE x)
    [] x.ph = "end" -> IF val = 1 THEN EndBlock(x) ELSE AtCoef(x)
    [] x.ph = "zero" -> IF val = 0 THEN Skip(x) ELSE Asking(x, "sign", Fixed)
    [] x.ph = "sign" -> Asking([x EXCEPT !.sign = val], "acmag", ACBin(x, 2))
    [] x.ph = "acmag" ->
         IF val = 0 THEN Magnitude([x EXCEPT !.m = 0]) ELSE [x EXCEPT !.m = 1, !.ph = "acmag2"]
    [] x.ph = "acmag2" ->
         LET tbl == x.bin[2]
         IN IF val = 0 THEN Magnitude(x)
            ELSE Asking([x EXCEPT !.m = 2], "more",
                        <<"ac", tbl, IF x.k <= job.ac_K[tbl] THEN 189 ELSE 217>>)
    [] x.ph = "correct" ->
         LET coef == x.blocks[x.blk][x.k]
         IN StoreAC(x, coef + IF val = 0 THEN 0 ELSE IF coef < 0 THEN -(2^job.Al) ELSE 2^job.Al)
    [] x.ph = "new" -> IF val = 0 THEN Skip(x) ELSE Asking(x, "newsign", Fixed)
    [] x.ph = "newsign" -> StoreAC(x, Minus(val, 2^job.Al))

-----------------------------------------------------------------------------
(* Actions of the encoder.                                                  *)

Restarting(begun) ==
  job.restart_interval # 0 /\ begun # 0 /\ begun % job.restart_interval = 0
Restart(begun) == (begun \div job.restart_interval - 1) % 8

\* encode_mcu, encode_mcu_DC_first, ...: the restart marker if one is due
\* (emit_restart), and the decisions that follow.
EncodeMCU ==
  /\ todo = <<>> /\ e.a >= Half /\ coded < Len(job.MCUs) /\ coded' = coded + 1
  /\ LET restart == Restarting(coded)
         coding == MCUOf(IF restart THEN Fresh ELSE ectx, job.MCUs[coded + 1])
     IN /\ todo' = coding.todo /\ ectx' = coding.ctx
        /\ estats' = IF restart THEN NoStats ELSE estats
        /\ e' = IF restart
                THEN StartEncoder(Finished(e) \o <<255, 208 + Restart(coded)>>)
                ELSE e
  /\ UNCHANGED <<job, scan, damaged, forged, d, dstats, mcu, MCUs>>

\* arith_encode, and one turn of its loop.
Encode ==
  /\ todo # <<>> /\ e.a >= Half /\ todo' = Tail(todo)
  /\ LET bin == Head(todo)[1]
         val == Head(todo)[2]
         s == Stat(estats, bin)
     IN /\ e' = Interval(e, s, val)
        /\ estats' = SetStat(estats, bin, Estimate(e, s, val))
  /\ UNCHANGED <<job, ectx, coded, scan, damaged, forged, d, dstats, mcu, MCUs>>
Renormalize ==
  /\ e.a < Half /\ e' = Renormalized(e)
  /\ UNCHANGED <<job, estats, ectx, todo, coded, scan, damaged, forged, d, dstats, mcu, MCUs>>

\* finish_pass; the next marker follows.
FinishPass ==
  /\ todo = <<>> /\ e.a >= Half /\ coded = Len(job.MCUs) /\ scan = <<>>
  /\ scan' = Finished(e) \o <<255, 217>>
  /\ UNCHANGED <<job, e, estats, ectx, todo, coded, damaged, forged, d, dstats, mcu, MCUs>>

-----------------------------------------------------------------------------
\* A byte of the data changes, before the decoder begins.  Markers stay markers, and
\* a byte that becomes 0xFF may begin another one.
Interval1(bytes, i) ==
  1 + Cardinality({j \in 1..(i - 1) : bytes[j] = 255 /\ bytes[j + 1] \in 208..215})
Damage ==
  /\ scan # <<>> /\ damaged = 0 /\ d.ct = -16 /\ MCUs = <<>> /\ mcu.ph = "idle"
  /\ \E i \in 1..(Len(scan) - 2), byte \in job.damages :
       /\ scan[i] # 255 /\ (i > 1 => scan[i - 1] # 255) /\ byte # scan[i]
       /\ scan' = [scan EXCEPT ![i] = byte] /\ damaged' = Interval1(scan, i)
       /\ forged' = /\ byte = 255 /\ IsMarker(scan', i)
                    /\ ~Passed(scan[i + 1], Interval1(scan, i) - 1)
  /\ UNCHANGED <<job, e, estats, ectx, todo, coded, d, dstats, mcu, MCUs>>

-----------------------------------------------------------------------------
(* Actions of the decoder.                                                  *)

\* A block as the scans before have left it.
PointTransform(block, k, shift) ==
  IF k = 0 THEN (block[0] \div 2^shift)*2^shift
  ELSE Minus(IF block[k] < 0 THEN 1 ELSE 0, (Absolute(block[k]) \div 2^shift)*2^shift)
Before(block) ==
  [k \in DOMAIN block |-> IF job.Ah = 0 THEN 0 ELSE PointTransform(block, k, job.Ah)]

InMCU == mcu.ph \notin {"idle", "done", "error"}

\* decode_mcu, decode_mcu_DC_first, ...: past the restart marker if one is due
\* (process_restart); behind an error nothing is decoded.
DecodeMCU ==
  /\ scan # <<>> /\ ~InMCU /\ Len(MCUs) < Len(job.MCUs)
  /\ LET restart == Restarting(Len(MCUs))
         blocks == [b \in DOMAIN job.members |-> Before(job.MCUs[Len(MCUs) + 1][b])]
         x == [mcu EXCEPT !.ph = "block", !.blk = 1, !.blocks = blocks,
                          !.ctx = IF restart THEN Fresh ELSE @]
         at == ReadRestartMarker(d, scan, Restart(Len(MCUs)))
     IN /\ d' = IF restart THEN StartDecoder(at.next, at.unread_marker) ELSE d
        /\ dstats' = IF restart THEN NoStats ELSE dstats
        /\ IF d'.ct = -1 /\ ~DCRefine
           THEN mcu' = [x EXCEPT !.ph = "done"] /\ MCUs' = Append(MCUs, blocks)
           ELSE mcu' = AtBlock(x) /\ MCUs' = MCUs
  /\ UNCHANGED <<job, e, estats, ectx, todo, coded, scan, damaged, forged>>

\* arith_decode: one turn of its loop, and the decision.
Refill ==
  /\ InMCU /\ d.a < Half /\ d' = Refilled(d, scan)
  /\ UNCHANGED <<job, e, estats, ectx, todo, coded, scan, damaged, forged, dstats, mcu, MCUs>>
Decode ==
  /\ InMCU /\ d.a >= Half
  /\ LET got == Decoded(d, Stat(dstats, mcu.bin))
         x == AtBlock(Decision(mcu, got.val))
     IN /\ mcu' = x /\ dstats' = SetStat(dstats, mcu.bin, got.s)
        /\ d' = IF x.ph = "error" THEN [got.d EXCEPT !.ct = -1] ELSE got.d
        /\ MCUs' = IF x.ph \in {"done", "error"} THEN Append(MCUs, x.blocks) ELSE MCUs
  /\ UNCHANGED <<job, e, estats, ectx, todo, coded, scan, damaged, forged>>

-----------------------------------------------------------------------------
\* start_pass of both.
Init ==
  /\ job \in Jobs
  /\ e = StartEncoder(<<>>) /\ estats = NoStats /\ ectx = Fresh
  /\ todo = <<>> /\ coded = 0 /\ scan = <<>> /\ damaged = 0 /\ forged = FALSE
  /\ d = StartDecoder(1, 0) /\ dstats = NoStats /\ MCUs = <<>>
  /\ mcu = [ph |-> "idle", bin |-> Fixed, blk |-> 1, k |-> 0, kex |-> 0, m |-> 0, v |-> 0,
            sign |-> 0, blocks |-> <<>>, ctx |-> Fresh]

Next == \/ EncodeMCU \/ Encode \/ Renormalize \/ FinishPass \/ Damage
        \/ DecodeMCU \/ Refill \/ Decode

Spec == Init /\ [][Next]_vars

-----------------------------------------------------------------------------
(* Properties.                                                              *)

\* What c + a may reach when ct more shifts lead to the next byte: 9*2^24, halved
\* ct times.
Cap == <<75497472, 37748736, 18874368, 9437184, 4718592, 2359296, 1179648, 589824,
         294912, 147456, 73728>>

\* A 0xFF in the data is followed by a stuffed zero, or it begins a marker RSTn.
WellStuffed(bytes) ==
  \A i \in DOMAIN bytes :
    /\ 0 <= bytes[i] /\ bytes[i] < 256
    /\ bytes[i] = 255 => i + 1 \in DOMAIN bytes /\ bytes[i + 1] \in {0} \cup (208..215)

\* The registers of the encoder between two steps of arith_encode.  "The 3 spacer
\* bits in the C register guarantee that the new buffer byte can't be 0xFF": c + a
\* stays so low that the byte behind a carry is not 0xFF.  So buffer, which is
\* written without stuffing, makes no marker in the data.
EncoderInv ==
  /\ 0 < e.a /\ e.a <= Whole /\ e.c \in Nat /\ e.ct \in 1..11
  /\ e.c + e.a <= Cap[e.ct]
  /\ -1 <= e.buffer /\ e.buffer < 255
  /\ WellStuffed(e.out)

\* The registers of the decoder, however the data are damaged: c is below the
\* interval a shifted by ct, behind an error (ct = -1) nothing is decoded, and what
\* get_byte reads next is there, as long as it met no marker.  No bin of a statistics
\* area has two uses: "we need at least 49 statistics bins for DC, and 245 statistics
\* bins for AC coding".
Contexts(area) == CASE area = "dc" -> 0..19 [] area = "ac" -> 0..188 [] OTHER -> {0}
Lengths(area) == IF area = "dc" THEN 20..34 ELSE (189..202) \cup (217..230)
LowBits(area) == IF area = "dc" THEN 35..48 ELSE (203..216) \cup (231..244)
DecoderInv ==
  /\ \/ d.ct = -16 /\ d.c = 0 /\ d.a = 0
     \/ d.ct = -8 /\ d.c \in 0..255 /\ d.a = 0
     \/ d.ct \in 0..7 /\ d.a \in 1..Whole /\ d.c \in Nat /\ d.c < d.a*2^d.ct
     \/ d.ct = -1 /\ ~InMCU
  /\ scan # <<>> /\ d.unread_marker = 0 => d.next \in DOMAIN scan
  /\ InMCU => mcu.bin[3] \in CASE mcu.ph = "more" -> Lengths(mcu.bin[1])
                               [] mcu.ph = "bits" -> LowBits(mcu.bin[1])
                               [] OTHER -> Contexts(mcu.bin[1])

\* Every MCU outside an interval with a damaged byte is decoded to what was coded,
\* with the scan's precision, and the scans before kept; only behind a marker that
\* the damage made, valid and no recent restart, the decoder does not find back.
IntervalOf(n) == IF job.restart_interval = 0 THEN 1 ELSE (n - 1) \div job.restart_interval + 1
Exact(block) ==
  [k \in DOMAIN block |->
     IF k \in job.Ss..job.Se THEN PointTransform(block, k, job.Al) ELSE Before(block)[k]]
Restored ==
  \A n \in DOMAIN MCUs :
    IntervalOf(n) # damaged /\ (forged => IntervalOf(n) < damaged)
      => MCUs[n] = [b \in DOMAIN job.members |-> Exact(job.MCUs[n][b])]

\* "We always produce the shortest possible output stream compliant to the spec (no
\* trailing zero bytes, except for FF stuffing)": when the last MCU of an interval
\* was decoded, the decoder has had all of its bytes, so that no extraneous data
\* are before the next marker, and none of them is a zero it would be given anyway.
ShortestStream ==
  LET n == Len(MCUs)
      end == IF d.unread_marker # 0 THEN d.next - 2 ELSE d.next
  IN /\ mcu.ph = "done" /\ IntervalOf(n) # damaged /\ (forged => IntervalOf(n) < damaged)
     /\ (n = Len(job.MCUs) \/ Restarting(n))
     => /\ scan[end] = 255 /\ scan[end + 1] \notin {0, 255}
        /\ end > 1 /\ scan[end - 1] = 0 => end > 2 /\ scan[end - 2] = 255
=============================================================================
