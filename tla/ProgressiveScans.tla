-------------------------- MODULE ProgressiveScans --------------------------
(***************************************************************************)
(* The Huffman entropy coders of jpeg8d, jchuff.c and jdhuff.c, over a scan  *)
(* script: DC and AC scans, first passes and refinements, or sequential      *)
(* scans; with the marker reader's restart recovery (jdmarker.c).            *)
(*                                                                          *)
(* The encoder codes every scan twice, to count the symbols and to write     *)
(* them.  The decoder reads from a source that SUSPENDS: an MCU whose data    *)
(* has not arrived is given up and decoded again later, in a coefficient     *)
(* array that may hold half of it already.  Data may also be LOST between    *)
(* the two, and restart markers are there to confine the damage.             *)
(*                                                                          *)
(* The coded data is a sequence of elements: a Huffman symbol, a bit or a    *)
(* marker.  Code lengths, byte stuffing and padding are left out, and so is  *)
(* the bit buffer: data arrives by the element, more finely than by bytes.   *)
(* Coefficients are indexed in zigzag order; index 63 is where the extra     *)
(* entries of natural_order point.  An image is, for each component, one      *)
(* block per MCU.                                                            *)
(***************************************************************************)
EXTENDS Integers, SequencesExt

CONSTANTS
  Cases,          \* what is coded and decoded, see below
  EOBRUN_MAX,     \* 0x7FFF in the code
  MAX_CORR_BITS,  \* 1000 in the code
  LossLengths     \* how many elements may get lost

\* A case: the image, its script of scans [comps, Ss, Se, Ah, Al], whether it
\* is progressive, restart_interval and lim_Se, the symbols whose codes are
\* all zeroes, and whether data arrives in parts and may be lost.
ASSUME CaseAssumption ==
  \A case \in Cases :
    /\ \A s \in 1..Len(case.script) :
         LET sc == case.script[s]
         IN case.progressive => (sc.Ss = 0 <=> sc.Se = 0) /\ (sc.Ss > 0 => Len(sc.comps) = 1)
    /\ case.suspends \in BOOLEAN /\ case.lossy \in BOOLEAN

VARIABLES
  case,     \* the member of Cases at work
  enc,      \* encoder: the scan, the pass over it, the MCU, entropy->...
  counted,  \* encoder: the symbols counted for the tables of each scan
  stream,   \* the elements written
  hit,      \* the intervals of scans that lost data: pairs <<scan, interval>>
  gone,     \* how many restart markers were lost
  avail,    \* how much of the stream has arrived
  dec,      \* decoder: the scan, the MCU, entropy->..., the data source
  coefs     \* decoder: the coefficient arrays

vars == <<case, enc, counted, stream, hit, gone, avail, dec, coefs>>

DCTSIZE2 == 64
Min2(a, b) == IF a < b THEN a ELSE b
MCUs == Len(case.image[1])
Scan(s) == case.script[s]
Encoded == enc.scan > Len(case.script)

Elem(t, v) == [t |-> t, v |-> v]
Bit(v) == Elem("bit", v)
IsMarker(e) == e.t \in {"rst", "sos", "eoi"}
IsSymbol(e) == e.t \in {"dc", "ac"}

\* The low n bits of x, and the number of bits of a magnitude.
BitsOf(x, n) == [i \in 1..n |-> Bit((x \div 2^(n - i)) % 2)]
NBits(x) == CHOOSE n \in 0..15 : x < 2^n /\ (n > 0 => 2^(n - 1) <= x)
Abs(x) == IF x < 0 THEN -x ELSE x

\* The bits of a value: itself, or the complement of its magnitude.
Value(x) == BitsOf(IF x < 0 THEN x - 1 ELSE x, NBits(Abs(x)))

\* The point transform by Al: a shift for DC, a division towards 0 for AC.
PointTransform(k, x, Al) ==
  IF k = 0 \/ x >= 0 THEN x \div 2^Al ELSE -((-x) \div 2^Al)

-----------------------------------------------------------------------------
(* The encoder.                                                            *)

\* emit_eobrun: the pending run of EOBs, then its correction bits.
EobRun(e) ==
  IF e.EOBRUN = 0 THEN <<>>
  ELSE LET nbits == NBits(e.EOBRUN) - 1
       IN <<Elem("ac", 16*nbits)>> \o BitsOf(e.EOBRUN, nbits) \o e.BE
NoEobRun(e) == [e EXCEPT !.EOBRUN = 0, !.BE = <<>>]

\* Several steps that emit: out grows while the state e changes.
Emitting(e) == [out |-> <<>>, e |-> e, r |-> 0, br |-> <<>>]
Flushed(acc) == [acc EXCEPT !.out = @ \o EobRun(acc.e), !.e = NoEobRun(@)]

\* The DC difference of the i'th block of an MCU.
DCDifference(acc, i, dc) ==
  LET diff == dc - acc.e.last_dc_val[i]
  IN [acc EXCEPT !.out = @ \o <<Elem("dc", NBits(Abs(diff)))>> \o Value(diff),
                 !.e.last_dc_val[i] = dc]

\* One AC coefficient of a first pass: x is already point transformed.
ACFirst(acc, x) ==
  IF x = 0 THEN [acc EXCEPT !.r = @ + 1]
  ELSE LET f == Flushed(acc)
       IN [f EXCEPT !.out = @ \o [z \in 1..(acc.r \div 16) |-> Elem("ac", 240)]
                            \o <<Elem("ac", 16*(acc.r % 16) + NBits(Abs(x)))>> \o Value(x),
                    !.r = 0]

\* One AC coefficient of a refinement pass.  EOB is the last newly nonzero
\* coefficient: behind it zeroes and correction bits go into the EOB run.
ACRefine(acc, k, x, EOB) ==
  LET zrls == IF Abs(x) # 0 /\ k <= EOB THEN acc.r \div 16 ELSE 0
      z == IF zrls = 0 THEN acc
           ELSE [Flushed(acc) EXCEPT
                   !.out = @ \o <<Elem("ac", 240)>> \o acc.br
                             \o [i \in 2..zrls |-> Elem("ac", 240)],
                   !.r = @ - 16*zrls, !.br = <<>>]
      f == Flushed(z)
  IN CASE x = 0 -> [acc EXCEPT !.r = @ + 1]
       [] Abs(x) > 1 -> [z EXCEPT !.br = Append(@, Bit(Abs(x) % 2))]
       [] Abs(x) = 1 -> [f EXCEPT !.out = @ \o <<Elem("ac", 16*z.r + 1),
                                                  Bit(IF x < 0 THEN 0 ELSE 1)>> \o z.br,
                                  !.br = <<>>, !.r = 0]

\* The end of the block: it joins the EOB run, which is forced out when its
\* counter or the buffer of correction bits might overflow.
EndOfBand(acc) ==
  IF acc.r = 0 /\ acc.br = <<>> THEN acc
  ELSE LET g == [acc EXCEPT !.e.EOBRUN = @ + 1, !.e.BE = @ \o acc.br]
       IN IF g.e.EOBRUN = EOBRUN_MAX \/ Len(g.e.BE) > MAX_CORR_BITS - DCTSIZE2 + 1
          THEN Flushed(g) ELSE g

Indices(lo, hi) == [i \in 1..(hi - lo + 1) |-> lo + i - 1]

\* encode_mcu_DC_first, _DC_refine, _AC_first, _AC_refine and, for
\* sequential scans, encode_mcu_huff with encode_one_block.
EncodeBlocks(e, sc, blocks) ==
  LET band == Indices(sc.Ss, sc.Se)
      x(k) == PointTransform(k, blocks[1][k], sc.Al)
      EOB == FoldLeft(LAMBDA m, k : IF Abs(x(k)) = 1 THEN k ELSE m, 0, band)
      Sequential(acc, i) ==
        LET ac == FoldLeft(LAMBDA a, k : ACFirst(a, blocks[i][k]),
                           DCDifference(acc, i, blocks[i][0]), Indices(1, case.lim_Se))
        IN [ac EXCEPT !.out = IF ac.r > 0 THEN Append(@, Elem("ac", 0)) ELSE @, !.r = 0]
      all == Indices(1, Len(blocks))
  IN CASE ~case.progressive -> FoldLeft(Sequential, Emitting(e), all)
       [] case.progressive /\ sc.Ss = 0 /\ sc.Ah = 0 ->
            FoldLeft(LAMBDA acc, i : DCDifference(acc, i, PointTransform(0, blocks[i][0], sc.Al)),
                     Emitting(e), all)
       [] case.progressive /\ sc.Ss = 0 /\ sc.Ah > 0 ->
            [Emitting(e) EXCEPT !.out = [i \in 1..Len(blocks) |->
                                           Bit(PointTransform(0, blocks[i][0], sc.Al) % 2)]]
       [] case.progressive /\ sc.Ss > 0 /\ sc.Ah = 0 ->
            EndOfBand(FoldLeft(LAMBDA a, k : ACFirst(a, x(k)), Emitting(e), band))
       [] case.progressive /\ sc.Ss > 0 /\ sc.Ah > 0 ->
            EndOfBand(FoldLeft(LAMBDA a, k : ACRefine(a, k, x(k), EOB), Emitting(e), band))

\* htest_one_block: the symbols of a block of a sequential scan, counted.
HtestBlock(block, last_dc_val) ==
  LET nz == {k \in 1..case.lim_Se : block[k] # 0}
      prev(k) == CHOOSE j \in nz \cup {0} : j < k /\ \A i \in nz : i < k => i <= j
      run(k) == k - prev(k) - 1
  IN {<<"dc", NBits(Abs(block[0] - last_dc_val))>>}
       \cup {<<"ac", 16*(run(k) % 16) + NBits(Abs(block[k]))>> : k \in nz}
       \cup {<<"ac", 240>> : k \in {j \in nz : run(j) > 15}}
       \cup (IF case.lim_Se \in nz THEN {} ELSE {<<"ac", 0>>})

\* start_pass_huff for a scan, to count or to write.
StartedPass(s, gather) ==
  [scan |-> s, gather |-> gather, mcu |-> 1, EOBRUN |-> 0, BE |-> <<>>,
   last_dc_val |-> [i \in 1..Len(case.image) |-> 0],
   restarts_to_go |-> case.restart_interval, next_restart_num |-> 0]

\* emit_restart_e, emit_restart_s: what is pending goes before the marker.
Restarts(e) == case.restart_interval > 0 /\ e.restarts_to_go = 0
Restarted(e) ==
  [NoEobRun(e) EXCEPT !.last_dc_val = [i \in DOMAIN @ |-> 0],
                      !.restarts_to_go = case.restart_interval,
                      !.next_restart_num = (@ + 1) % 8]

Symbols(out) == {<<x.t, x.v>> : x \in {y \in Range(out) : IsSymbol(y)}}
Blocks(s, m) == [i \in 1..Len(Scan(s).comps) |-> case.image[Scan(s).comps[i]][m]]

EncodeMCU ==
  /\ ~Encoded /\ enc.mcu <= MCUs
  /\ LET e0 == IF Restarts(enc) THEN Restarted(enc) ELSE enc
         out0 == IF Restarts(enc) THEN Append(EobRun(enc), Elem("rst", enc.next_restart_num))
                 ELSE <<>>
         blocks == Blocks(enc.scan, enc.mcu)
         done == EncodeBlocks(e0, Scan(enc.scan), blocks)
         out == out0 \o done.out
     IN /\ enc' = [done.e EXCEPT !.mcu = @ + 1,
                       !.restarts_to_go = IF case.restart_interval > 0 THEN @ - 1 ELSE @]
        /\ IF enc.gather
           THEN /\ counted' = [counted EXCEPT ![enc.scan] = @ \cup
                     (IF case.progressive THEN Symbols(out)
                      ELSE UNION {HtestBlock(blocks[i], e0.last_dc_val[i]) : i \in DOMAIN blocks})]
                /\ stream' = stream
           ELSE stream' = stream \o out /\ counted' = counted
  /\ UNCHANGED <<case, hit, gone, avail, dec, coefs>>

\* Mutant of LastSymbols: finish_pass_gather does not flush.
LastSymbolsForgotten(e) == {}

\* The symbols of what is still pending at the end of a pass.
LastSymbols(e) == Symbols(EobRun(e))

\* finish_pass_gather, then the pass that writes the scan and its header.
FinishGather ==
  /\ ~Encoded /\ enc.mcu > MCUs /\ enc.gather
  /\ counted' = [counted EXCEPT ![enc.scan] = @ \cup LastSymbols(enc)]
  /\ enc' = StartedPass(enc.scan, FALSE)
  /\ stream' = Append(stream, Elem("sos", enc.scan))
  /\ UNCHANGED <<case, hit, gone, avail, dec, coefs>>

\* finish_pass_huff, then prepare_for_pass of the next scan (jcmaster.c): a DC
\* refinement scan has no symbols and is written at once.
FinishScan ==
  /\ ~Encoded /\ enc.mcu > MCUs /\ ~enc.gather
  /\ LET next == enc.scan + 1
         last == enc.scan = Len(case.script)
         written == stream \o EobRun(enc)
         gather == last \/ Scan(next).Ss > 0 \/ Scan(next).Ah = 0
     IN /\ enc' = StartedPass(next, gather)
        /\ stream' = CASE last -> Append(written, Elem("eoi", 0))
                       [] ~last /\ gather -> written
                       [] ~last /\ ~gather -> Append(written, Elem("sos", next))
  /\ UNCHANGED <<case, counted, hit, gone, avail, dec, coefs>>

-----------------------------------------------------------------------------
(* The way from the encoder to the decoder.                                *)

\* The scan and restart interval of element j of the stream.
ScanOf(j) == stream[CHOOSE i \in 1..j : /\ stream[i].t = "sos"
                                         /\ \A h \in (i + 1)..j : stream[h].t # "sos"].v
IntervalOf(j) ==
  LET s == CHOOSE i \in 1..j : stream[i] = Elem("sos", ScanOf(j))
  IN Cardinality({i \in s..j : stream[i].t = "rst"})

\* n elements from the i'th on get lost, all of one scan.
Lose(i, n) ==
  /\ Encoded /\ case.lossy /\ hit = {} /\ avail = 0
  /\ i + n <= Len(stream)
  /\ \A j \in i..(i + n - 1) : stream[j].t \notin {"sos", "eoi"}
  /\ hit' = {<<ScanOf(j), IntervalOf(j)>> : j \in i..(i + n - 1)}
  /\ gone' = Cardinality({j \in i..(i + n - 1) : stream[j].t = "rst"})
  /\ stream' = SubSeq(stream, 1, i - 1) \o SubSeq(stream, i + n, Len(stream))
  /\ UNCHANGED <<case, enc, counted, avail, dec, coefs>>

\* The source manager receives data: all of it, or any part.
Arrive(n) ==
  /\ Encoded /\ n > avail /\ n <= Len(stream)
  /\ case.suspends \/ n = Len(stream)
  /\ avail' = n
  /\ UNCHANGED <<case, enc, counted, stream, hit, gone, dec, coefs>>

-----------------------------------------------------------------------------
(* The decoder's data source: a cursor [pos, unread, insufficient, stop].   *)

NoMarker == Elem("none", 0)

\* jpeg_fill_bit_buffer: the next element, zeroes once a marker is reached, or
\* stop when it has not arrived.
Next1(c) ==
  LET marker == c.unread # NoMarker \/ (c.pos < avail /\ IsMarker(stream[c.pos + 1]))
  IN CASE marker /\ c.unread # NoMarker -> [c EXCEPT !.insufficient = TRUE]
       [] marker /\ c.unread = NoMarker ->
            [c EXCEPT !.insufficient = TRUE, !.unread = stream[c.pos + 1], !.pos = @ + 1]
       [] ~marker /\ c.pos < avail -> [c EXCEPT !.pos = @ + 1]
       [] ~marker /\ c.pos >= avail -> [c EXCEPT !.stop = TRUE]

\* A symbol of a table, or a bit.  Behind a loss the decoder may find the
\* other kind: what it makes of it does not matter here.
Taken(c) == IF c.pos < Len(stream) THEN stream[c.pos + 1] ELSE Elem("eoi", 0)
ReadSymbol(c, tbl) ==
  LET d == Next1(c)
  IN [c |-> d, v |-> IF ~d.insufficient /\ Taken(c).t = tbl THEN Taken(c).v ELSE case.zeroes[tbl]]

RECURSIVE ReadBits(_, _)
ReadBits(c, n) ==
  IF n = 0 \/ c.stop THEN [c |-> c, v |-> 0]
  ELSE LET first == ReadBits(c, n - 1)
           d == Next1(first.c)
           bit == IF d.insufficient THEN 0 ELSE Taken(first.c).v % 2
       IN [c |-> d, v |-> 2*first.v + bit]

\* HUFF_EXTEND.
Extend(x, s) == IF s > 0 /\ x < 2^(s - 1) THEN x - 2^s + 1 ELSE x

\* Mutant of Resync: the restart marker after the next is taken for the wanted one.
ResyncNarrow(m, desired) ==
  CASE m.t # "rst" -> 3
    [] m.t = "rst" /\ m.v = (desired + 1) % 8 -> 3
    [] m.t = "rst" /\ m.v \in {(desired + 7) % 8, (desired + 6) % 8} -> 2
    [] OTHER -> 1

\* The decision of jpeg_resync_to_restart: 3 leaves the marker unread, 2 looks
\* for another one and 1 resumes behind it.
Resync(m, desired) ==
  CASE m.t # "rst" -> 3
    [] m.t = "rst" /\ m.v \in {(desired + 1) % 8, (desired + 2) % 8} -> 3
    [] m.t = "rst" /\ m.v \in {(desired + 7) % 8, (desired + 6) % 8} -> 2
    [] OTHER -> 1

\* next_marker: skips to a marker, or to the end of what has arrived.
NextMarker(c) ==
  LET there == {p \in (c.pos + 1)..avail : IsMarker(stream[p])}
      p == CHOOSE q \in there : \A o \in there : q <= o
  IN IF there = {} THEN [c EXCEPT !.pos = avail, !.stop = TRUE]
     ELSE [c EXCEPT !.pos = p, !.unread = stream[p]]

\* read_restart_marker.
RECURSIVE Recover(_, _)
Recover(c, desired) ==
  LET action == Resync(c.unread, desired)
      next == NextMarker(c)
  IN CASE action = 1 -> [c EXCEPT !.unread = NoMarker]
       [] action = 2 /\ next.stop -> next
       [] action = 2 /\ ~next.stop -> Recover(next, desired)
       [] action = 3 -> c

ReadRestartMarker(c, desired) ==
  LET found == IF c.unread = NoMarker THEN NextMarker(c) ELSE c
  IN CASE found.stop -> found
       [] ~found.stop /\ found.unread = Elem("rst", desired) -> [found EXCEPT !.unread = NoMarker]
       [] ~found.stop /\ found.unread # Elem("rst", desired) -> Recover(found, desired)

-----------------------------------------------------------------------------
(* The decoder.                                                            *)

\* natural_order with its extra entries.
At(k) == IF k > case.lim_Se THEN 63 ELSE k

\* The AC coefficients from k on, of a first pass or of a sequential block.
RECURSIVE ReadBand(_, _, _, _)
ReadBand(b, c, k, sc) ==
  LET sym == ReadSymbol(c, "ac")
      r == sym.v \div 16
      s == sym.v % 16
      eob == s = 0 /\ r # 15
      x == ReadBits(sym.c, IF s > 0 THEN s ELSE IF eob /\ case.progressive THEN r ELSE 0)
  IN IF k > (IF case.progressive THEN sc.Se ELSE case.lim_Se)
     THEN [b |-> b, c |-> c, EOBRUN |-> 0]
     ELSE CASE x.c.stop -> [b |-> b, c |-> x.c, EOBRUN |-> 0]
            [] ~x.c.stop /\ s > 0 ->
                 ReadBand([b EXCEPT ![At(k + r)] = Extend(x.v, s)*2^sc.Al], x.c, k + r + 1, sc)
            [] ~x.c.stop /\ s = 0 /\ r = 15 -> ReadBand(b, x.c, k + 16, sc)
            [] ~x.c.stop /\ eob ->
                 [b |-> b, c |-> x.c, EOBRUN |-> IF case.progressive THEN 2^r + x.v - 1 ELSE 0]

\* A correction bit for a nonzero coefficient, unless it is set already.
Correct(x, bit, Al) ==
  IF bit = 1 /\ (x \div 2^Al) % 2 = 0 THEN IF x >= 0 THEN x + 2^Al ELSE x - 2^Al ELSE x

\* Over nonzero coefficients, each with its correction bit, and r zeroes.
RECURSIVE Advance(_, _, _, _, _)
Advance(b, c, k, r, sc) ==
  LET x == ReadBits(c, 1)
      here == [b |-> b, c |-> c, k |-> k]
  IN CASE k > sc.Se -> here
       [] k <= sc.Se /\ b[k] # 0 /\ x.c.stop -> [here EXCEPT !.c = x.c]
       [] k <= sc.Se /\ b[k] # 0 /\ ~x.c.stop ->
            Advance([b EXCEPT ![k] = Correct(@, x.v, sc.Al)], x.c, k + 1, r, sc)
       [] k <= sc.Se /\ b[k] = 0 /\ r = 0 -> here
       [] k <= sc.Se /\ b[k] = 0 /\ r > 0 -> Advance(b, c, k + 1, r - 1, sc)

\* The coded part of a refinement band; new are the coefficients made nonzero.
RECURSIVE Refine(_, _, _, _, _)
Refine(b, c, k, new, sc) ==
  LET sym == ReadSymbol(c, "ac")
      r == sym.v \div 16
      s == sym.v % 16
      eob == s = 0 /\ r # 15
      x == ReadBits(sym.c, IF s > 0 THEN 1 ELSE IF eob THEN r ELSE 0)
      adv == Advance(b, x.c, k, r, sc)
      set == IF x.v = 1 THEN 2^sc.Al ELSE -(2^sc.Al)
      at == At(adv.k)
      result == [b |-> b, c |-> c, k |-> k, new |-> new, EOBRUN |-> 0]
  IN CASE k > sc.Se -> result
       [] k <= sc.Se /\ x.c.stop -> [result EXCEPT !.c = x.c]
       [] k <= sc.Se /\ ~x.c.stop /\ eob -> [result EXCEPT !.c = x.c, !.EOBRUN = 2^r + x.v]
       [] k <= sc.Se /\ ~x.c.stop /\ ~eob /\ adv.c.stop ->
            [result EXCEPT !.c = adv.c, !.b = adv.b]
       [] k <= sc.Se /\ ~x.c.stop /\ ~eob /\ ~adv.c.stop ->
            IF s > 0 THEN Refine([adv.b EXCEPT ![at] = set], adv.c, adv.k + 1, new \cup {at}, sc)
            ELSE Refine(adv.b, adv.c, adv.k + 1, new, sc)

\* The DC difference of the i'th block; and all blocks of a DC or sequential MCU.
ReadDC(st, i, sc) ==
  LET sym == ReadSymbol(st.c, "dc")
      x == ReadBits(sym.c, sym.v)
      dc == st.last_dc_val[i] + Extend(x.v, sym.v)
      ac == ReadBand([st.bs[i] EXCEPT ![0] = dc*2^sc.Al], x.c, 1, sc)
  IN CASE st.c.stop -> st
       [] ~st.c.stop /\ x.c.stop -> [st EXCEPT !.c = x.c]
       [] ~st.c.stop /\ ~x.c.stop /\ case.progressive ->
            [st EXCEPT !.c = x.c, !.bs[i][0] = dc*2^sc.Al, !.last_dc_val[i] = dc]
       [] ~st.c.stop /\ ~x.c.stop /\ ~case.progressive ->
            [st EXCEPT !.c = ac.c, !.bs[i] = ac.b, !.last_dc_val[i] = dc]

RefineDC(st, i, sc) ==
  LET x == ReadBits(st.c, 1)
  IN IF x.c.stop THEN [st EXCEPT !.c = x.c]
     ELSE [st EXCEPT !.c = x.c,
                     !.bs[i][0] = IF x.v = 1 /\ (@ \div 2^sc.Al) % 2 = 0 THEN @ + 2^sc.Al ELSE @]

\* Mutant of Undone: a suspended refinement leaves its new coefficients.
NotUndone(b, new) == b

\* undoit: the coefficients made nonzero in a suspended call are zero again.
Undone(b, new) == [k \in DOMAIN b |-> IF k \in new THEN 0 ELSE b[k]]

\* A refinement band up to where symbols end, and on over the blocks whose end
\* of band is pending, with correction bits only.
RefineCoded(st, sc) ==
  IF st.EOBRUN = 0 THEN Refine(st.bs[1], st.c, sc.Ss, {}, sc)
  ELSE [b |-> st.bs[1], c |-> st.c, k |-> sc.Ss, new |-> {}, EOBRUN |-> st.EOBRUN]
RefineRest(coded, sc) ==
  IF coded.EOBRUN > 0 /\ ~coded.c.stop THEN Advance(coded.b, coded.c, coded.k, 64, sc) ELSE coded

\* What is left of decoding a band: the blocks and the bit position, and of a
\* suspended refinement the corrections only.
AfterBand(st, band) == [st EXCEPT !.c = band.c, !.bs[1] = band.b, !.EOBRUN = band.EOBRUN]
AfterRefinement(st, coded, all) ==
  IF all.c.stop THEN [st EXCEPT !.c = all.c, !.bs[1] = Undone(all.b, coded.new)]
  ELSE [st EXCEPT !.c = all.c, !.bs[1] = all.b,
                  !.EOBRUN = IF coded.EOBRUN > 0 THEN coded.EOBRUN - 1 ELSE 0]

\* decode_mcu_DC_first, _DC_refine, _AC_first, _AC_refine and decode_mcu: from
\* st = [c, bs, last_dc_val, EOBRUN] to what they leave.
DecodeBlocks(st, sc) ==
  LET coded == RefineCoded(st, sc)
      all == Indices(1, Len(st.bs))
  IN CASE sc.Ss = 0 /\ sc.Ah = 0 -> FoldLeft(LAMBDA s, i : ReadDC(s, i, sc), st, all)
       [] sc.Ss = 0 /\ sc.Ah > 0 -> FoldLeft(LAMBDA s, i : RefineDC(s, i, sc), st, all)
       [] sc.Ss > 0 /\ sc.Ah = 0 /\ st.EOBRUN > 0 -> [st EXCEPT !.EOBRUN = @ - 1]
       [] sc.Ss > 0 /\ sc.Ah = 0 /\ st.EOBRUN = 0 ->
            AfterBand(st, ReadBand(st.bs[1], st.c, sc.Ss, sc))
       [] sc.Ss > 0 /\ sc.Ah > 0 -> AfterRefinement(st, coded, RefineRest(coded, sc))

\* process_restart: the decoder's state behind it, stopped if it must suspend.
ProcessRestart ==
  IF case.restart_interval = 0 \/ dec.restarts_to_go > 0 THEN dec
  ELSE LET c == ReadRestartMarker(dec.c, dec.next_restart_num)
       IN IF c.stop THEN [dec EXCEPT !.c = c]
          ELSE [dec EXCEPT
                 !.c = [c EXCEPT !.insufficient = IF c.unread = NoMarker THEN FALSE ELSE @],
                 !.next_restart_num = (@ + 1) % 8,
                 !.last_dc_val = [i \in DOMAIN @ |-> 0],
                 !.EOBRUN = 0,
                 !.restarts_to_go = case.restart_interval]

\* The blocks of the MCU at hand, in the coefficient arrays.
InMCU(sc) == [i \in 1..Len(sc.comps) |-> coefs[sc.comps[i]][dec.mcu]]
Stored(sc, bs) ==
  [ci \in DOMAIN coefs |-> [m \in DOMAIN coefs[ci] |->
     IF m = dec.mcu /\ \E i \in 1..Len(sc.comps) : sc.comps[i] = ci
     THEN bs[CHOOSE i \in 1..Len(sc.comps) : sc.comps[i] = ci]
     ELSE coefs[ci][m]]]

\* A call returns: suspended, it leaves the saved state and the data source as
\* process_restart left them in d, and the blocks as far as it got.
Answer(d, sc, done) ==
  /\ coefs' = Stored(sc, done.bs)
  /\ dec' = IF done.c.stop THEN [d EXCEPT !.c.stop = FALSE]
            ELSE [d EXCEPT !.c = done.c, !.last_dc_val = done.last_dc_val,
                           !.EOBRUN = done.EOBRUN, !.mcu = @ + 1, !.restarts_to_go = @ - 1]

\* decode_mcu behind process_restart; nothing is decoded once data are missing.
Decode(d, sc) ==
  LET st == [c |-> d.c, last_dc_val |-> d.last_dc_val, EOBRUN |-> d.EOBRUN, bs |-> InMCU(sc)]
      skip == d.c.stop \/ (d.c.insufficient /\ ~(sc.Ss = 0 /\ sc.Ah > 0))
  IN Answer(d, sc, IF skip THEN st ELSE DecodeBlocks(st, sc))

\* One call of decode_mcu.
DecodeMCU ==
  /\ dec.scan \in 1..Len(case.script) /\ dec.mcu <= MCUs
  /\ Decode(ProcessRestart, Scan(dec.scan))
  /\ UNCHANGED <<case, enc, counted, stream, hit, gone, avail>>

\* Between scans: read_markers looks for the next SOS or EOI, passing over
\* restart markers, and start_pass_huff_decoder makes all state new.
ReadScanHeader ==
  /\ avail > 0 /\ (dec.scan = 0 \/ dec.mcu > MCUs) /\ dec.scan <= Len(case.script)
  /\ LET from == IF dec.c.unread.t \in {"sos", "eoi"} THEN dec.c.pos ELSE dec.c.pos + 1
         there == {p \in from..avail : stream[p].t \in {"sos", "eoi"}}
         p == CHOOSE q \in there : \A o \in there : q <= o
     IN IF there = {} THEN dec' = [dec EXCEPT !.c.pos = avail, !.c.unread = NoMarker]
        ELSE dec' = [scan |-> IF stream[p].t = "sos" THEN stream[p].v ELSE Len(case.script) + 1,
                     mcu |-> 1, EOBRUN |-> 0, restarts_to_go |-> case.restart_interval,
                     next_restart_num |-> 0,
                     last_dc_val |-> [i \in 1..Len(case.image) |-> 0],
                     c |-> [pos |-> p, unread |-> NoMarker, insufficient |-> FALSE,
                            stop |-> FALSE]]
  /\ UNCHANGED <<case, enc, counted, stream, hit, gone, avail, coefs>>

-----------------------------------------------------------------------------
Init ==
  /\ case \in Cases
  /\ enc = StartedPass(1, TRUE)
  /\ counted = [s \in 1..Len(case.script) |-> {}]
  /\ stream = <<>> /\ hit = {} /\ gone = 0 /\ avail = 0
  /\ dec = [scan |-> 0, mcu |-> 1, EOBRUN |-> 0, restarts_to_go |-> 0, next_restart_num |-> 0,
            last_dc_val |-> [i \in 1..Len(case.image) |-> 0],
            c |-> [pos |-> 0, unread |-> NoMarker, insufficient |-> FALSE, stop |-> FALSE]]
  /\ coefs = [ci \in DOMAIN case.image |-> [m \in DOMAIN case.image[ci] |->
                [k \in DOMAIN case.image[ci][m] |-> 0]]]

Next ==
  \/ EncodeMCU \/ FinishGather \/ FinishScan
  \/ \E i \in 1..Len(stream), n \in LossLengths : Lose(i, n)
  \/ \E n \in 1..Len(stream) : Arrive(n)
  \/ ReadScanHeader \/ DecodeMCU

Spec == Init /\ [][Next]_vars

-----------------------------------------------------------------------------
(* Properties.                                                             *)

\* The MCUs of the intervals that lost data, in whatever scan.
Damaged ==
  IF hit = {} THEN {}
  ELSE IF case.restart_interval = 0 THEN 1..MCUs
  ELSE {m \in 1..MCUs : \E h \in hit : h[2] = (m - 1) \div case.restart_interval}

\* The scans that have brought coefficient k of component ci in MCU m.
Brought(ci, m, k) ==
  {s \in 1..Min2(dec.scan, Len(case.script)) :
     /\ \E i \in DOMAIN Scan(s).comps : Scan(s).comps[i] = ci
     /\ k \in Scan(s).Ss..Scan(s).Se
     /\ s < dec.scan \/ m < dec.mcu}

\* Whether a suspended call may have left part of MCU m of component ci.
InFlight(ci, m) ==
  /\ dec.scan \in 1..Len(case.script) /\ m = dec.mcu
  /\ \E i \in DOMAIN Scan(dec.scan).comps : Scan(dec.scan).comps[i] = ci

Exact(ci, m) ==
  \A k \in DOMAIN coefs[ci][m] :
    LET scans == Brought(ci, m, k)
        last == CHOOSE s \in scans : \A o \in scans : o <= s
        Al == Scan(last).Al
    IN coefs[ci][m][k] = IF scans = {} THEN 0
                         ELSE PointTransform(k, case.image[ci][m][k], Al)*2^Al

\* With no data lost, and however often the decoder had to suspend in whatever
\* place, every coefficient is the encoder's, to the bit the scans so far have
\* brought (decode_mcu_* against encode_mcu_*).
Restored ==
  hit = {} => \A ci \in DOMAIN coefs, m \in 1..MCUs : InFlight(ci, m) \/ Exact(ci, m)

\* Lost data damages the restart intervals it was lost from and no other, as
\* long as no more than two restart markers went with it (read_restart_marker
\* and jpeg_resync_to_restart).
ErrorConfined ==
  hit # {} /\ gone <= 2 =>
    \A ci \in DOMAIN coefs, m \in (1..MCUs) \ Damaged : InFlight(ci, m) \/ Exact(ci, m)

\* Every symbol written for a scan has been counted for its tables, so that it
\* has a code (JERR_HUFF_MISSING_CODE); and the EOB counter and the buffer of
\* correction bits stay within their limits (encode_mcu_AC_refine).
EverySymbolCoded ==
  /\ avail = 0 /\ hit = {} =>
       \A j \in 1..Len(stream) :
         IsSymbol(stream[j]) => <<stream[j].t, stream[j].v>> \in counted[ScanOf(j)]
  /\ enc.EOBRUN < EOBRUN_MAX
  /\ Len(enc.BE) + DCTSIZE2 - 1 <= MAX_CORR_BITS
=============================================================================
