------------------------ MODULE DecoderControlProofs ------------------------
(***************************************************************************)
(* The decompressor stays in step with any stream of markers and MCUs, and    *)
(* every row it shows has the data of the scan that was asked for.            *)
(*                                                                          *)
(* What the object knows of the image is compared with the stream by          *)
(* predicates of a file f, the object c and the element b where the image       *)
(* begins: Parsed is about the markers read so far, Filled about the            *)
(* coefficients, Passing about the output pass.                                *)
(***************************************************************************)
EXTENDS DecoderControl, FoldLemmas, TLAPS

-----------------------------------------------------------------------------
(* The stream.                                                              *)

Real(f, j) == f.els[j].t = "sos" /\ f.els[j].n > 0
ScansOf(f, b, p) == {j \in b..p : Real(f, j)}
AllScans(f, b) ==
  {j \in b..Len(f.els) : Real(f, j) /\ \A i \in (b + 1)..j : f.els[i].t \notin {"soi", "eoi"}}
Has(f, b, p, t) == \E j \in b..p : f.els[j].t = t

\* The image that begins at b has been read up to p.
Begins(f, b, p) ==
  /\ p \in 1..Len(f.els) /\ b \in 1..p /\ f.els[b].t = "soi"
  /\ \A j \in (b + 1)..p : f.els[j].t # "soi"

\* The source stands between two images, or at the end.
BetweenImages(f, p) ==
  p \in 0..Len(f.els) /\
  (p = 0 \/ p = Len(f.els) \/ f.els[p].t = "eoi" \/ f.els[p + 1].t = "soi")

InOneScan(f, b, p) ==
  \E k \in b..p, j \in b..p :
    /\ f.els[k].t = "sof" /\ ~f.els[k].prog
    /\ f.els[j].t = "sos" /\ f.els[j].n >= f.els[k].n

-----------------------------------------------------------------------------
(* Types.                                                                   *)

Objects ==
  [global_state : {"START", "INHEADER", "READY", "PRELOAD", "PRESCAN", "SCANNING", "BUFIMAGE",
                   "BUFPOST", "STOPPING"},
   saw_SOI : BOOLEAN, saw_SOF : BOOLEAN, num_components : Nat, progressive_mode : BOOLEAN,
   comps_in_scan : Nat, Ss : Nat, inheaders : 0..2, eoi_reached : BOOLEAN,
   has_multiple_scans : BOOLEAN, consume_input : {"markers", "data"}, input_scan_number : Nat,
   input_iMCU_row : Nat, MCU_ctr : Nat, output_scan_number : Nat, output_iMCU_row : Nat,
   output_scanline : Nat, is_dummy_pass : BOOLEAN, crank : BOOLEAN, colormap : BOOLEAN,
   buffered_image : BOOLEAN, two_pass : BOOLEAN, smoothing : BOOLEAN,
   decompress : {"none", "onepass", "data", "smooth"}]
RowsOf(f) == 0..(f.rows - 1)
ColsOf(f) == 0..(f.cols - 1)
Arrays(f) == [RowsOf(f) -> [ColsOf(f) -> Nat]]
Emissions == [have : Nat, below : Nat]
Errors == {"none", "NO_SOI", "SOI_DUPLICATE", "SOF_DUPLICATE", "SOS_NO_SOF", "SOF_NO_SOS",
           "EOI_EXPECTED", "NO_QUANT_TABLE"}
Streams == [els : Seq(Elements), rows : Positive, cols : Positive]

Types ==
  /\ file \in Streams /\ Len(file.els) > 0
  /\ avail \in 0..Len(file.els) /\ pos \in 0..avail
  /\ cinfo \in Objects /\ tables \in BOOLEAN /\ coefs \in Arrays(file)
  /\ error \in Errors /\ asked \in Nat
  /\ shown \in Seq(Emissions) /\ strip \in Seq(Emissions)

-----------------------------------------------------------------------------
(* What the object knows of the image.                                       *)

\* As reset_input_controller and reset_marker_reader leave it.
Fresh(c) ==
  /\ ~c.saw_SOI /\ ~c.saw_SOF /\ ~c.eoi_reached /\ ~c.has_multiple_scans
  /\ c.inheaders = 1 /\ c.input_scan_number = 0

Parsed(f, c, p, tb, b) ==
  /\ Begins(f, b, p)
  /\ c.saw_SOI /\ (c.saw_SOF <=> Has(f, b, p, "sof"))
  /\ ~Has(f, b, p - 1, "eoi") /\ (c.eoi_reached <=> f.els[p].t = "eoi")
  /\ \A j \in b..p : f.els[j].t = "sof" =>
       c.num_components = f.els[j].n /\ c.progressive_mode = f.els[j].prog
  /\ c.input_scan_number = Cardinality(ScansOf(f, b, p))
  /\ c.inheaders = 0 <=> ScansOf(f, b, p) # {}
  /\ c.inheaders # 1 /\ ~c.has_multiple_scans => InOneScan(f, b, p)
  /\ Has(f, b, p, "tables") => tb

Heading(f, c, p, tb) ==
  /\ c.consume_input = "markers"
  /\ \/ Fresh(c) /\ BetweenImages(f, p)
     \/ c.inheaders > 0 /\ \E b \in 1..p : Parsed(f, c, p, tb, b)

\* The coefficients behind the MCUs decoded so far, and the scan in progress.
Filled(f, c, cs) ==
  \A r \in RowsOf(f), k \in ColsOf(f) :
    /\ cs[r][k] + 1 >= c.input_scan_number
    /\ \/ c.consume_input = "markers" \/ r < c.input_iMCU_row
       \/ r = c.input_iMCU_row /\ k < c.MCU_ctr
       => cs[r][k] >= c.input_scan_number
InScan(f, c, p, b) ==
  c.consume_input = "data" =>
    /\ c.input_iMCU_row \in RowsOf(f) /\ c.MCU_ctr \in ColsOf(f) /\ ~c.eoi_reached
    /\ \E l \in ScansOf(f, b, p) :
         ScansOf(f, b, p) = ScansOf(f, b, l) /\ c.Ss = f.els[l].Ss

Decoding(f, c, p, tb, cs, b) ==
  Parsed(f, c, p, tb, b) /\ c.inheaders = 0 /\ Filled(f, c, cs) /\ InScan(f, c, p, b)

-----------------------------------------------------------------------------
(* The output pass.                                                          *)

ScanTotal(f, c, b) == IF c.has_multiple_scans THEN Cardinality(AllScans(f, b)) ELSE 1
DueOf(f, c, a, b) == IF a < ScanTotal(f, c, b) THEN a ELSE ScanTotal(f, c, b)
DCDue(f, c, a, b) ==
  \E j \in AllScans(f, b) : Cardinality(ScansOf(f, b, j)) = DueOf(f, c, a, b) /\ f.els[j].Ss = 0
Complete(f, c, a, b, q) ==
  \A i \in 1..Len(q) :
    /\ q[i].have >= DueOf(f, c, a, b)
    /\ c.decompress = "smooth" /\ DCDue(f, c, a, b) => q[i].below >= DueOf(f, c, a, b)

Methods(c) ==
  /\ c.is_dummy_pass => c.global_state = "PRESCAN"
  /\ c.decompress # "none"
  /\ c.decompress = "onepass" <=> ~c.has_multiple_scans /\ ~c.buffered_image
  /\ c.global_state = "PRELOAD" => ~c.buffered_image
  /\ c.global_state \in {"BUFIMAGE", "BUFPOST"} => c.buffered_image
  /\ c.global_state = "PRELOAD" /\ c.decompress = "onepass" =>
       c.consume_input = "data" /\ c.input_iMCU_row = 0

Passing(f, c, a, st, sh, b) ==
  /\ c.output_scan_number >= DueOf(f, c, a, b)
  /\ c.output_scanline <= f.rows
  /\ ~c.crank =>
       /\ c.output_iMCU_row = c.output_scanline
       /\ c.decompress = "onepass" /\ c.output_scanline < f.rows =>
            c.consume_input = "data" /\ c.input_iMCU_row = c.output_scanline
  /\ c.crank => Len(st) = f.rows /\ Complete(f, c, a, b, st)
  /\ c.global_state = "PRESCAN" =>
       IF c.is_dummy_pass
       THEN /\ ~c.crank /\ c.output_scanline < f.rows
            /\ c.output_scanline > 0 =>
                 Len(st) = c.output_scanline /\ Complete(f, c, a, b, st)
       ELSE c.output_scanline = 0
  /\ c.global_state = "SCANNING" => Complete(f, c, a, b, sh)

-----------------------------------------------------------------------------
(* The invariant.                                                            *)

Outputs == {"PRESCAN", "SCANNING"}
Running == {"PRELOAD", "BUFIMAGE", "BUFPOST", "STOPPING"} \cup Outputs

Ready(f, c, p, tb, b) ==
  /\ Parsed(f, c, p, tb, b) /\ c.inheaders = 0 /\ c.consume_input = "markers"
  /\ c.input_scan_number = 1 /\ Real(f, p) /\ c.Ss = f.els[p].Ss

Standing(f, c, p, tb, cs, a, st, sh) ==
  /\ c.global_state = "START" => BetweenImages(f, p)
  /\ c.global_state = "INHEADER" => Heading(f, c, p, tb)
  /\ c.global_state = "READY" => \E b \in 1..p : Ready(f, c, p, tb, b)
  /\ c.global_state \in Running =>
       /\ a > 0 /\ Methods(c)
       /\ \E b \in 1..p : /\ Decoding(f, c, p, tb, cs, b)
                          /\ c.global_state \in Outputs => Passing(f, c, a, st, sh, b)

\* An error: what was shown remains, and the count is right.
Stopped(f, c, p, a, sh) ==
  c.global_state \in Running \cup {"READY"} =>
    \E b \in 1..p :
      /\ Begins(f, b, p) /\ c.input_scan_number = Cardinality(ScansOf(f, b, p))
      /\ c.global_state = "SCANNING" => Complete(f, c, a, b, sh)

\* The image that begins at b, read up to p, deserves error e.
DeservesIn(f, b, p, e) ==
  /\ Begins(f, b, p) /\ e \notin {"none", "NO_SOI"}
  /\ e \in {"SOI_DUPLICATE", "SOF_DUPLICATE", "SOS_NO_SOF"} => p < Len(f.els)
  /\ e = "SOI_DUPLICATE" => f.els[p + 1].t = "soi" /\ ~Has(f, b, p, "eoi")
  /\ e = "SOF_DUPLICATE" => f.els[p + 1].t = "sof" /\ Has(f, b, p, "sof")
  /\ e = "SOS_NO_SOF" => f.els[p + 1].t = "sos" /\ ~Has(f, b, p, "sof")
  /\ e = "SOF_NO_SOS" => f.els[p].t = "eoi" /\ Has(f, b, p, "sof") /\ ScansOf(f, b, p) = {}
  /\ e = "EOI_EXPECTED" => f.els[p].t = "sos" /\ p \in Nat /\ InOneScan(f, b, p - 1)
  /\ e = "NO_QUANT_TABLE" => ScansOf(f, b, p) # {} /\ ~Has(f, b, p, "tables")

DeservesAt(f, p, e) ==
  IF e = "NO_SOI"
  THEN ~(p < Len(f.els) /\ f.els[p + 1].t = "soi") /\ (p = 0 \/ f.els[p].t = "eoi")
  ELSE \E b \in 1..p : DeservesIn(f, b, p, e)

DecoderInv ==
  /\ Types
  /\ error = "none" => Standing(file, cinfo, pos, tables, coefs, asked, strip, shown)
  /\ error # "none" => Stopped(file, cinfo, pos, asked, shown) /\ DeservesAt(file, pos, error)

-----------------------------------------------------------------------------
(* Elements and scans of a stream.                                           *)

LEMMA ElementKinds ==
  ASSUME NEW f \in Streams, NEW j \in 1..Len(f.els)
  PROVE  /\ f.els[j].t \in {"soi", "eoi", "tables", "mcu", "sof", "sos"}
         /\ f.els[j].t = "sof" => f.els[j].n \in Nat /\ f.els[j].n > 0 /\ f.els[j].prog \in BOOLEAN
         /\ f.els[j].t = "sos" => f.els[j].n \in Nat /\ f.els[j].Ss \in Nat
<1>1. f.els[j] \in Elements
  BY DEF Streams
<1> DEFINE e == f.els[j]
<1>2. CASE e \in [t : {"soi", "eoi", "tables", "mcu"}]
  BY <1>2
<1>3. CASE e \in [t : {"sof"}, n : Positive, prog : BOOLEAN]
  BY <1>3 DEF Positive
<1>4. CASE e \in [t : {"sos"}, n : Nat, Ss : Nat]
  BY <1>4
<1> QED
  BY <1>1, <1>2, <1>3, <1>4 DEF Elements

\* Scans are finitely many.
LEMMA ScansFinite ==
  ASSUME NEW f, NEW b \in Int, NEW p \in Int
  PROVE  IsFiniteSet(ScansOf(f, b, p)) /\ Cardinality(ScansOf(f, b, p)) \in Nat
<1>1. ScansOf(f, b, p) \in SUBSET (b..p)
  BY DEF ScansOf
<1>2. IsFiniteSet(b..p)
  BY FS_Interval
<1>3. IsFiniteSet(ScansOf(f, b, p))
  BY <1>1, <1>2, FS_Subset
<1> QED
  BY <1>3, FS_CardinalityType

\* One element more is one scan more if it begins one.
LEMMA NextScan ==
  ASSUME NEW f, NEW b \in Nat, NEW p \in Nat, b <= p + 1
  PROVE  /\ ScansOf(f, b, p + 1) =
              IF Real(f, p + 1) THEN ScansOf(f, b, p) \cup {p + 1} ELSE ScansOf(f, b, p)
         /\ Cardinality(ScansOf(f, b, p + 1)) =
              IF Real(f, p + 1) THEN Cardinality(ScansOf(f, b, p)) + 1
              ELSE Cardinality(ScansOf(f, b, p))
<1>1. b..(p + 1) = (b..p) \cup {p + 1}
  OBVIOUS
<1>2. ScansOf(f, b, p + 1) =
        IF Real(f, p + 1) THEN ScansOf(f, b, p) \cup {p + 1} ELSE ScansOf(f, b, p)
  BY <1>1 DEF ScansOf
<1>3. p + 1 \notin ScansOf(f, b, p)
  BY DEF ScansOf
<1>4. IsFiniteSet(ScansOf(f, b, p))
  BY ScansFinite
<1>5. Cardinality(ScansOf(f, b, p) \cup {p + 1}) = Cardinality(ScansOf(f, b, p)) + 1
  BY <1>3, <1>4, FS_AddElement
<1> QED
  BY <1>2, <1>5

\* A scan is told by its number.
LEMMA ScanOrder ==
  ASSUME NEW f, NEW b \in Nat, NEW i \in Nat, NEW j \in Nat, i < j, b <= i, Real(f, j)
  PROVE  Cardinality(ScansOf(f, b, i)) # Cardinality(ScansOf(f, b, j))
<1>1. ScansOf(f, b, i) \in SUBSET ScansOf(f, b, j)
  BY DEF ScansOf
<1>2. j \in ScansOf(f, b, j) /\ j \notin ScansOf(f, b, i)
  BY DEF ScansOf
<1>3. IsFiniteSet(ScansOf(f, b, j))
  BY ScansFinite
<1> QED
  BY <1>1, <1>2, <1>3, FS_Subset

LEMMA ScanByNumber ==
  ASSUME NEW f, NEW b \in Nat, NEW i \in Nat, NEW j \in Nat, b <= i, b <= j,
         Real(f, i), Real(f, j), Cardinality(ScansOf(f, b, i)) = Cardinality(ScansOf(f, b, j))
  PROVE  i = j
<1>1. ~(i < j) /\ ~(j < i)
  BY ScanOrder
<1> QED
  BY <1>1

-----------------------------------------------------------------------------
(* Where an image begins.                                                    *)

LEMMA BeginsOnce ==
  ASSUME NEW f, NEW p, NEW b, NEW d, Len(f.els) \in Nat, Begins(f, b, p), Begins(f, d, p)
  PROVE  b = d
<1>1. p \in Nat /\ b \in 1..p /\ d \in 1..p
  BY DEF Begins
<1>2. ~(b < d)
  <2> SUFFICES ASSUME b < d PROVE FALSE
    OBVIOUS
  <2>1. d \in (b + 1)..p
    BY <1>1
  <2> QED
    BY <2>1 DEF Begins
<1>3. ~(d < b)
  <2> SUFFICES ASSUME d < b PROVE FALSE
    OBVIOUS
  <2>1. b \in (d + 1)..p
    BY <1>1
  <2> QED
    BY <2>1 DEF Begins
<1> QED
  BY <1>1, <1>2, <1>3

\* The operators of the properties are those of the image that has begun.
LEMMA StartIs ==
  ASSUME NEW b, Len(file.els) \in Nat, Begins(file, b, pos)
  PROVE  ImageStart = b
<1> DEFINE Is(i) == file.els[i].t = "soi" /\ \A j \in (i + 1)..pos : file.els[j].t # "soi"
<1>1. b \in 1..pos /\ Is(b)
  BY DEF Begins
<1>2. ASSUME NEW i \in 1..pos, Is(i) PROVE i = b
  <2>1. Begins(file, i, pos)
    BY <1>2 DEF Begins
  <2> QED
    BY <2>1, BeginsOnce
<1>3. ImageStart = CHOOSE i \in 1..pos : Is(i)
  BY DEF ImageStart
<1> HIDE DEF Is
<1> QED
  BY <1>1, <1>2, <1>3

LEMMA ImageIs ==
  ASSUME NEW b, Len(file.els) \in Nat, Begins(file, b, pos)
  PROVE  /\ \A i : Scans(i) = ScansOf(file, b, i)
         /\ ImageScans = AllScans(file, b)
         /\ \A t : Seen(t) = Has(file, b, pos, t)
<1>1. ImageStart = b
  BY StartIs
<1> QED
  BY <1>1 DEF Scans, ScansOf, IsScan, Real, ImageScans, AllScans, Seen, Has

LEMMA BeginsNext ==
  ASSUME NEW f, NEW b, NEW p, Len(f.els) \in Nat,
         Begins(f, b, p), p < Len(f.els), f.els[p + 1].t # "soi"
  PROVE  Begins(f, b, p + 1)
<1>1. p \in Nat /\ b \in Nat /\ p + 1 \in 1..Len(f.els) /\ b \in 1..(p + 1)
  BY DEF Begins
<1>2. ASSUME NEW j \in (b + 1)..(p + 1) PROVE f.els[j].t # "soi"
  <2>1. j \in (b + 1)..p \/ j = p + 1
    BY <1>1
  <2> QED
    BY <2>1 DEF Begins
<1> QED
  BY <1>1, <1>2 DEF Begins

LEMMA HasNext ==
  ASSUME NEW f, NEW b \in Nat, NEW p \in Nat, b <= p + 1
  PROVE  \A t : Has(f, b, p + 1, t) <=> Has(f, b, p, t) \/ f.els[p + 1].t = t
<1>1. b..(p + 1) = (b..p) \cup {p + 1}
  OBVIOUS
<1> QED
  BY <1>1 DEF Has

\* At the end of an image all its scans have been read.
LEMMA AllRead ==
  ASSUME NEW f, NEW b, NEW p, Len(f.els) \in Nat,
         Begins(f, b, p), ~Has(f, b, p - 1, "eoi"), f.els[p].t = "eoi"
  PROVE  AllScans(f, b) = ScansOf(f, b, p)
<1>1. p \in 1..Len(f.els) /\ b \in 1..p /\ p \in (b + 1)..p
  BY DEF Begins
<1>2. ASSUME NEW j \in ScansOf(f, b, p) PROVE j \in AllScans(f, b)
  <2>1. j \in b..p /\ Real(f, j) /\ j # p
    BY <1>2 DEF ScansOf, Real
  <2>2. ASSUME NEW i \in (b + 1)..j PROVE f.els[i].t \notin {"soi", "eoi"}
    <3>1. i \in (b + 1)..p /\ i \in b..(p - 1)
      BY <1>1, <2>1
    <3> QED
      BY <3>1 DEF Begins, Has
  <2> QED
    BY <1>1, <2>1, <2>2 DEF AllScans
<1>3. ASSUME NEW j \in AllScans(f, b) PROVE j \in ScansOf(f, b, p)
  <2>1. j \in b..Len(f.els) /\ Real(f, j) /\ \A i \in (b + 1)..j : f.els[i].t # "eoi"
    BY <1>3 DEF AllScans
  <2>2. p \notin (b + 1)..j
    BY <2>1
  <2> QED
    BY <1>1, <2>1, <2>2 DEF ScansOf
<1> QED
  BY <1>2, <1>3

-----------------------------------------------------------------------------
(* What the object knows of the markers read.                                *)

\* The fields that say so.
SameHeader(c, d) ==
  /\ d.saw_SOI = c.saw_SOI /\ d.saw_SOF = c.saw_SOF /\ d.num_components = c.num_components
  /\ d.progressive_mode = c.progressive_mode /\ d.has_multiple_scans = c.has_multiple_scans
  /\ d.inheaders = c.inheaders /\ d.eoi_reached = c.eoi_reached
  /\ d.input_scan_number = c.input_scan_number

LEMMA ParsedSame ==
  ASSUME NEW f, NEW c, NEW d, NEW p, NEW tb, NEW b, Parsed(f, c, p, tb, b), SameHeader(c, d)
  PROVE  Parsed(f, d, p, tb, b)
  BY DEF Parsed, SameHeader

\* d, with the tables ub, is what c with tb is to be behind element p + 1.
Takes(f, c, d, p, tb, ub) ==
  LET e == f.els[p + 1]
  IN  /\ e.t # "soi" /\ d.saw_SOI
      /\ d.saw_SOF <=> c.saw_SOF \/ e.t = "sof"
      /\ e.t = "sof" => /\ ~c.saw_SOF
                        /\ d.num_components = e.n /\ d.progressive_mode = e.prog
      /\ e.t # "sof" => /\ d.num_components = c.num_components
                        /\ d.progressive_mode = c.progressive_mode
      /\ d.eoi_reached <=> e.t = "eoi"
      /\ d.input_scan_number =
           IF Real(f, p + 1) THEN c.input_scan_number + 1 ELSE c.input_scan_number
      /\ d.inheaders = 0 <=> c.inheaders = 0 \/ Real(f, p + 1)
      /\ d.inheaders # 1 /\ ~d.has_multiple_scans =>
           \/ c.inheaders # 1 /\ ~c.has_multiple_scans
           \/ e.t = "sos" /\ c.saw_SOF /\ ~c.progressive_mode /\ e.n >= c.num_components
      /\ tb \/ e.t = "tables" => ub

LEMMA ParsedNext ==
  ASSUME NEW f, NEW c, NEW d, NEW p, NEW tb, NEW ub, NEW b, Len(f.els) \in Nat,
         Parsed(f, c, p, tb, b), p < Len(f.els), ~c.eoi_reached, Takes(f, c, d, p, tb, ub)
  PROVE  Parsed(f, d, p + 1, ub, b)
<1>0. p \in Nat /\ b \in Nat /\ b <= p /\ b <= p + 1 /\ b >= 1 /\ (p + 1) - 1 = p
  BY DEF Parsed, Begins
<1>1. Begins(f, b, p + 1)
  <2>1. Begins(f, b, p) /\ f.els[p + 1].t # "soi"
    BY DEF Parsed, Takes
  <2> QED
    BY <2>1, BeginsNext
<1>2. \A t : Has(f, b, p + 1, t) <=> Has(f, b, p, t) \/ f.els[p + 1].t = t
  BY <1>0, HasNext
<1>3. d.saw_SOI /\ (d.saw_SOF <=> Has(f, b, p + 1, "sof"))
  BY <1>2 DEF Parsed, Takes
<1>4. ~Has(f, b, p, "eoi")
  <2>1. ~Has(f, b, p - 1, "eoi") /\ f.els[p].t # "eoi"
    BY DEF Parsed
  <2>2. Has(f, b, (p - 1) + 1, "eoi") <=> Has(f, b, p - 1, "eoi") \/ f.els[(p - 1) + 1].t = "eoi"
    <3> DEFINE q == p - 1
    <3>1. q \in Nat /\ b <= q + 1
      BY <1>0
    <3> HIDE DEF q
    <3>2. Has(f, b, q + 1, "eoi") <=> Has(f, b, q, "eoi") \/ f.els[q + 1].t = "eoi"
      BY <1>0, <3>1, HasNext
    <3> QED
      BY <3>2 DEF q
  <2>3. (p - 1) + 1 = p
    BY <1>0
  <2> QED
    BY <2>1, <2>2, <2>3
<1>5. d.eoi_reached <=> f.els[p + 1].t = "eoi"
  BY DEF Takes
<1>6. ASSUME NEW j \in b..(p + 1), f.els[j].t = "sof"
      PROVE  d.num_components = f.els[j].n /\ d.progressive_mode = f.els[j].prog
  <2>1. CASE j = p + 1
    BY <1>6, <2>1 DEF Takes
  <2>2. CASE j # p + 1
    <3>1. j \in b..p
      BY <1>0, <2>2
    <3>2. c.saw_SOF
      BY <1>6, <3>1 DEF Parsed, Has
    <3> QED
      BY <1>6, <3>1, <3>2 DEF Parsed, Takes
  <2> QED
    BY <2>1, <2>2
<1>7. d.input_scan_number = Cardinality(ScansOf(f, b, p + 1))
  <2>1. Cardinality(ScansOf(f, b, p + 1)) =
          IF Real(f, p + 1) THEN Cardinality(ScansOf(f, b, p)) + 1
          ELSE Cardinality(ScansOf(f, b, p))
    BY <1>0, NextScan, Zenon
  <2> QED
    BY <2>1 DEF Parsed, Takes
<1>8. d.inheaders = 0 <=> ScansOf(f, b, p + 1) # {}
  <2>1. ScansOf(f, b, p + 1) =
          IF Real(f, p + 1) THEN ScansOf(f, b, p) \cup {p + 1} ELSE ScansOf(f, b, p)
    BY <1>0, NextScan, Zenon
  <2>2. ScansOf(f, b, p + 1) # {} <=> Real(f, p + 1) \/ ScansOf(f, b, p) # {}
    BY <2>1
  <2> QED
    BY <2>2 DEF Parsed, Takes
<1>9. d.inheaders # 1 /\ ~d.has_multiple_scans => InOneScan(f, b, p + 1)
  <2>1. b..p \subseteq b..(p + 1) /\ p + 1 \in b..(p + 1)
    BY <1>0
  <2>2. CASE c.inheaders # 1 /\ ~c.has_multiple_scans
    <3>1. InOneScan(f, b, p)
      BY <2>2 DEF Parsed
    <3> QED
      BY <2>1, <3>1 DEF InOneScan
  <2>3. CASE f.els[p + 1].t = "sos" /\ c.saw_SOF /\ ~c.progressive_mode
             /\ f.els[p + 1].n >= c.num_components
    <3>1. PICK k \in b..p : f.els[k].t = "sof"
      BY <2>3 DEF Parsed, Has
    <3>2. c.num_components = f.els[k].n /\ c.progressive_mode = f.els[k].prog
      BY <3>1 DEF Parsed
    <3> QED
      BY <2>1, <2>3, <3>1, <3>2 DEF InOneScan
  <2> QED
    BY <2>2, <2>3 DEF Takes
<1>10. Has(f, b, p + 1, "tables") => ub
  BY <1>2 DEF Parsed, Takes
<1> QED
  BY <1>0, <1>1, <1>3, <1>4, <1>5, <1>6, <1>7, <1>8, <1>9, <1>10 DEF Parsed

\* The first marker of an image.
LEMMA ParsedFirst ==
  ASSUME NEW f, NEW c, NEW d, NEW p, NEW tb, Len(f.els) \in Nat, p \in Nat, p < Len(f.els),
         f.els[p + 1].t = "soi", Fresh(c), SameHeader([c EXCEPT !.saw_SOI = TRUE], d),
         c \in Objects, d \in Objects
  PROVE  Parsed(f, d, p + 1, tb, p + 1)
<1>1. /\ d.saw_SOI /\ ~d.saw_SOF /\ ~d.eoi_reached /\ ~d.has_multiple_scans
      /\ d.inheaders = 1 /\ d.input_scan_number = 0
  BY DEF Fresh, SameHeader, Objects
<1>2. (p + 1)..(p + 1) = {p + 1} /\ (p + 1)..((p + 1) - 1) = {} /\ p + 1 \in 1..Len(f.els)
      /\ ((p + 1) + 1)..(p + 1) = {} /\ p + 1 \in 1..(p + 1)
  OBVIOUS
<1>3. ScansOf(f, p + 1, p + 1) = {}
  BY <1>2 DEF ScansOf, Real
<1>4. Cardinality(ScansOf(f, p + 1, p + 1)) = 0
  BY <1>3, FS_EmptySet
<1>5. \A t : Has(f, p + 1, p + 1, t) <=> t = "soi"
  BY <1>2 DEF Has
<1>6. ~Has(f, p + 1, (p + 1) - 1, "eoi")
  BY <1>2 DEF Has
<1>7. Begins(f, p + 1, p + 1)
  BY <1>2 DEF Begins
<1>8. \A j \in (p + 1)..(p + 1) : f.els[j].t = "sof" =>
       d.num_components = f.els[j].n /\ d.progressive_mode = f.els[j].prog
  BY <1>2
<1> QED
  BY <1>1, <1>3, <1>4, <1>5, <1>6, <1>7, <1>8 DEF Parsed

-----------------------------------------------------------------------------
(* Sessions: the object and its source in the middle of a call.               *)

Returns == {"more", "suspended", "error", "SOS", "EOI", "row", "scan", "emitted"}
Sessions(f, av) ==
  [c : Objects, pos : 0..av, tables : BOOLEAN, coefs : Arrays(f), ret : Returns, err : Errors]
Context == file \in Streams /\ Len(file.els) > 0 /\ avail \in 0..Len(file.els)

LEMMA NextElement ==
  ASSUME Context, NEW s \in Sessions(file, avail), ~Dry(s)
  PROVE  /\ s.pos \in Nat /\ s.pos < avail /\ s.pos + 1 \in 0..avail /\ s.pos < Len(file.els)
         /\ Len(file.els) \in Nat /\ s.pos + 1 \in 1..Len(file.els)
         /\ Coming(s) = file.els[s.pos + 1]
         /\ Coming(s).t \in {"soi", "eoi", "tables", "mcu", "sof", "sos"}
         /\ Coming(s).t = "sof" =>
              Coming(s).n \in Nat /\ Coming(s).n > 0 /\ Coming(s).prog \in BOOLEAN
         /\ Coming(s).t = "sos" => Coming(s).n \in Nat /\ Coming(s).Ss \in Nat
<1>1. /\ s.pos \in Nat /\ s.pos < avail /\ s.pos + 1 \in 0..avail /\ s.pos < Len(file.els)
      /\ Len(file.els) \in Nat /\ s.pos + 1 \in 1..Len(file.els)
  <2>1. avail \in 0..Len(file.els) /\ Len(file.els) \in Nat
    BY DEF Context, Streams
  <2>2. s.pos \in 0..avail /\ ~(s.pos >= avail)
    BY DEF Sessions, Dry
  <2> QED
    BY <2>1, <2>2
<1>2. file \in Streams
  BY DEF Context
<1> QED
  BY <1>1, <1>2, ElementKinds DEF Coming

\* What read_markers makes of each marker.
LEMMA MarkerRead ==
  ASSUME Context, NEW s \in Sessions(file, avail), ~Dry(s), s.c.saw_SOI
  PROVE  LET e == Coming(s)
             m == ReadMarker(s)
             t == [s EXCEPT !.pos = s.pos + 1, !.ret = "more"]
         IN  /\ e.t = "soi" => m = Failing(s, "SOI_DUPLICATE")
             /\ e.t = "tables" => m = [t EXCEPT !.tables = TRUE]
             /\ e.t = "sof" =>
                  m = IF s.c.saw_SOF THEN Failing(s, "SOF_DUPLICATE")
                      ELSE [t EXCEPT !.c = GetSOF(s.c, e)]
             /\ e.t = "sos" =>
                  m = IF ~s.c.saw_SOF THEN Failing(s, "SOS_NO_SOF")
                      ELSE [t EXCEPT !.c = GetSOS(s.c, e), !.ret = "SOS"]
             /\ e.t = "eoi" => m = Returning(t, "EOI")
             /\ e.t = "mcu" => m = t
<1> DEFINE e == Coming(s)
           t == [s EXCEPT !.pos = s.pos + 1, !.ret = "more"]
<1>0. t.c = s.c
  BY DEF Sessions
<1>1. CASE e.t = "soi"
  BY <1>1 DEF ReadMarker
<1>2. CASE e.t = "tables"
  BY <1>2 DEF ReadMarker
<1>3. CASE e.t = "sof"
  BY <1>0, <1>3 DEF ReadMarker
<1>4. CASE e.t = "sos"
  BY <1>0, <1>4 DEF ReadMarker
<1>5. CASE e.t = "eoi"
  BY <1>5 DEF ReadMarker
<1>6. CASE e.t = "mcu"
  BY <1>6 DEF ReadMarker
<1>7. e.t \in {"soi", "eoi", "tables", "mcu", "sof", "sos"}
  BY NextElement
<1> QED
  BY <1>1, <1>2, <1>3, <1>4, <1>5, <1>6, <1>7

-----------------------------------------------------------------------------
(* consume_markers up to the first scan.                                      *)

LEMMA NotEnded ==
  ASSUME NEW f, NEW c, NEW p, NEW tb, NEW b, Parsed(f, c, p, tb, b), ~c.eoi_reached
  PROVE  ~Has(f, b, p, "eoi")
<1>0. p - 1 \in Nat /\ b \in Nat /\ b <= (p - 1) + 1 /\ (p - 1) + 1 = p
  BY DEF Parsed, Begins
<1>1. ~Has(f, b, p - 1, "eoi") /\ f.els[p].t # "eoi"
  BY DEF Parsed
<1>2. Has(f, b, (p - 1) + 1, "eoi") <=> Has(f, b, p - 1, "eoi") \/ f.els[(p - 1) + 1].t = "eoi"
  BY <1>0, HasNext, Zenon
<1> QED
  BY <1>0, <1>1, <1>2

\* The errors of the marker reader, at which it stays before the marker.
LEMMA ReaderFails ==
  ASSUME Context, NEW s \in Sessions(file, avail), s.err = "none", ~Dry(s),
         NEW b, Parsed(file, s.c, s.pos, s.tables, b), ~s.c.eoi_reached,
         \/ Coming(s).t = "soi" \/ (Coming(s).t = "sof" /\ s.c.saw_SOF)
         \/ (Coming(s).t = "sos" /\ ~s.c.saw_SOF)
  PROVE  LET t == ConsumeMarkers(s)
         IN  /\ t \in Sessions(file, avail) /\ t.c = s.c /\ t.pos = s.pos /\ t.coefs = s.coefs
             /\ t.ret = "error" /\ DeservesIn(file, b, t.pos, t.err)
<1> DEFINE e == Coming(s)
           t == ConsumeMarkers(s)
           Fails(x) == t = Failing(s, x)
<1>1. s.c.saw_SOI /\ Begins(file, b, s.pos)
  BY DEF Parsed
<1>2. s.pos < Len(file.els) /\ e = file.els[s.pos + 1]
  BY NextElement
<1>3. ASSUME NEW x \in Errors, ReadMarker(s) = Failing(s, x) PROVE Fails(x)
  BY <1>3 DEF ConsumeMarkers, Failing, Sessions
<1>4. ASSUME NEW x \in Errors, Fails(x)
      PROVE  /\ t \in Sessions(file, avail) /\ t.c = s.c /\ t.pos = s.pos /\ t.coefs = s.coefs
             /\ t.ret = "error" /\ t.err = x
  BY <1>4 DEF Failing, Sessions, Returns
<1>5. {"SOI_DUPLICATE", "SOF_DUPLICATE", "SOS_NO_SOF"} \subseteq Errors
  BY DEF Errors
<1> HIDE DEF t, Fails
<1>6. CASE e.t = "soi"
  <2>1. Fails("SOI_DUPLICATE")
    BY <1>1, <1>3, <1>5, <1>6, MarkerRead
  <2>2. ~Has(file, b, s.pos, "eoi")
    BY NotEnded
  <2>3. DeservesIn(file, b, s.pos, "SOI_DUPLICATE")
    BY <1>1, <1>2, <1>6, <2>2 DEF DeservesIn
  <2> QED
    BY <1>4, <1>5, <2>1, <2>3 DEF t
<1>7. CASE e.t = "sof" /\ s.c.saw_SOF
  <2>1. Fails("SOF_DUPLICATE")
    BY <1>1, <1>3, <1>5, <1>7, MarkerRead
  <2>2. Has(file, b, s.pos, "sof")
    BY <1>7 DEF Parsed
  <2>3. DeservesIn(file, b, s.pos, "SOF_DUPLICATE")
    BY <1>1, <1>2, <1>7, <2>2 DEF DeservesIn
  <2> QED
    BY <1>4, <1>5, <2>1, <2>3 DEF t
<1>8. CASE e.t = "sos" /\ ~s.c.saw_SOF
  <2>1. Fails("SOS_NO_SOF")
    BY <1>1, <1>3, <1>5, <1>8, MarkerRead
  <2>2. ~Has(file, b, s.pos, "sof")
    BY <1>8 DEF Parsed
  <2>3. DeservesIn(file, b, s.pos, "SOS_NO_SOF")
    BY <1>1, <1>2, <1>8, <2>2 DEF DeservesIn
  <2> QED
    BY <1>4, <1>5, <2>1, <2>3 DEF t
<1> QED
  BY <1>6, <1>7, <1>8

\* The fields of the output side, the target scan apart, and of the input side.
SameOutput(c, d) ==
  /\ d.global_state = c.global_state /\ d.output_iMCU_row = c.output_iMCU_row
  /\ d.output_scanline = c.output_scanline /\ d.is_dummy_pass = c.is_dummy_pass
  /\ d.crank = c.crank /\ d.buffered_image = c.buffered_image
  /\ d.decompress = c.decompress
SameInput(c, d) ==
  /\ d.consume_input = c.consume_input /\ d.input_iMCU_row = c.input_iMCU_row
  /\ d.MCU_ctr = c.MCU_ctr /\ d.Ss = c.Ss
SameImage(c, d) ==
  /\ d.has_multiple_scans = c.has_multiple_scans /\ d.inheaders = c.inheaders
  /\ d.eoi_reached = c.eoi_reached /\ d.input_scan_number = c.input_scan_number

\* Markers that only leave something to remember, and stray bytes.
LEMMA ReaderPasses ==
  ASSUME Context, NEW s \in Sessions(file, avail), s.err = "none", ~Dry(s),
         NEW b, Parsed(file, s.c, s.pos, s.tables, b), ~s.c.eoi_reached,
         Coming(s).t \in {"tables", "mcu"} \/ (Coming(s).t = "sof" /\ ~s.c.saw_SOF)
  PROVE  LET t == ConsumeMarkers(s)
         IN  /\ t \in Sessions(file, avail) /\ t.coefs = s.coefs /\ t.ret = "more" /\ t.err = "none"
             /\ Parsed(file, t.c, t.pos, t.tables, b)
             /\ SameOutput(s.c, t.c) /\ SameInput(s.c, t.c) /\ SameImage(s.c, t.c)
             /\ t.c.output_scan_number = s.c.output_scan_number
<1> DEFINE e == Coming(s)
           t == ConsumeMarkers(s)
           Same == /\ SameOutput(s.c, t.c) /\ SameInput(s.c, t.c) /\ SameImage(s.c, t.c)
                   /\ t.c.output_scan_number = s.c.output_scan_number
           Typed == t \in Sessions(file, avail) /\ t.coefs = s.coefs /\ t.ret = "more" /\ t.err = "none"
<1>0. s.c \in Objects /\ s.c.saw_SOI
  BY DEF Parsed, Sessions
<1>1. /\ s.pos \in Nat /\ s.pos + 1 \in 0..avail /\ s.pos < Len(file.els)
      /\ Len(file.els) \in Nat /\ e = file.els[s.pos + 1]
      /\ e.t = "sof" => e.n \in Nat /\ e.prog \in BOOLEAN
  BY NextElement
<1>2. CASE e.t = "tables"
  <2>1. ReadMarker(s) = [s EXCEPT !.pos = s.pos + 1, !.ret = "more", !.tables = TRUE]
    BY <1>0, <1>2, MarkerRead
  <2>2. t = [s EXCEPT !.pos = s.pos + 1, !.ret = "more", !.tables = TRUE]
    BY <2>1 DEF ConsumeMarkers, Sessions
  <2>3. Typed /\ t.c = s.c /\ t.pos = s.pos + 1 /\ t.tables
    BY <1>1, <2>2 DEF Sessions, Returns
  <2>4. Takes(file, s.c, t.c, s.pos, s.tables, t.tables)
    BY <1>0, <1>1, <1>2, <2>3 DEF Takes, Real
  <2>5. Parsed(file, t.c, s.pos + 1, t.tables, b)
    BY <1>1, <2>4, ParsedNext
  <2>6. Same
    BY <2>3 DEF SameOutput, SameInput, SameImage
  <2> QED
    BY <2>3, <2>5, <2>6
<1>3. CASE e.t = "mcu"
  <2>1. ReadMarker(s) = [s EXCEPT !.pos = s.pos + 1, !.ret = "more"]
    BY <1>0, <1>3, MarkerRead
  <2>2. t = [s EXCEPT !.pos = s.pos + 1, !.ret = "more"]
    BY <2>1 DEF ConsumeMarkers, Sessions
  <2>3. Typed /\ t.c = s.c /\ t.pos = s.pos + 1 /\ t.tables = s.tables
    BY <1>1, <2>2 DEF Sessions, Returns
  <2>4. Takes(file, s.c, t.c, s.pos, s.tables, t.tables)
    BY <1>0, <1>1, <1>3, <2>3 DEF Takes, Real
  <2>5. Parsed(file, t.c, s.pos + 1, t.tables, b)
    BY <1>1, <2>4, ParsedNext
  <2>6. Same
    BY <2>3 DEF SameOutput, SameInput, SameImage
  <2> QED
    BY <2>3, <2>5, <2>6
<1>4. CASE e.t = "sof" /\ ~s.c.saw_SOF
  <2> DEFINE d == GetSOF(s.c, e)
  <2>1. ReadMarker(s) = [s EXCEPT !.pos = s.pos + 1, !.ret = "more", !.c = d]
    BY <1>0, <1>4, MarkerRead
  <2>3. t = [s EXCEPT !.pos = s.pos + 1, !.ret = "more", !.c = d]
    BY <2>1 DEF ConsumeMarkers, Sessions
  <2>4. d \in Objects
    BY <1>0, <1>1, <1>4 DEF Objects, GetSOF
  <2>5. /\ d.saw_SOI /\ d.saw_SOF /\ d.num_components = e.n /\ d.progressive_mode = e.prog
        /\ SameOutput(s.c, d) /\ SameInput(s.c, d) /\ SameImage(s.c, d)
        /\ d.output_scan_number = s.c.output_scan_number
    BY <1>0 DEF Objects, GetSOF, SameOutput, SameInput, SameImage
  <2> HIDE DEF d
  <2>6. Typed /\ t.c = d /\ t.pos = s.pos + 1 /\ t.tables = s.tables
    BY <1>1, <2>3, <2>4 DEF Sessions, Returns
  <2>7. Takes(file, s.c, t.c, s.pos, s.tables, t.tables)
    BY <1>0, <1>1, <1>4, <2>5, <2>6 DEF Takes, Real, SameImage
  <2>8. Parsed(file, t.c, s.pos + 1, t.tables, b)
    BY <1>1, <2>7, ParsedNext
  <2> QED
    BY <2>5, <2>6, <2>8
<1> QED
  BY <1>2, <1>3, <1>4

\* What a step of input leaves of the header.
HeaderStep(f, av, s, t) ==
  /\ t \in Sessions(f, av) /\ t.c.global_state = s.c.global_state
  /\ t.err # "none" => t.ret = "error" /\ DeservesAt(f, t.pos, t.err)
  /\ t.err = "none" =>
       IF t.ret = "SOS" THEN \E b \in 1..t.pos : Ready(f, t.c, t.pos, t.tables, b)
       ELSE Heading(f, t.c, t.pos, t.tables)
  /\ t.err = "none" /\ t.ret = "EOI" => BetweenImages(f, t.pos)

LEMMA HeaderBegins ==
  ASSUME Context, NEW s \in Sessions(file, avail), s.err = "none", ~Dry(s),
         Fresh(s.c), s.c.consume_input = "markers", BetweenImages(file, s.pos)
  PROVE  HeaderStep(file, avail, s, ConsumeMarkers(s))
<1> DEFINE t == ConsumeMarkers(s)
<1>0. s.c \in Objects /\ ~s.c.saw_SOI /\ ~s.c.eoi_reached
  BY DEF Fresh, Sessions
<1>1. /\ s.pos \in Nat /\ s.pos + 1 \in 0..avail /\ s.pos < Len(file.els)
      /\ Len(file.els) \in Nat /\ Coming(s) = file.els[s.pos + 1]
  BY NextElement
<1>2. CASE Coming(s).t = "soi"
  <2> DEFINE d == [s.c EXCEPT !.saw_SOI = TRUE]
  <2>1. ReadMarker(s) = [s EXCEPT !.pos = s.pos + 1, !.ret = "more", !.c.saw_SOI = TRUE]
    BY <1>0, <1>2 DEF ReadMarker
  <2>2. t = [s EXCEPT !.pos = s.pos + 1, !.ret = "more", !.c = d]
    BY <1>0, <2>1 DEF ConsumeMarkers, Sessions
  <2>3. d \in Objects /\ d.global_state = s.c.global_state /\ d.consume_input = "markers"
        /\ d.inheaders = 1
    BY <1>0, ZenonT(40) DEF Objects, Fresh
  <2>4. SameHeader([s.c EXCEPT !.saw_SOI = TRUE], d)
    BY DEF SameHeader
  <2> HIDE DEF d
  <2>5. /\ t \in Sessions(file, avail) /\ t.ret = "more" /\ t.err = "none"
        /\ t.c = d /\ t.pos = s.pos + 1
    BY <1>1, <2>2, <2>3 DEF Sessions, Returns
  <2>6. Parsed(file, d, s.pos + 1, t.tables, s.pos + 1)
    BY <1>0, <1>1, <1>2, <2>3, <2>4, ParsedFirst
  <2>7. s.pos + 1 \in 1..(s.pos + 1)
    BY <1>1
  <2>8. Heading(file, t.c, t.pos, t.tables)
    BY <2>3, <2>5, <2>6, <2>7 DEF Heading
  <2> QED
    BY <2>3, <2>5, <2>8 DEF HeaderStep
<1>3. CASE Coming(s).t # "soi"
  <2>1. ReadMarker(s) = Failing(s, "NO_SOI")
    BY <1>0, <1>3 DEF ReadMarker
  <2>2. t = [s EXCEPT !.ret = "error", !.err = "NO_SOI"]
    BY <1>0, <2>1 DEF ConsumeMarkers, Failing, Sessions
  <2>3. t \in Sessions(file, avail) /\ t.c = s.c /\ t.pos = s.pos /\ t.ret = "error" /\ t.err = "NO_SOI"
    BY <2>2 DEF Sessions, Returns, Errors
  <2>4. DeservesAt(file, s.pos, "NO_SOI")
    BY <1>1, <1>3 DEF DeservesAt, BetweenImages
  <2> QED
    BY <2>3, <2>4 DEF HeaderStep
<1> QED
  BY <1>2, <1>3

\* get_sos changes three fields.
SOSLeaves(c, e, d) ==
  /\ d \in Objects /\ d.comps_in_scan = e.n /\ d.Ss = e.Ss
  /\ d.input_scan_number = IF e.n > 0 THEN c.input_scan_number + 1 ELSE c.input_scan_number
  /\ SameOutput(c, d) /\ d.output_scan_number = c.output_scan_number
  /\ d.saw_SOI = c.saw_SOI /\ d.saw_SOF = c.saw_SOF
  /\ d.num_components = c.num_components /\ d.progressive_mode = c.progressive_mode
  /\ d.has_multiple_scans = c.has_multiple_scans /\ d.inheaders = c.inheaders
  /\ d.eoi_reached = c.eoi_reached /\ d.consume_input = c.consume_input
  /\ d.input_iMCU_row = c.input_iMCU_row /\ d.MCU_ctr = c.MCU_ctr

LEMMA SOSRead ==
  ASSUME NEW c \in Objects, NEW e, e.n \in Nat, e.Ss \in Nat
  PROVE  SOSLeaves(c, e, GetSOS(c, e))
<1> DEFINE nr == IF e.n > 0 THEN c.input_scan_number + 1 ELSE c.input_scan_number
           d == GetSOS(c, e)
<1>1. nr \in Nat
  BY DEF Objects
<1>2. d = [c EXCEPT !.comps_in_scan = e.n, !.Ss = e.Ss, !.input_scan_number = nr]
  BY DEF GetSOS
<1> HIDE DEF nr, d
<1>3. d \in Objects
  BY <1>1, <1>2 DEF Objects
<1>4. d.comps_in_scan = e.n /\ d.Ss = e.Ss /\ d.input_scan_number = nr
  BY <1>2 DEF Objects
<1>5. SameOutput(c, d) /\ d.output_scan_number = c.output_scan_number
  BY <1>2 DEF Objects, SameOutput
<1>6. /\ d.saw_SOI = c.saw_SOI /\ d.saw_SOF = c.saw_SOF
      /\ d.num_components = c.num_components /\ d.progressive_mode = c.progressive_mode
      /\ d.has_multiple_scans = c.has_multiple_scans /\ d.inheaders = c.inheaders
      /\ d.eoi_reached = c.eoi_reached /\ d.consume_input = c.consume_input
      /\ d.input_iMCU_row = c.input_iMCU_row /\ d.MCU_ctr = c.MCU_ctr
  BY <1>2 DEF Objects
<1> QED
  BY <1>3, <1>4, <1>5, <1>6 DEF nr, d, SOSLeaves

\* What the marker reader makes of a SOS.
LEMMA ScanRead ==
  ASSUME Context, NEW s \in Sessions(file, avail), ~Dry(s), s.c.saw_SOI, s.c.saw_SOF,
         Coming(s).t = "sos"
  PROVE  LET e == Coming(s)
             m == ReadMarker(s)
         IN  /\ m \in Sessions(file, avail) /\ m.pos = s.pos + 1 /\ m.ret = "SOS"
             /\ m.err = s.err /\ m.tables = s.tables /\ m.coefs = s.coefs
             /\ m.c = GetSOS(s.c, e)
<1> DEFINE e == Coming(s)
           c1 == GetSOS(s.c, e)
           m == ReadMarker(s)
<1>0. s.c \in Objects
  BY DEF Sessions
<1>1. s.pos + 1 \in 0..avail /\ e.n \in Nat /\ e.Ss \in Nat
  BY NextElement
<1>3. m = [s EXCEPT !.pos = s.pos + 1, !.ret = "SOS", !.c = c1]
  <2>1. m = [[s EXCEPT !.pos = s.pos + 1, !.ret = "more"] EXCEPT !.c = c1, !.ret = "SOS"]
    BY MarkerRead
  <2> HIDE DEF c1, m
  <2> QED
    BY <2>1 DEF Sessions
<1>4. c1 \in Objects
  BY <1>0, <1>1, SOSRead DEF SOSLeaves
<1>5. /\ m \in Sessions(file, avail) /\ m.pos = s.pos + 1 /\ m.ret = "SOS"
      /\ m.err = s.err /\ m.tables = s.tables /\ m.coefs = s.coefs /\ m.c = c1
  <2> HIDE DEF c1
  <2> QED
    BY <1>1, <1>3, <1>4 DEF Sessions, Returns
<1> QED
  BY <1>5

\* The first SOS of an image.
LEMMA FirstScan ==
  ASSUME NEW m \in Sessions(file, avail), m.ret = "SOS", m.c.inheaders > 0
  PROVE  LET r == FirstSOS(m)
         IN  /\ r \in Sessions(file, avail) /\ r.pos = m.pos /\ r.err = m.err
             /\ r.tables = m.tables /\ r.coefs = m.coefs
             /\ r.ret = IF m.c.comps_in_scan = 0 THEN "more" ELSE "SOS"
             /\ \E multi \in BOOLEAN :
                  /\ multi <=> IF m.c.inheaders = 1
                               THEN \/ m.c.comps_in_scan < m.c.num_components
                                    \/ m.c.progressive_mode
                               ELSE m.c.has_multiple_scans
                  /\ r.c = [m.c EXCEPT !.has_multiple_scans = multi,
                              !.inheaders = IF m.c.comps_in_scan = 0 THEN 2 ELSE 0]
<1> DEFINE multi == IF m.c.inheaders = 1
                    THEN m.c.comps_in_scan < m.c.num_components \/ m.c.progressive_mode
                    ELSE m.c.has_multiple_scans
           c0 == [m.c EXCEPT !.has_multiple_scans = multi]
           h == IF m.c.comps_in_scan = 0 THEN 2 ELSE 0
           c2 == [m.c EXCEPT !.has_multiple_scans = multi, !.inheaders = h]
           r == FirstSOS(m)
<1>0. m.c \in Objects
  BY DEF Sessions
<1>1. multi \in BOOLEAN
  BY <1>0 DEF Objects
<1>2. h \in {0, 2} /\ h \in 0..2
  OBVIOUS
<1>3. (IF m.c.inheaders = 1 THEN [m EXCEPT !.c.has_multiple_scans =
                   m.c.comps_in_scan < m.c.num_components \/ m.c.progressive_mode]
           ELSE m) = [m EXCEPT !.c = c0]
  <2>1. CASE m.c.inheaders = 1
    BY <2>1
  <2>2. CASE m.c.inheaders # 1
    <3>1. c0 = m.c
      BY <1>0, <2>2 DEF Objects
    <3> QED
      BY <2>2, <3>1 DEF Sessions
  <2> QED
    BY <2>1, <2>2
<1>4. c0 \in Objects /\ c0.comps_in_scan = m.c.comps_in_scan /\ [c0 EXCEPT !.inheaders = h] = c2
  <2> HIDE DEF multi, h
  <2> QED
    BY <1>0, <1>1 DEF Objects
<1>5. r = IF m.c.comps_in_scan = 0
          THEN [m EXCEPT !.c = [c0 EXCEPT !.inheaders = 2], !.ret = "more"]
          ELSE [m EXCEPT !.c = [c0 EXCEPT !.inheaders = 0]]
  <2> HIDE DEF c0
  <2>1. LET t == [m EXCEPT !.c = c0]
        IN  r = IF m.c.comps_in_scan = 0 THEN [t EXCEPT !.c.inheaders = 2, !.ret = "more"]
                ELSE [t EXCEPT !.c.inheaders = 0]
    <3> DEFINE t == IF m.c.inheaders = 1 THEN [m EXCEPT !.c.has_multiple_scans =
                         m.c.comps_in_scan < m.c.num_components \/ m.c.progressive_mode]
                    ELSE m
    <3>1. t = [m EXCEPT !.c = c0]
      BY <1>3
    <3>2. r = IF m.c.comps_in_scan = 0 THEN [t EXCEPT !.c.inheaders = 2, !.ret = "more"]
              ELSE [t EXCEPT !.c.inheaders = 0]
      BY DEF FirstSOS
    <3> HIDE DEF t, r
    <3> QED
      BY <3>1, <3>2
  <2> QED
    BY <2>1 DEF Sessions
<1>6. c2 \in Objects
  <2> HIDE DEF multi, h
  <2> QED
    BY <1>0, <1>1, <1>2 DEF Objects
<1>7. r = IF m.c.comps_in_scan = 0 THEN [m EXCEPT !.c = c2, !.ret = "more"]
          ELSE [m EXCEPT !.c = c2]
  <2> HIDE DEF c0, c2
  <2> QED
    BY <1>4, <1>5
<1> HIDE DEF c2
<1>8. /\ r \in Sessions(file, avail) /\ r.pos = m.pos /\ r.err = m.err
      /\ r.tables = m.tables /\ r.coefs = m.coefs /\ r.c = c2
      /\ r.ret = IF m.c.comps_in_scan = 0 THEN "more" ELSE "SOS"
  BY <1>6, <1>7 DEF Sessions, Returns
<1> QED
  BY <1>1, <1>8 DEF c2

\* SOS: the first real one ends the header.
LEMMA HeaderScan ==
  ASSUME Context, NEW s \in Sessions(file, avail), s.err = "none", ~Dry(s),
         s.c.consume_input = "markers", s.c.inheaders > 0,
         NEW b, Parsed(file, s.c, s.pos, s.tables, b), ~s.c.eoi_reached,
         Coming(s).t = "sos", s.c.saw_SOF
  PROVE  HeaderStep(file, avail, s, ConsumeMarkers(s))
<1> DEFINE e == Coming(s)
           t == ConsumeMarkers(s)
           m == ReadMarker(s)
<1>0. s.c \in Objects /\ s.c.saw_SOI
  BY DEF Parsed, Sessions
<1>1. /\ s.pos \in Nat /\ s.pos < Len(file.els) /\ s.pos + 1 \in 1..(s.pos + 1)
      /\ Len(file.els) \in Nat /\ e = file.els[s.pos + 1] /\ e.n \in Nat /\ e.Ss \in Nat
  BY NextElement
<1>2. /\ m \in Sessions(file, avail) /\ m.pos = s.pos + 1 /\ m.ret = "SOS"
      /\ m.err = "none" /\ m.tables = s.tables /\ m.c = GetSOS(s.c, e)
  BY <1>0, ScanRead
<1>3. /\ m.c.comps_in_scan = e.n /\ m.c.Ss = e.Ss
      /\ m.c.input_scan_number =
           IF e.n > 0 THEN s.c.input_scan_number + 1 ELSE s.c.input_scan_number
      /\ m.c.global_state = s.c.global_state
      /\ m.c.saw_SOI = s.c.saw_SOI /\ m.c.saw_SOF = s.c.saw_SOF
      /\ m.c.num_components = s.c.num_components /\ m.c.progressive_mode = s.c.progressive_mode
      /\ m.c.has_multiple_scans = s.c.has_multiple_scans /\ m.c.inheaders = s.c.inheaders
      /\ m.c.eoi_reached = s.c.eoi_reached /\ m.c.consume_input = s.c.consume_input
  <2>1. SOSLeaves(s.c, e, m.c)
    BY <1>0, <1>1, <1>2, SOSRead
  <2> HIDE DEF e, m
  <2> QED
    BY <2>1 DEF SOSLeaves, SameOutput
<1>4. t = FirstSOS(m)
  BY <1>2, <1>3 DEF ConsumeMarkers
<1>5. /\ t \in Sessions(file, avail) /\ t.pos = m.pos /\ t.err = m.err
      /\ t.tables = m.tables /\ t.ret = IF m.c.comps_in_scan = 0 THEN "more" ELSE "SOS"
      /\ \E multi \in BOOLEAN :
           /\ multi <=> IF m.c.inheaders = 1
                        THEN \/ m.c.comps_in_scan < m.c.num_components
                             \/ m.c.progressive_mode
                        ELSE m.c.has_multiple_scans
           /\ t.c = [m.c EXCEPT !.has_multiple_scans = multi,
                       !.inheaders = IF m.c.comps_in_scan = 0 THEN 2 ELSE 0]
  <2> HIDE DEF m, t
  <2> QED
    BY <1>2, <1>3, <1>4, FirstScan, Zenon
<1> HIDE DEF t, m
<1>6. PICK multi \in BOOLEAN :
           /\ multi <=> IF m.c.inheaders = 1
                        THEN \/ m.c.comps_in_scan < m.c.num_components
                             \/ m.c.progressive_mode
                        ELSE m.c.has_multiple_scans
           /\ t.c = [m.c EXCEPT !.has_multiple_scans = multi,
                       !.inheaders = IF m.c.comps_in_scan = 0 THEN 2 ELSE 0]
  BY <1>5
<1> DEFINE d == t.c
<1>7. m.c \in Objects
  BY <1>2 DEF Sessions
<1>8. /\ d.saw_SOI = m.c.saw_SOI /\ d.saw_SOF = m.c.saw_SOF
      /\ d.num_components = m.c.num_components /\ d.progressive_mode = m.c.progressive_mode
      /\ d.eoi_reached = m.c.eoi_reached /\ d.input_scan_number = m.c.input_scan_number
      /\ d.consume_input = m.c.consume_input /\ d.global_state = m.c.global_state
      /\ d.Ss = m.c.Ss
  BY <1>6, <1>7 DEF Objects
<1>9. d.has_multiple_scans = multi /\ d.inheaders = IF m.c.comps_in_scan = 0 THEN 2 ELSE 0
  BY <1>6, <1>7 DEF Objects
<1> HIDE DEF d
<1>10. Takes(file, s.c, d, s.pos, s.tables, t.tables)
  <2>1. Real(file, s.pos + 1) <=> e.n > 0
    BY <1>1 DEF Real
  <2>2. d.inheaders # 1 /\ ~d.has_multiple_scans =>
           \/ s.c.inheaders # 1 /\ ~s.c.has_multiple_scans
           \/ e.t = "sos" /\ s.c.saw_SOF /\ ~s.c.progressive_mode /\ e.n >= s.c.num_components
    <3>1. s.c.num_components \in Nat
      BY <1>0 DEF Objects
    <3> HIDE DEF e
    <3> QED
      BY <1>1, <1>3, <1>6, <1>9, <3>1 DEF e
  <2>3. d.inheaders = 0 <=> e.n > 0
    BY <1>1, <1>3, <1>9
  <2>4. d.input_scan_number =
          IF e.n > 0 THEN s.c.input_scan_number + 1 ELSE s.c.input_scan_number
    BY <1>3, <1>8
  <2>5. /\ d.saw_SOI = s.c.saw_SOI /\ d.saw_SOF = s.c.saw_SOF
        /\ d.num_components = s.c.num_components /\ d.progressive_mode = s.c.progressive_mode
        /\ d.eoi_reached = s.c.eoi_reached /\ t.tables = s.tables /\ s.c.inheaders # 0
    BY <1>2, <1>3, <1>5, <1>8
  <2> QED
    BY <1>0, <1>1, <2>1, <2>2, <2>3, <2>4, <2>5 DEF Takes
<1>11. Parsed(file, d, s.pos + 1, t.tables, b)
  BY <1>1, <1>10, ParsedNext
<1>12. b \in 1..(s.pos + 1)
  BY <1>11 DEF Parsed, Begins
<1>13. CASE e.n > 0
  <2>1. s.c.input_scan_number = 0
    <3>1. ScansOf(file, b, s.pos) = {} /\ s.c.input_scan_number = Cardinality(ScansOf(file, b, s.pos))
      BY DEF Parsed
    <3> QED
      BY <3>1, FS_EmptySet
  <2>2. Ready(file, d, s.pos + 1, t.tables, b)
    BY <1>1, <1>3, <1>8, <1>9, <1>11, <1>13, <2>1 DEF Ready, Real
  <2> QED
    BY <1>2, <1>3, <1>5, <1>8, <1>12, <1>13, <2>2 DEF HeaderStep, t, d
<1>14. CASE ~(e.n > 0)
  <2>1. Heading(file, d, s.pos + 1, t.tables)
    BY <1>1, <1>3, <1>8, <1>9, <1>11, <1>12, <1>14 DEF Heading
  <2> QED
    <3>1. /\ t \in Sessions(file, avail) /\ t.c = d /\ t.pos = s.pos + 1 /\ t.err = "none"
          /\ t.ret = "more" /\ d.global_state = s.c.global_state
      <4>1. m.c.comps_in_scan = 0
        BY <1>1, <1>3, <1>14
      <4>2. t.ret = "more" /\ t \in Sessions(file, avail) /\ t.pos = s.pos + 1 /\ t.err = "none"
        BY <1>2, <1>5, <4>1
      <4>3. d.global_state = s.c.global_state /\ t.c = d
        BY <1>3, <1>8 DEF d
      <4> QED
        BY <4>2, <4>3
    <3> HIDE DEF t
    <3>2. HeaderStep(file, avail, s, t)
      BY <2>1, <3>1 DEF HeaderStep
    <3> QED
      BY <3>2 DEF t
<1> QED
  BY <1>13, <1>14

\* EOI as the marker reader leaves it.
LEMMA EndRead ==
  ASSUME Context, NEW s \in Sessions(file, avail), ~Dry(s), s.c.saw_SOI, ~s.c.eoi_reached,
         Coming(s).t = "eoi"
  PROVE  LET m == ReadMarker(s)
         IN  /\ m \in Sessions(file, avail) /\ m.pos = s.pos + 1 /\ m.ret = "EOI"
             /\ m.err = s.err /\ m.tables = s.tables /\ m.coefs = s.coefs /\ m.c = s.c
             /\ ConsumeMarkers(s) = ReachEOI(m)
<1> DEFINE m == ReadMarker(s)
<1>1. s.pos + 1 \in 0..avail
  BY NextElement
<1>2. m = [[s EXCEPT !.pos = s.pos + 1, !.ret = "more"] EXCEPT !.ret = "EOI"]
  BY MarkerRead DEF Returning
<1>3. m = [s EXCEPT !.pos = s.pos + 1, !.ret = "EOI"]
  BY <1>2
<1>4. /\ m \in Sessions(file, avail) /\ m.pos = s.pos + 1 /\ m.ret = "EOI"
      /\ m.err = s.err /\ m.tables = s.tables /\ m.coefs = s.coefs /\ m.c = s.c
  BY <1>1, <1>3 DEF Sessions, Returns
<1>5. ConsumeMarkers(s) = ReachEOI(m)
  BY <1>4 DEF ConsumeMarkers
<1> QED
  BY <1>4, <1>5

\* What consume_markers makes of it: the target scan is one there is.
EndLeaves(c, d) ==
  /\ d \in Objects /\ d.eoi_reached
  /\ d.output_scan_number =
       IF c.inheaders = 0 /\ c.output_scan_number > c.input_scan_number
       THEN c.input_scan_number ELSE c.output_scan_number
  /\ SameOutput(c, d) /\ SameInput(c, d)
  /\ d.saw_SOI = c.saw_SOI /\ d.saw_SOF = c.saw_SOF
  /\ d.num_components = c.num_components /\ d.progressive_mode = c.progressive_mode
  /\ d.has_multiple_scans = c.has_multiple_scans
  /\ d.inheaders = c.inheaders /\ d.input_scan_number = c.input_scan_number

LEMMA EndTaken == ASSUME NEW c \in Objects PROVE EndLeaves(c, EndInput(c))
<1> DEFINE x == IF c.inheaders = 0 /\ c.output_scan_number > c.input_scan_number
                THEN c.input_scan_number ELSE c.output_scan_number
           d == EndInput(c)
<1>1. d = [c EXCEPT !.eoi_reached = TRUE, !.output_scan_number = x]
  BY DEF EndInput, Objects
<1>2. x \in Nat
  BY DEF Objects
<1> HIDE DEF x, d
<1>3. d \in Objects /\ d.eoi_reached /\ d.output_scan_number = x
  BY <1>1, <1>2 DEF Objects
<1>4. SameOutput(c, d) /\ SameInput(c, d)
  BY <1>1 DEF Objects, SameOutput, SameInput
<1>5. /\ d.saw_SOI = c.saw_SOI /\ d.saw_SOF = c.saw_SOF
      /\ d.num_components = c.num_components /\ d.progressive_mode = c.progressive_mode
      /\ d.has_multiple_scans = c.has_multiple_scans
      /\ d.inheaders = c.inheaders /\ d.input_scan_number = c.input_scan_number
  BY <1>1 DEF Objects
<1> QED
  BY <1>3, <1>4, <1>5 DEF x, d, EndLeaves

\* The end of a stream of tables; of an image without scans it is an error.
LEMMA HeaderEnds ==
  ASSUME Context, NEW s \in Sessions(file, avail), s.err = "none", ~Dry(s),
         s.c.consume_input = "markers", s.c.inheaders > 0,
         NEW b, Parsed(file, s.c, s.pos, s.tables, b), ~s.c.eoi_reached,
         Coming(s).t = "eoi"
  PROVE  HeaderStep(file, avail, s, ConsumeMarkers(s))
<1> DEFINE t == ConsumeMarkers(s)
           m == ReadMarker(s)
<1>0. s.c \in Objects /\ s.c.saw_SOI
  BY DEF Parsed, Sessions
<1>1. /\ s.pos \in Nat /\ s.pos < Len(file.els) /\ s.pos + 1 \in 1..Len(file.els)
      /\ Len(file.els) \in Nat /\ file.els[s.pos + 1].t = "eoi"
  BY NextElement
<1>2. /\ m \in Sessions(file, avail) /\ m.pos = s.pos + 1 /\ m.ret = "EOI"
      /\ m.err = "none" /\ m.tables = s.tables /\ m.c = s.c /\ t = ReachEOI(m)
  BY <1>0, EndRead
<1> HIDE DEF m
<1>3. CASE s.c.saw_SOF
  <2>1. t = Failing(m, "SOF_NO_SOS")
    BY <1>2, <1>3 DEF ReachEOI
  <2>2. /\ t \in Sessions(file, avail) /\ t.c = s.c /\ t.pos = s.pos + 1
        /\ t.ret = "error" /\ t.err = "SOF_NO_SOS"
    <3> HIDE DEF t
    <3> QED
      BY <1>2, <2>1 DEF Failing, Sessions, Returns, Errors
  <2>3. b \in Nat /\ b <= s.pos + 1 /\ Begins(file, b, s.pos + 1) /\ b \in 1..(s.pos + 1)
    <3>1. Begins(file, b, s.pos + 1)
      BY <1>1, BeginsNext DEF Parsed
    <3> QED
      BY <3>1 DEF Begins
  <2>4. Has(file, b, s.pos + 1, "sof")
    <3>1. Has(file, b, s.pos, "sof")
      BY <1>3 DEF Parsed
    <3> QED
      BY <1>1, <2>3, <3>1, HasNext, Zenon
  <2>5. ScansOf(file, b, s.pos + 1) = {}
    <3>1. ScansOf(file, b, s.pos) = {}
      BY DEF Parsed
    <3>2. ~Real(file, s.pos + 1)
      BY <1>1 DEF Real
    <3> QED
      BY <1>1, <2>3, <3>1, <3>2, NextScan, Zenon
  <2>6. DeservesIn(file, b, s.pos + 1, "SOF_NO_SOS")
    BY <1>1, <2>3, <2>4, <2>5 DEF DeservesIn
  <2>7. DeservesAt(file, s.pos + 1, "SOF_NO_SOS")
    BY <2>3, <2>6 DEF DeservesAt
  <2> QED
    BY <2>2, <2>7 DEF HeaderStep
<1>4. CASE ~s.c.saw_SOF
  <2> DEFINE d == t.c
  <2>1. /\ t \in Sessions(file, avail) /\ t.pos = m.pos /\ t.ret = m.ret
        /\ t.err = m.err /\ t.tables = m.tables /\ EndLeaves(m.c, d)
    <3> DEFINE x == EndInput(m.c)
    <3>1. t = [m EXCEPT !.c = x]
      BY <1>2, <1>4 DEF ReachEOI
    <3>2. EndLeaves(m.c, x) /\ x \in Objects
      BY <1>2, EndTaken DEF Sessions, EndLeaves
    <3> HIDE DEF x, t
    <3> QED
      BY <1>2, <3>1, <3>2 DEF Sessions
  <2> HIDE DEF t
  <2>2. /\ d.eoi_reached /\ d.global_state = s.c.global_state
        /\ d.consume_input = "markers" /\ d.inheaders = s.c.inheaders
        /\ d.saw_SOI = s.c.saw_SOI /\ d.saw_SOF = s.c.saw_SOF
        /\ d.num_components = s.c.num_components /\ d.progressive_mode = s.c.progressive_mode
        /\ d.has_multiple_scans = s.c.has_multiple_scans
        /\ d.input_scan_number = s.c.input_scan_number
    BY <1>2, <2>1 DEF SameOutput, SameInput, EndLeaves
  <2>3. /\ t \in Sessions(file, avail) /\ t.c = d /\ t.pos = s.pos + 1 /\ t.ret = "EOI"
        /\ t.err = "none" /\ t.tables = s.tables
    BY <1>2, <2>1
  <2> HIDE DEF d
  <2>4. Takes(file, s.c, d, s.pos, s.tables, t.tables)
    BY <1>0, <1>1, <2>2, <2>3 DEF Takes, Real
  <2>5. Parsed(file, d, s.pos + 1, t.tables, b)
    BY <1>1, <2>4, ParsedNext
  <2>6. b \in 1..(s.pos + 1)
    BY <2>5 DEF Parsed, Begins
  <2>7. Heading(file, d, s.pos + 1, t.tables)
    BY <2>2, <2>5, <2>6 DEF Heading
  <2>8. BetweenImages(file, s.pos + 1)
    BY <1>1 DEF BetweenImages
  <2> QED
    BY <2>2, <2>3, <2>7, <2>8 DEF HeaderStep, t
<1> QED
  BY <1>3, <1>4

\* Every step of input in the header.
LEMMA HeaderMarkers ==
  ASSUME Context, NEW s \in Sessions(file, avail), s.err = "none",
         Heading(file, s.c, s.pos, s.tables)
  PROVE  HeaderStep(file, avail, s, ConsumeMarkers(s))
<1> DEFINE t == ConsumeMarkers(s)
<1>0. s.c \in Objects /\ s.c.consume_input = "markers" /\ s.pos \in Nat
  BY DEF Heading, Sessions
<1>1. CASE s.c.eoi_reached
  <2>1. PICK b \in 1..s.pos : Parsed(file, s.c, s.pos, s.tables, b)
    BY <1>1 DEF Heading, Fresh
  <2>2. t = [s EXCEPT !.ret = "EOI"]
    BY <1>1 DEF ConsumeMarkers, Returning
  <2>3. t \in Sessions(file, avail) /\ t.c = s.c /\ t.pos = s.pos /\ t.err = "none" /\ t.ret = "EOI"
        /\ t.tables = s.tables
    BY <2>2 DEF Sessions, Returns
  <2>4. BetweenImages(file, s.pos)
    BY <1>1, <2>1 DEF Parsed, Begins, BetweenImages
  <2> QED
    BY <2>3, <2>4 DEF HeaderStep
<1>2. CASE ~s.c.eoi_reached /\ Dry(s)
  <2>1. ReadMarker(s) = [s EXCEPT !.ret = "suspended"]
    BY <1>2 DEF ReadMarker, Returning
  <2>2. t = [s EXCEPT !.ret = "suspended"]
    BY <1>2, <2>1 DEF ConsumeMarkers, Sessions
  <2>3. t \in Sessions(file, avail) /\ t.c = s.c /\ t.pos = s.pos /\ t.err = "none" /\ t.ret = "suspended"
        /\ t.tables = s.tables
    BY <2>2 DEF Sessions, Returns
  <2> QED
    BY <2>3 DEF HeaderStep
<1>3. CASE ~s.c.eoi_reached /\ ~Dry(s) /\ Fresh(s.c) /\ BetweenImages(file, s.pos)
  BY <1>0, <1>3, HeaderBegins
<1>4. ASSUME ~s.c.eoi_reached, ~Dry(s), s.c.inheaders > 0,
             NEW b \in 1..s.pos, Parsed(file, s.c, s.pos, s.tables, b)
      PROVE  HeaderStep(file, avail, s, t)
  <2>1. CASE Coming(s).t = "sos" /\ s.c.saw_SOF
    BY <1>0, <1>4, <2>1, HeaderScan
  <2>2. CASE Coming(s).t = "eoi"
    BY <1>0, <1>4, <2>2, HeaderEnds
  <2>3. CASE \/ Coming(s).t = "soi" \/ (Coming(s).t = "sof" /\ s.c.saw_SOF)
             \/ (Coming(s).t = "sos" /\ ~s.c.saw_SOF)
    <3>1. /\ t \in Sessions(file, avail) /\ t.c = s.c /\ t.pos = s.pos /\ t.coefs = s.coefs
          /\ t.ret = "error" /\ DeservesIn(file, b, t.pos, t.err)
      BY <1>0, <1>4, <2>3, ReaderFails
    <3>2. t.err \notin {"none", "NO_SOI"}
      BY <3>1 DEF DeservesIn
    <3> QED
      BY <1>4, <3>1, <3>2 DEF HeaderStep, DeservesAt
  <2>4. CASE Coming(s).t = "tables" \/ Coming(s).t = "mcu" \/ (Coming(s).t = "sof" /\ ~s.c.saw_SOF)
    <3>1. /\ t \in Sessions(file, avail) /\ t.ret = "more" /\ t.err = "none"
          /\ Parsed(file, t.c, t.pos, t.tables, b)
          /\ SameOutput(s.c, t.c) /\ SameInput(s.c, t.c) /\ SameImage(s.c, t.c)
      BY <1>0, <1>4, <2>4, ReaderPasses
    <3>2. b \in 1..t.pos
      BY <3>1 DEF Parsed, Begins
    <3>3. t.c.inheaders > 0 /\ t.c.consume_input = "markers" /\ t.c.global_state = s.c.global_state
      BY <1>0, <1>4, <3>1 DEF SameOutput, SameInput, SameImage
    <3> QED
      BY <3>1, <3>2, <3>3 DEF HeaderStep, Heading
  <2> QED
    <3>1. Coming(s).t \in {"soi", "eoi", "tables", "mcu", "sof", "sos"}
      BY <1>4, NextElement
    <3> DEFINE k == Coming(s).t
    <3>2. k = "soi" \/ k = "eoi" \/ k = "tables" \/ k = "mcu" \/ k = "sof" \/ k = "sos"
      BY <3>1
    <3> HIDE DEF t
    <3> QED
      BY <2>1, <2>2, <2>3, <2>4, <3>2, Zenon
<1> QED
  BY <1>1, <1>2, <1>3, <1>4 DEF Heading

-----------------------------------------------------------------------------
(* A step of input behind the first scan.                                     *)

\* What it leaves.
ImageStep(f, av, s, t, b) ==
  /\ t \in Sessions(f, av) /\ SameOutput(s.c, t.c)
  /\ t.c.has_multiple_scans = s.c.has_multiple_scans
  /\ t.err # "none" =>
       /\ t.ret = "error" /\ DeservesIn(f, b, t.pos, t.err)
       /\ t.c.input_scan_number = Cardinality(ScansOf(f, b, t.pos))
  /\ t.err = "none" =>
       /\ t.ret \notin {"error", "emitted"} /\ Decoding(f, t.c, t.pos, t.tables, t.coefs, b)
       /\ t.ret = "EOI" => t.c.eoi_reached
       /\ \/ t.c.output_scan_number = s.c.output_scan_number
          \/ t.c.eoi_reached /\ t.c.output_scan_number = t.c.input_scan_number
       /\ s.c.decompress = "onepass" /\ ~s.c.has_multiple_scans =>
            /\ t.c.consume_input = s.c.consume_input
            /\ t.c.input_iMCU_row = s.c.input_iMCU_row

LEMMA SameItself == ASSUME NEW c PROVE SameOutput(c, c) /\ SameInput(c, c) /\ SameImage(c, c)
  BY DEF SameOutput, SameInput, SameImage

\* Nothing is read.
LEMMA StepStays ==
  ASSUME NEW s \in Sessions(file, avail), s.err = "none",
         NEW b, Decoding(file, s.c, s.pos, s.tables, s.coefs, b),
         NEW r \in {"suspended", "more", "EOI"}, r = "EOI" => s.c.eoi_reached
  PROVE  ImageStep(file, avail, s, Returning(s, r), b)
<1> DEFINE t == Returning(s, r)
<1>1. /\ t \in Sessions(file, avail) /\ t.c = s.c /\ t.pos = s.pos /\ t.tables = s.tables
      /\ t.coefs = s.coefs /\ t.err = "none" /\ t.ret = r
  BY DEF Returning, Sessions, Returns
<1> HIDE DEF t
<1>2. SameOutput(s.c, t.c) /\ SameInput(s.c, t.c)
  BY <1>1, SameItself
<1>3. ImageStep(file, avail, s, t, b)
  BY <1>1, <1>2 DEF ImageStep, SameInput
<1> QED
  BY <1>3 DEF t

\* Between two scans only the markers matter.
LEMMA BetweenScans ==
  ASSUME NEW f, NEW c, NEW d, NEW p, NEW q, NEW tb, NEW ub, NEW cs, NEW b,
         Decoding(f, c, p, tb, cs, b), c.consume_input = "markers",
         Parsed(f, d, q, ub, b), d.inheaders = 0, d.consume_input = "markers",
         d.input_scan_number = c.input_scan_number
  PROVE  Decoding(f, d, q, ub, cs, b)
  BY DEF Decoding, Filled, InScan

\* EOI: the target scan is one there is.
LEMMA ImageEnds ==
  ASSUME Context, NEW s \in Sessions(file, avail), s.err = "none", ~Dry(s),
         NEW b, Decoding(file, s.c, s.pos, s.tables, s.coefs, b),
         s.c.consume_input = "markers", ~s.c.eoi_reached, Coming(s).t = "eoi"
  PROVE  ImageStep(file, avail, s, ConsumeMarkers(s), b)
<1> DEFINE t == ConsumeMarkers(s)
           m == ReadMarker(s)
           d == EndInput(m.c)
<1>0. /\ s.c \in Objects /\ s.c.saw_SOI /\ s.c.inheaders = 0
      /\ Parsed(file, s.c, s.pos, s.tables, b)
  BY DEF Decoding, Parsed, Sessions
<1>1. /\ s.pos \in Nat /\ s.pos < Len(file.els) /\ Len(file.els) \in Nat
      /\ file.els[s.pos + 1].t = "eoi"
  BY NextElement
<1>2. /\ m \in Sessions(file, avail) /\ m.pos = s.pos + 1 /\ m.ret = "EOI"
      /\ m.err = "none" /\ m.tables = s.tables /\ m.coefs = s.coefs /\ m.c = s.c
      /\ t = ReachEOI(m)
  BY <1>0, EndRead
<1> HIDE DEF m
<1>3. t = [m EXCEPT !.c = d]
  BY <1>0, <1>2 DEF ReachEOI
<1>4. EndLeaves(s.c, d) /\ d \in Objects
  BY <1>0, <1>2, EndTaken, ZenonT(40) DEF EndLeaves
<1> HIDE DEF t, d
<1>5. /\ t \in Sessions(file, avail) /\ t.c = d /\ t.pos = s.pos + 1 /\ t.tables = s.tables
      /\ t.coefs = s.coefs /\ t.err = "none" /\ t.ret = "EOI"
  BY <1>2, <1>3, <1>4 DEF Sessions
<1>6. /\ d.eoi_reached /\ SameOutput(s.c, d) /\ SameInput(s.c, d) /\ d.inheaders = 0
      /\ d.saw_SOI = s.c.saw_SOI /\ d.saw_SOF = s.c.saw_SOF
      /\ d.num_components = s.c.num_components /\ d.progressive_mode = s.c.progressive_mode
      /\ d.has_multiple_scans = s.c.has_multiple_scans
      /\ d.input_scan_number = s.c.input_scan_number
      /\ d.consume_input = "markers"
  BY <1>0, <1>4 DEF EndLeaves, SameInput
<1>7. d.output_scan_number = s.c.output_scan_number \/ d.output_scan_number = d.input_scan_number
  BY <1>4 DEF EndLeaves
<1>8. Takes(file, s.c, d, s.pos, s.tables, s.tables)
  BY <1>0, <1>1, <1>6 DEF Takes, Real
<1>9. Parsed(file, d, s.pos + 1, s.tables, b)
  BY <1>0, <1>1, <1>8, ParsedNext
<1>10. Decoding(file, d, s.pos + 1, s.tables, s.coefs, b)
  BY <1>6, <1>9, BetweenScans
<1> QED
  BY <1>5, <1>6, <1>7, <1>10 DEF ImageStep, SameInput, t

\* start_input_pass changes three fields.
ScanStarts(c, d) ==
  /\ d \in Objects /\ SameOutput(c, d) /\ SameHeader(c, d)
  /\ d.output_scan_number = c.output_scan_number /\ d.Ss = c.Ss
  /\ d.consume_input = "data" /\ d.input_iMCU_row = 0 /\ d.MCU_ctr = 0

LEMMA PassBegins ==
  ASSUME NEW s \in Sessions(file, avail), s.tables
  PROVE  /\ StartInputPass(s) \in Sessions(file, avail) /\ StartInputPass(s).pos = s.pos
         /\ StartInputPass(s).tables = s.tables /\ StartInputPass(s).coefs = s.coefs
         /\ StartInputPass(s).err = s.err /\ StartInputPass(s).ret = s.ret
         /\ ScanStarts(s.c, StartInputPass(s).c)
<1> DEFINE d == [s.c EXCEPT !.input_iMCU_row = 0, !.MCU_ctr = 0, !.consume_input = "data"]
           t == StartInputPass(s)
<1>0. s.c \in Objects
  BY DEF Sessions
<1>1. t = [s EXCEPT !.c = d]
  BY DEF StartInputPass
<1>2. d \in Objects /\ d.consume_input = "data" /\ d.input_iMCU_row = 0 /\ d.MCU_ctr = 0
  BY <1>0 DEF Objects
<1>3. SameOutput(s.c, d) /\ d.output_scan_number = s.c.output_scan_number /\ d.Ss = s.c.Ss
  BY <1>0 DEF Objects, SameOutput
<1>4. SameHeader(s.c, d)
  BY <1>0 DEF Objects, SameHeader
<1>5. ScanStarts(s.c, d)
  BY <1>2, <1>3, <1>4 DEF ScanStarts
<1> HIDE DEF d, t
<1>6. /\ t \in Sessions(file, avail) /\ t.pos = s.pos /\ t.tables = s.tables
      /\ t.coefs = s.coefs /\ t.err = s.err /\ t.ret = s.ret /\ t.c = d
  BY <1>1, <1>2 DEF Sessions
<1> QED
  BY <1>5, <1>6 DEF t

\* A scan begins at p.
LEMMA ScanBegins ==
  ASSUME NEW f \in Streams, NEW c \in Objects, NEW d, NEW p, NEW tb, NEW cs \in Arrays(f), NEW b,
         Parsed(f, c, p, tb, b), c.inheaders = 0, ~c.eoi_reached, Real(f, p), c.Ss = f.els[p].Ss,
         \A r \in RowsOf(f), k \in ColsOf(f) : cs[r][k] + 1 >= c.input_scan_number,
         ScanStarts(c, d)
  PROVE  Decoding(f, d, p, tb, cs, b)
<1>1. Parsed(f, d, p, tb, b)
  BY ParsedSame DEF ScanStarts
<1>2. /\ d.inheaders = 0 /\ ~d.eoi_reached /\ d.input_scan_number = c.input_scan_number
      /\ d.Ss = f.els[p].Ss /\ d.consume_input = "data" /\ d.input_iMCU_row = 0 /\ d.MCU_ctr = 0
  BY DEF ScanStarts, SameHeader
<1>3. 0 \in RowsOf(f) /\ 0 \in ColsOf(f)
  BY DEF RowsOf, ColsOf, Streams, Positive
<1>4. p \in ScansOf(f, b, p)
  BY <1>1 DEF Parsed, Begins, ScansOf
<1>5. InScan(f, d, p, b)
  BY <1>2, <1>3, <1>4 DEF InScan
<1>6. Filled(f, d, cs)
  <2>1. ASSUME NEW r \in RowsOf(f), NEW k \in ColsOf(f)
        PROVE ~(d.consume_input = "markers" \/ r < d.input_iMCU_row
                \/ (r = d.input_iMCU_row /\ k < d.MCU_ctr))
    BY <1>2 DEF RowsOf, ColsOf
  <2> QED
    BY <1>2, <2>1 DEF Filled
<1> QED
  BY <1>1, <1>2, <1>5, <1>6 DEF Decoding

\* A SOS behind the first: a pseudo SOS, the next scan, or an error.
LEMMA ImageScan ==
  ASSUME Context, NEW s \in Sessions(file, avail), s.err = "none", ~Dry(s),
         NEW b, Decoding(file, s.c, s.pos, s.tables, s.coefs, b),
         s.c.consume_input = "markers", ~s.c.eoi_reached, Coming(s).t = "sos", s.c.saw_SOF
  PROVE  ImageStep(file, avail, s, ConsumeMarkers(s), b)
<1> DEFINE e == Coming(s)
           t == ConsumeMarkers(s)
           m == ReadMarker(s)
<1>0. /\ s.c \in Objects /\ s.c.saw_SOI /\ s.c.inheaders = 0
      /\ Parsed(file, s.c, s.pos, s.tables, b)
  BY DEF Decoding, Parsed, Sessions
<1>1. /\ s.pos \in Nat /\ s.pos < Len(file.els) /\ s.pos + 1 \in 1..(s.pos + 1)
      /\ Len(file.els) \in Nat /\ e = file.els[s.pos + 1] /\ e.n \in Nat /\ e.Ss \in Nat
  BY NextElement
<1>2. /\ m \in Sessions(file, avail) /\ m.pos = s.pos + 1 /\ m.ret = "SOS"
      /\ m.err = "none" /\ m.tables = s.tables /\ m.coefs = s.coefs /\ m.c = GetSOS(s.c, e)
  BY <1>0, ScanRead
<1>3. SOSLeaves(s.c, e, m.c)
  BY <1>0, <1>1, <1>2, SOSRead
<1>4. t = LaterSOS(m)
  <2>1. ~(m.c.inheaders > 0)
    BY <1>0, <1>3 DEF SOSLeaves
  <2> QED
    BY <1>2, <2>1 DEF ConsumeMarkers
<1> HIDE DEF e, m, t
<1>5. /\ m.c \in Objects /\ m.c.comps_in_scan = e.n /\ m.c.Ss = e.Ss
      /\ m.c.input_scan_number =
           IF e.n > 0 THEN s.c.input_scan_number + 1 ELSE s.c.input_scan_number
      /\ SameOutput(s.c, m.c) /\ m.c.output_scan_number = s.c.output_scan_number
      /\ m.c.saw_SOI = s.c.saw_SOI /\ m.c.saw_SOF = s.c.saw_SOF
      /\ m.c.num_components = s.c.num_components /\ m.c.progressive_mode = s.c.progressive_mode
      /\ m.c.has_multiple_scans = s.c.has_multiple_scans /\ m.c.inheaders = s.c.inheaders
      /\ m.c.eoi_reached = s.c.eoi_reached /\ m.c.consume_input = s.c.consume_input
  BY <1>3 DEF SOSLeaves
<1>6. Real(file, s.pos + 1) <=> e.n > 0
  BY <1>1 DEF Real, e
<1>7. Takes(file, s.c, m.c, s.pos, s.tables, s.tables)
  BY <1>0, <1>1, <1>5, <1>6 DEF Takes, e
<1>8. Parsed(file, m.c, s.pos + 1, s.tables, b)
  BY <1>0, <1>1, <1>7, ParsedNext
<1>9. Begins(file, b, s.pos + 1) /\ (s.pos + 1) - 1 = s.pos /\ s.pos + 1 \in Nat
  BY <1>1, <1>8 DEF Parsed
<1>10. CASE ~s.c.has_multiple_scans
  <2>1. t = Failing(m, "EOI_EXPECTED")
    BY <1>4, <1>5, <1>10 DEF LaterSOS
  <2>2. /\ t \in Sessions(file, avail) /\ t.c = m.c /\ t.pos = s.pos + 1
        /\ t.ret = "error" /\ t.err = "EOI_EXPECTED"
    BY <1>2, <2>1 DEF Failing, Sessions, Returns, Errors
  <2>3. InOneScan(file, b, s.pos)
    BY <1>0, <1>10 DEF Parsed
  <2>4. DeservesIn(file, b, s.pos + 1, "EOI_EXPECTED")
    BY <1>1, <1>9, <2>3 DEF DeservesIn, e
  <2>5. m.c.input_scan_number = Cardinality(ScansOf(file, b, s.pos + 1))
    BY <1>8 DEF Parsed
  <2>6. ImageStep(file, avail, s, t, b)
    BY <1>5, <2>2, <2>4, <2>5 DEF ImageStep
  <2> QED
    BY <2>6 DEF t
<1>11. CASE s.c.has_multiple_scans /\ e.n = 0
  <2>1. t = Returning(m, "more")
    BY <1>4, <1>5, <1>11 DEF LaterSOS
  <2>2. /\ t \in Sessions(file, avail) /\ t.c = m.c /\ t.pos = s.pos + 1 /\ t.tables = s.tables
        /\ t.coefs = s.coefs /\ t.ret = "more" /\ t.err = "none"
    BY <1>2, <2>1 DEF Returning, Sessions, Returns
  <2>3. m.c.input_scan_number = s.c.input_scan_number
    BY <1>1, <1>5, <1>11
  <2>4. Decoding(file, m.c, s.pos + 1, s.tables, s.coefs, b)
    BY <1>0, <1>5, <1>8, <2>3, BetweenScans
  <2>5. ImageStep(file, avail, s, t, b)
    BY <1>5, <1>11, <2>2, <2>4 DEF ImageStep
  <2> QED
    BY <2>5 DEF t
<1>12. CASE s.c.has_multiple_scans /\ e.n > 0 /\ ~s.tables
  <2>1. t = Failing(m, "NO_QUANT_TABLE")
    BY <1>1, <1>2, <1>4, <1>5, <1>12 DEF LaterSOS, StartInputPass
  <2>2. /\ t \in Sessions(file, avail) /\ t.c = m.c /\ t.pos = s.pos + 1
        /\ t.ret = "error" /\ t.err = "NO_QUANT_TABLE"
    BY <1>2, <2>1 DEF Failing, Sessions, Returns, Errors
  <2>3. ScansOf(file, b, s.pos + 1) # {} /\ ~Has(file, b, s.pos + 1, "tables")
    BY <1>0, <1>5, <1>8, <1>12 DEF Parsed
  <2>4. DeservesIn(file, b, s.pos + 1, "NO_QUANT_TABLE")
    BY <1>9, <2>3 DEF DeservesIn
  <2>5. m.c.input_scan_number = Cardinality(ScansOf(file, b, s.pos + 1))
    BY <1>8 DEF Parsed
  <2>6. ImageStep(file, avail, s, t, b)
    BY <1>5, <2>2, <2>4, <2>5 DEF ImageStep
  <2> QED
    BY <2>6 DEF t
<1>13. CASE s.c.has_multiple_scans /\ e.n > 0 /\ s.tables
  <2>1. t = StartInputPass(m)
    BY <1>1, <1>4, <1>5, <1>13 DEF LaterSOS
  <2>2. /\ t \in Sessions(file, avail) /\ t.pos = s.pos + 1 /\ t.tables = s.tables
        /\ t.coefs = s.coefs /\ t.err = "none" /\ t.ret = "SOS" /\ ScanStarts(m.c, t.c)
    BY <1>2, <1>13, <2>1, PassBegins
  <2>3. \A r \in RowsOf(file), k \in ColsOf(file) : s.coefs[r][k] + 1 >= m.c.input_scan_number
    <3>1. s.coefs \in [RowsOf(file) -> [ColsOf(file) -> Nat]]
      BY DEF Sessions, Arrays
    <3>2. \A r \in RowsOf(file), k \in ColsOf(file) : s.coefs[r][k] >= s.c.input_scan_number
      BY DEF Decoding, Filled
    <3>3. s.c.input_scan_number \in Nat /\ m.c.input_scan_number = s.c.input_scan_number + 1
      BY <1>0, <1>5, <1>13 DEF Objects
    <3> QED
      BY <3>1, <3>2, <3>3
  <2>4. Real(file, s.pos + 1) /\ m.c.Ss = file.els[s.pos + 1].Ss
    BY <1>1, <1>5, <1>6, <1>13
  <2>5. file \in Streams /\ s.coefs \in Arrays(file)
    BY DEF Context, Sessions
  <2>6. m.c.inheaders = 0 /\ ~m.c.eoi_reached
    BY <1>0, <1>5
  <2>7. Decoding(file, t.c, s.pos + 1, s.tables, s.coefs, b)
    BY <1>5, <1>8, <2>2, <2>3, <2>4, <2>5, <2>6, ScanBegins
  <2>8. /\ SameOutput(s.c, t.c) /\ t.c.has_multiple_scans = s.c.has_multiple_scans
        /\ t.c.output_scan_number = s.c.output_scan_number
    BY <1>5, <2>2 DEF ScanStarts, SameOutput, SameHeader
  <2>9. ImageStep(file, avail, s, t, b)
    BY <1>13, <2>2, <2>7, <2>8 DEF ImageStep
  <2> QED
    BY <2>9 DEF t
<1> QED
  BY <1>1, <1>10, <1>11, <1>12, <1>13

\* Every marker behind the first scan.
LEMMA ImageMarkers ==
  ASSUME Context, NEW s \in Sessions(file, avail), s.err = "none",
         NEW b, Decoding(file, s.c, s.pos, s.tables, s.coefs, b), s.c.consume_input = "markers"
  PROVE  ImageStep(file, avail, s, ConsumeMarkers(s), b)
<1> DEFINE t == ConsumeMarkers(s)
           k == Coming(s).t
<1>0. Parsed(file, s.c, s.pos, s.tables, b) /\ s.c.inheaders = 0
  BY DEF Decoding
<1>1. CASE s.c.eoi_reached
  <2>1. t = Returning(s, "EOI")
    BY <1>1 DEF ConsumeMarkers
  <2> QED
    BY <1>1, <2>1, StepStays
<1>2. CASE ~s.c.eoi_reached /\ Dry(s)
  <2>1. ReadMarker(s) = [s EXCEPT !.ret = "suspended"]
    BY <1>2 DEF ReadMarker, Returning
  <2>2. t = Returning(s, "suspended")
    BY <1>2, <2>1 DEF ConsumeMarkers, Sessions, Returning
  <2> QED
    BY <2>2, StepStays
<1>3. CASE ~s.c.eoi_reached /\ ~Dry(s) /\ k = "eoi"
  BY <1>3, ImageEnds
<1>4. CASE ~s.c.eoi_reached /\ ~Dry(s) /\ k = "sos" /\ s.c.saw_SOF
  BY <1>4, ImageScan
<1>5. CASE ~s.c.eoi_reached /\ ~Dry(s) /\
           (k = "soi" \/ (k = "sof" /\ s.c.saw_SOF) \/ (k = "sos" /\ ~s.c.saw_SOF))
  <2>1. /\ t \in Sessions(file, avail) /\ t.c = s.c /\ t.pos = s.pos
        /\ t.ret = "error" /\ DeservesIn(file, b, t.pos, t.err)
    BY <1>0, <1>5, ReaderFails
  <2>2. t.err # "none"
    BY <2>1 DEF DeservesIn
  <2>3. s.c.input_scan_number = Cardinality(ScansOf(file, b, s.pos))
    BY <1>0 DEF Parsed
  <2> HIDE DEF t
  <2>4. ImageStep(file, avail, s, t, b)
    BY <2>1, <2>2, <2>3, SameItself DEF ImageStep
  <2> QED
    BY <2>4 DEF t
<1>6. CASE ~s.c.eoi_reached /\ ~Dry(s) /\
           (k = "tables" \/ k = "mcu" \/ (k = "sof" /\ ~s.c.saw_SOF))
  <2>1. /\ t \in Sessions(file, avail) /\ t.coefs = s.coefs /\ t.ret = "more" /\ t.err = "none"
        /\ Parsed(file, t.c, t.pos, t.tables, b)
        /\ SameOutput(s.c, t.c) /\ SameInput(s.c, t.c) /\ SameImage(s.c, t.c)
        /\ t.c.output_scan_number = s.c.output_scan_number
    BY <1>0, <1>6, ReaderPasses
  <2> HIDE DEF t
  <2>2. Decoding(file, t.c, t.pos, t.tables, t.coefs, b)
    <3>1. /\ t.c.inheaders = 0 /\ t.c.consume_input = "markers"
          /\ t.c.input_scan_number = s.c.input_scan_number
      BY <1>0, <2>1 DEF SameInput, SameImage
    <3> QED
      BY <2>1, <3>1, BetweenScans
  <2>3. t.c.has_multiple_scans = s.c.has_multiple_scans
    BY <2>1 DEF SameImage
  <2>4. ImageStep(file, avail, s, t, b)
    BY <2>1, <2>2, <2>3 DEF ImageStep, SameInput
  <2> QED
    BY <2>4 DEF t
<1>7. ~Dry(s) => k = "soi" \/ k = "eoi" \/ k = "tables" \/ k = "mcu" \/ k = "sof" \/ k = "sos"
  <2> SUFFICES ASSUME ~Dry(s) PROVE k \in {"soi", "eoi", "tables", "mcu", "sof", "sos"}
    OBVIOUS
  <2> QED
    BY NextElement
<1> HIDE DEF t, k
<1>8. ImageStep(file, avail, s, t, b)
  BY <1>1, <1>2, <1>3, <1>4, <1>5, <1>6, <1>7, Zenon DEF t
<1> QED
  BY <1>8 DEF t

-----------------------------------------------------------------------------
(* One MCU.                                                                  *)

CountLeaves(c, d) ==
  /\ d \in Objects /\ SameOutput(c, d) /\ SameHeader(c, d)
  /\ d.output_scan_number = c.output_scan_number /\ d.Ss = c.Ss
  /\ d.MCU_ctr = IF RowDone(c) THEN 0 ELSE c.MCU_ctr + 1
  /\ d.input_iMCU_row = IF RowDone(c) THEN c.input_iMCU_row + 1 ELSE c.input_iMCU_row
  /\ d.consume_input = IF ScanDone(c) THEN "markers" ELSE c.consume_input

LEMMA CountTaken == ASSUME NEW c \in Objects PROVE CountLeaves(c, Counted(c))
<1> DEFINE x == IF RowDone(c) THEN 0 ELSE c.MCU_ctr + 1
           y == IF RowDone(c) THEN c.input_iMCU_row + 1 ELSE c.input_iMCU_row
           z == IF ScanDone(c) THEN "markers" ELSE c.consume_input
           d == Counted(c)
<1>1. d = [c EXCEPT !.MCU_ctr = x, !.input_iMCU_row = y, !.consume_input = z]
  BY DEF Counted, Objects
<1>2. x \in Nat /\ y \in Nat /\ z \in {"markers", "data"}
  BY DEF Objects
<1> HIDE DEF x, y, z, d
<1>3. d \in Objects /\ d.MCU_ctr = x /\ d.input_iMCU_row = y /\ d.consume_input = z
  BY <1>1, <1>2 DEF Objects
<1>4. SameOutput(c, d) /\ d.output_scan_number = c.output_scan_number /\ d.Ss = c.Ss
  BY <1>1 DEF Objects, SameOutput
<1>5. SameHeader(c, d)
  BY <1>1 DEF Objects, SameHeader
<1> QED
  BY <1>3, <1>4, <1>5 DEF x, y, z, d, CountLeaves

\* What one more MCU leaves; ret tells whether it ended a row, or the scan.
Decoded(f, av, s, t, b) ==
  /\ t \in Sessions(f, av) /\ t.err = "none" /\ SameOutput(s.c, t.c)
  /\ t.c.has_multiple_scans = s.c.has_multiple_scans
  /\ t.c.output_scan_number = s.c.output_scan_number
  /\ Decoding(f, t.c, t.pos, t.tables, t.coefs, b)
  /\ t.ret \in {"suspended", "more", "row", "scan"}
  /\ t.ret \in {"suspended", "more"} =>
       t.c.consume_input = "data" /\ t.c.input_iMCU_row = s.c.input_iMCU_row
  /\ t.ret = "row" =>
       t.c.consume_input = "data" /\ t.c.input_iMCU_row = s.c.input_iMCU_row + 1
  /\ t.ret = "scan" =>
       t.c.consume_input = "markers" /\ s.c.input_iMCU_row + 1 >= f.rows

LEMMA MCUDecoded ==
  ASSUME Context, NEW s \in Sessions(file, avail), s.err = "none",
         NEW b, Decoding(file, s.c, s.pos, s.tables, s.coefs, b), s.c.consume_input = "data"
  PROVE  Decoded(file, avail, s, DecodeMCU(s), b)
<1> DEFINE t == DecodeMCU(s)
           d == Counted(s.c)
           row == s.c.input_iMCU_row
           ctr == s.c.MCU_ctr
           nr == s.c.input_scan_number
           q == IF Coming(s).t = "mcu" THEN s.pos + 1 ELSE s.pos
           cs == [s.coefs EXCEPT ![row][ctr] = nr]
           r == IF ScanDone(s.c) THEN "scan" ELSE IF RowDone(s.c) THEN "row" ELSE "more"
<1>0. /\ s.c \in Objects /\ s.c.inheaders = 0 /\ Parsed(file, s.c, s.pos, s.tables, b)
      /\ Filled(file, s.c, s.coefs) /\ InScan(file, s.c, s.pos, b)
      /\ row \in RowsOf(file) /\ ctr \in ColsOf(file) /\ ~s.c.eoi_reached /\ nr \in Nat
  BY DEF Decoding, InScan, Sessions, Objects
<1>1. CASE Dry(s)
  <2>1. t = [s EXCEPT !.ret = "suspended"]
    BY <1>1 DEF DecodeMCU, Returning
  <2>2. /\ t \in Sessions(file, avail) /\ t.c = s.c /\ t.pos = s.pos /\ t.tables = s.tables
        /\ t.coefs = s.coefs /\ t.err = "none" /\ t.ret = "suspended"
    BY <2>1 DEF Sessions, Returns
  <2> HIDE DEF t
  <2>3. Decoded(file, avail, s, t, b)
    BY <2>2, SameItself DEF Decoded
  <2> QED
    BY <2>3 DEF t
<1>2. CASE ~Dry(s)
  <2>1. /\ s.pos \in Nat /\ s.pos + 1 \in 0..avail /\ s.pos < Len(file.els)
        /\ Len(file.els) \in Nat /\ Coming(s) = file.els[s.pos + 1]
    BY <1>2, NextElement
  <2>2. t = [s EXCEPT !.pos = q, !.coefs = cs, !.c = d, !.ret = r]
    BY <1>2 DEF DecodeMCU
  <2>3. CountLeaves(s.c, d)
    BY <1>0, CountTaken
  <2>4. q \in 0..avail
    BY <2>1 DEF Sessions
  <2>5. cs \in Arrays(file) /\
        \A i \in RowsOf(file), k \in ColsOf(file) :
          cs[i][k] = IF i = row /\ k = ctr THEN nr ELSE s.coefs[i][k]
    <3>1. s.coefs \in [RowsOf(file) -> [ColsOf(file) -> Nat]]
      BY DEF Sessions, Arrays
    <3> HIDE DEF row, ctr, nr
    <3> QED
      BY <1>0, <3>1 DEF Arrays
  <2>6. r \in {"more", "row", "scan"} /\ (r = "scan" <=> ScanDone(s.c))
        /\ (r = "row" <=> RowDone(s.c) /\ ~ScanDone(s.c)) /\ (r = "more" <=> ~RowDone(s.c))
    BY DEF ScanDone
  <2> HIDE DEF t, d, q, cs, r
  <2>7. /\ t \in Sessions(file, avail) /\ t.c = d /\ t.pos = q /\ t.tables = s.tables
        /\ t.coefs = cs /\ t.err = "none" /\ t.ret = r
    <3>1. d \in Objects
      BY <2>3 DEF CountLeaves
    <3> QED
      BY <2>2, <2>4, <2>5, <2>6, <3>1 DEF Sessions, Returns
  <2>8. /\ SameOutput(s.c, d) /\ SameHeader(s.c, d) /\ d.Ss = s.c.Ss
        /\ d.output_scan_number = s.c.output_scan_number
        /\ d.MCU_ctr = IF RowDone(s.c) THEN 0 ELSE ctr + 1
        /\ d.input_iMCU_row = IF RowDone(s.c) THEN row + 1 ELSE row
        /\ d.consume_input = IF ScanDone(s.c) THEN "markers" ELSE "data"
    BY <2>3 DEF CountLeaves
  <2>9. Parsed(file, d, q, s.tables, b) /\ ScansOf(file, b, q) = ScansOf(file, b, s.pos)
    <3>1. CASE Coming(s).t = "mcu"
      <4>1. ~Real(file, s.pos + 1)
        BY <2>1, <3>1 DEF Real
      <4>2. Takes(file, s.c, d, s.pos, s.tables, s.tables)
        <5>1. s.c.saw_SOI /\ ~s.c.eoi_reached
          BY <1>0 DEF Parsed
        <5> QED
          BY <2>1, <2>8, <3>1, <4>1, <5>1 DEF Takes, SameHeader
      <4>3. Parsed(file, d, s.pos + 1, s.tables, b)
        BY <1>0, <2>1, <4>2, ParsedNext
      <4>4. ScansOf(file, b, s.pos + 1) = ScansOf(file, b, s.pos)
        <5>1. b \in Nat /\ b <= s.pos + 1
          BY <1>0, <2>1 DEF Parsed, Begins
        <5> QED
          BY <2>1, <4>1, <5>1, NextScan, Zenon
      <4> QED
        BY <3>1, <4>3, <4>4 DEF q
    <3>2. CASE Coming(s).t # "mcu"
      <4>1. q = s.pos
        BY <3>2 DEF q
      <4> QED
        BY <1>0, <2>8, <4>1, ParsedSame
    <3> QED
      BY <3>1, <3>2
  <2>10. d.inheaders = 0 /\ ~d.eoi_reached /\ d.input_scan_number = nr
         /\ d.has_multiple_scans = s.c.has_multiple_scans
    BY <1>0, <2>8 DEF SameHeader
  <2>11. file.rows \in Nat /\ file.rows > 0 /\ file.cols \in Nat /\ file.cols > 0
    BY DEF Context, Streams, Positive
  <2>12. row \in Nat /\ row < file.rows /\ ctr \in Nat /\ ctr < file.cols
    BY <1>0, <2>11 DEF RowsOf, ColsOf
  <2>13. (RowDone(s.c) <=> ctr + 1 >= file.cols) /\ (ScanDone(s.c) <=> RowDone(s.c) /\ row + 1 >= file.rows)
    BY DEF RowDone, ScanDone
  <2> HIDE DEF row, ctr, nr
  <2>14. Filled(file, d, cs)
    <3> SUFFICES ASSUME NEW i \in RowsOf(file), NEW k \in ColsOf(file)
                 PROVE  /\ cs[i][k] + 1 >= nr
                        /\ \/ d.consume_input = "markers" \/ i < d.input_iMCU_row
                           \/ i = d.input_iMCU_row /\ k < d.MCU_ctr
                           => cs[i][k] >= nr
      BY <2>10 DEF Filled
    <3>1. i \in Nat /\ i < file.rows /\ k \in Nat /\ k < file.cols
      BY <2>11 DEF RowsOf, ColsOf
    <3>2. CASE i = row /\ k = ctr
      <4>1. cs[i][k] = nr
        BY <2>5, <3>2
      <4> QED
        BY <1>0, <4>1
    <3>3. CASE ~(i = row /\ k = ctr)
      <4>1. cs[i][k] = s.coefs[i][k]
        BY <2>5, <3>3
      <4>2. /\ s.coefs[i][k] + 1 >= nr
            /\ i < row \/ (i = row /\ k < ctr) => s.coefs[i][k] >= nr
        BY <1>0 DEF Filled, row, ctr, nr
      <4>3. (d.consume_input = "markers" \/ i < d.input_iMCU_row
              \/ (i = d.input_iMCU_row /\ k < d.MCU_ctr)) => i < row \/ (i = row /\ k < ctr)
        <5>1. CASE ScanDone(s.c)
          BY <2>11, <2>12, <2>13, <3>1, <3>3, <5>1
        <5>2. CASE ~ScanDone(s.c) /\ RowDone(s.c)
          <6>1. d.consume_input = "data" /\ d.input_iMCU_row = row + 1 /\ d.MCU_ctr = 0
            BY <2>8, <5>2
          <6> QED
            BY <2>11, <2>12, <2>13, <3>1, <3>3, <5>2, <6>1
        <5>3. CASE ~RowDone(s.c)
          <6>1. d.consume_input = "data" /\ d.input_iMCU_row = row /\ d.MCU_ctr = ctr + 1
            BY <2>8, <2>13, <5>3
          <6> QED
            BY <2>12, <3>1, <3>3, <6>1
        <5> QED
          BY <5>1, <5>2, <5>3
      <4> QED
        BY <4>1, <4>2, <4>3
    <3> QED
      BY <3>2, <3>3
  <2>15. InScan(file, d, q, b)
    <3> SUFFICES ASSUME d.consume_input = "data"
                 PROVE  /\ d.input_iMCU_row \in RowsOf(file) /\ d.MCU_ctr \in ColsOf(file)
                        /\ \E l \in ScansOf(file, b, q) :
                             ScansOf(file, b, q) = ScansOf(file, b, l) /\ d.Ss = file.els[l].Ss
      BY <2>10 DEF InScan
    <3>1. ~ScanDone(s.c)
      BY <2>8
    <3>2. d.input_iMCU_row \in RowsOf(file) /\ d.MCU_ctr \in ColsOf(file)
      <4>1. CASE RowDone(s.c)
        <5>1. d.input_iMCU_row = row + 1 /\ d.MCU_ctr = 0
          BY <2>8, <4>1
        <5> QED
          BY <2>11, <2>12, <2>13, <3>1, <4>1, <5>1 DEF RowsOf, ColsOf
      <4>2. CASE ~RowDone(s.c)
        <5>1. d.input_iMCU_row = row /\ d.MCU_ctr = ctr + 1
          BY <2>8, <4>2
        <5> QED
          BY <2>11, <2>12, <2>13, <4>2, <5>1 DEF RowsOf, ColsOf
      <4> QED
        BY <4>1, <4>2
    <3>3. PICK l \in ScansOf(file, b, s.pos) :
            ScansOf(file, b, s.pos) = ScansOf(file, b, l) /\ s.c.Ss = file.els[l].Ss
      BY <1>0 DEF InScan
    <3> QED
      BY <2>8, <2>9, <3>2, <3>3
  <2>16. Decoding(file, d, q, s.tables, cs, b)
    BY <2>9, <2>10, <2>14, <2>15 DEF Decoding
  <2>17. /\ r = "more" => d.consume_input = "data" /\ d.input_iMCU_row = row
         /\ r = "row" => d.consume_input = "data" /\ d.input_iMCU_row = row + 1
         /\ r = "scan" => d.consume_input = "markers" /\ row + 1 >= file.rows
    BY <2>6, <2>8, <2>13
  <2>18. Decoded(file, avail, s, t, b)
    BY <2>6, <2>7, <2>8, <2>10, <2>16, <2>17 DEF Decoded, row
  <2> QED
    BY <2>18 DEF t
<1> QED
  BY <1>1, <1>2

\* Whatever consume_input points to.
LEMMA Consumed ==
  ASSUME Context, NEW s \in Sessions(file, avail), s.err = "none",
         NEW b, Decoding(file, s.c, s.pos, s.tables, s.coefs, b)
  PROVE  ImageStep(file, avail, s, Consume(s), b)
<1>1. s.c.consume_input = "markers" \/ s.c.consume_input = "data"
  BY DEF Sessions, Objects
<1>2. CASE s.c.consume_input = "markers"
  <2>1. Consume(s) = ConsumeMarkers(s)
    BY <1>2 DEF Consume
  <2> QED
    BY <1>2, <2>1, ImageMarkers
<1>3. CASE s.c.consume_input = "data" /\ s.c.decompress = "onepass"
  <2>1. Consume(s) = Returning(s, "suspended")
    BY <1>3 DEF Consume
  <2> QED
    BY <2>1, StepStays
<1>4. CASE s.c.consume_input = "data" /\ s.c.decompress # "onepass"
  <2> DEFINE t == DecodeMCU(s)
  <2>1. Consume(s) = t
    BY <1>4 DEF Consume
  <2>2. Decoded(file, avail, s, t, b)
    BY <1>4, MCUDecoded
  <2> HIDE DEF t
  <2>3. ImageStep(file, avail, s, t, b)
    BY <1>4, <2>2 DEF Decoded, ImageStep
  <2> QED
    BY <2>1, <2>3
<1> QED
  BY <1>1, <1>2, <1>3, <1>4

-----------------------------------------------------------------------------
(* What a row holds.                                                         *)

LEMMA LeastValue ==
  ASSUME NEW S, IsFiniteSet(S), S # {}, NEW g \in [S -> Nat]
  PROVE  LET T == {g[x] : x \in S} IN Min(T) \in T /\ \A y \in T : Min(T) <= y
<1> DEFINE T == {g[x] : x \in S}
<1>1. g \in Surjection(S, T)
  BY DEF Surjection
<1>2. IsFiniteSet(T)
  BY <1>1, FS_Surjection
<1>3. T \subseteq Int /\ T \in SUBSET T /\ T # {}
  OBVIOUS
<1> HIDE DEF T
<1>4. Min(T) \in T /\ \A y \in T : Min(T) <= y
  BY <1>2, <1>3, MinMember
<1> QED
  BY <1>4 DEF T

LEMMA HeldAll ==
  ASSUME Context, NEW cs \in Arrays(file), NEW r \in RowsOf(file)
  PROVE  /\ Held(cs, r) \in Nat
         /\ \A d \in Nat : (\A k \in ColsOf(file) : cs[r][k] >= d) => Held(cs, r) >= d
<1> DEFINE C == ColsOf(file)
           g == cs[r]
           T == {g[k] : k \in C}
<1>1. g \in [C -> Nat] /\ C # {} /\ IsFiniteSet(C)
  <2>1. 0 \in C
    BY DEF Context, Streams, Positive, ColsOf
  <2>2. IsFiniteSet(C)
    BY FS_Interval DEF Context, Streams, Positive, ColsOf
  <2>3. g \in [C -> Nat]
    BY DEF Arrays
  <2> QED
    BY <2>1, <2>2, <2>3
<1>2. Held(cs, r) = Min(T)
  BY DEF Held, ColsOf, Cols
<1> HIDE DEF C, g
<1>3. Min(T) \in T /\ \A y \in T : Min(T) <= y
  BY <1>1, LeastValue, ZenonT(40)
<1>4. PICK k \in C : Min(T) = g[k]
  BY <1>3
<1>5. g[k] \in Nat
  BY <1>1
<1> QED
  BY <1>2, <1>4, <1>5 DEF C, g

\* The scan that is due is one the image has.
LEMMA DueBound ==
  ASSUME NEW f, Len(f.els) \in Nat, NEW c, NEW p, NEW tb, NEW b, NEW a \in Nat,
         Parsed(f, c, p, tb, b), c.inheaders = 0
  PROVE  /\ DueOf(f, c, a, b) \in Nat /\ DueOf(f, c, a, b) <= a
         /\ c.input_scan_number \in Nat /\ c.input_scan_number >= 1
         /\ c.eoi_reached => DueOf(f, c, a, b) <= c.input_scan_number
         /\ ~c.has_multiple_scans => DueOf(f, c, a, b) <= c.input_scan_number
<1>1. b \in Nat /\ p \in Nat /\ ScansOf(f, b, p) # {} /\ Begins(f, b, p)
      /\ c.input_scan_number = Cardinality(ScansOf(f, b, p))
  BY DEF Parsed, Begins
<1>2. IsFiniteSet(ScansOf(f, b, p)) /\ Cardinality(ScansOf(f, b, p)) \in Nat
  BY <1>1, ScansFinite
<1>3. Cardinality(ScansOf(f, b, p)) # 0
  BY <1>1, <1>2, FS_EmptySet
<1>4. IsFiniteSet(AllScans(f, b))
  <2>1. AllScans(f, b) \in SUBSET (b..Len(f.els))
    BY DEF AllScans
  <2>2. IsFiniteSet(b..Len(f.els))
    <3>1. b \in Int /\ Len(f.els) \in Int
      BY <1>1
    <3> QED
      BY <3>1, FS_Interval, Zenon
  <2> QED
    BY <2>1, <2>2, FS_Subset
<1>5. Cardinality(AllScans(f, b)) \in Nat
  BY <1>4, FS_CardinalityType
<1>6. ScanTotal(f, c, b) \in Nat
  BY <1>5 DEF ScanTotal
<1>7. c.input_scan_number \in Nat /\ c.input_scan_number >= 1
  BY <1>1, <1>2, <1>3
<1>8. c.eoi_reached \/ ~c.has_multiple_scans => ScanTotal(f, c, b) <= c.input_scan_number
  <2>1. CASE ~c.has_multiple_scans
    BY <1>7, <2>1 DEF ScanTotal
  <2>2. CASE c.eoi_reached /\ c.has_multiple_scans
    <3>1. f.els[p].t = "eoi" /\ ~Has(f, b, p - 1, "eoi")
      BY <2>2 DEF Parsed
    <3>2. AllScans(f, b) = ScansOf(f, b, p)
      BY <1>1, <3>1, AllRead
    <3> QED
      BY <1>1, <1>7, <2>2, <3>2 DEF ScanTotal
  <2> QED
    BY <2>1, <2>2
<1> HIDE DEF ScanTotal
<1> QED
  BY <1>6, <1>7, <1>8 DEF DueOf

\* One row that an application gets is as it has to be.
Shows(f, c, a, b, e) ==
  /\ e \in Emissions /\ e.have >= DueOf(f, c, a, b)
  /\ c.decompress = "smooth" /\ DCDue(f, c, a, b) => e.below >= DueOf(f, c, a, b)

LEMMA SameDue ==
  ASSUME NEW f, NEW c, NEW d, NEW a, NEW b, d.has_multiple_scans = c.has_multiple_scans
  PROVE  /\ DueOf(f, d, a, b) = DueOf(f, c, a, b)
         /\ DCDue(f, d, a, b) <=> DCDue(f, c, a, b)
<1>1. ScanTotal(f, d, b) = ScanTotal(f, c, b)
  BY DEF ScanTotal
<1>2. DueOf(f, d, a, b) = DueOf(f, c, a, b)
  BY <1>1 DEF DueOf
<1> QED
  BY <1>2 DEF DCDue

\* The next row of the coefficient arrays behind the interlock.
LEMMA RowShown ==
  ASSUME Context, NEW c \in Objects, NEW p, NEW tb, NEW cs \in Arrays(file), NEW b, NEW a \in Nat,
         Decoding(file, c, p, tb, cs, b), c.output_scan_number >= DueOf(file, c, a, b),
         ~Behind(c), c.decompress = "data" \/ c.decompress = "smooth",
         c.output_iMCU_row \in RowsOf(file)
  PROVE  Shows(file, c, a, b, Emission(cs, c.output_iMCU_row))
<1> DEFINE r == c.output_iMCU_row
           nr == c.input_scan_number
           out == c.output_scan_number
           D == DueOf(file, c, a, b)
           below == IF r + 1 \in Rows THEN r + 1 ELSE r
<1>0. /\ Parsed(file, c, p, tb, b) /\ c.inheaders = 0 /\ Filled(file, c, cs)
      /\ InScan(file, c, p, b) /\ Len(file.els) \in Nat /\ nr \in Nat /\ out \in Nat /\ r \in Nat
      /\ c.input_iMCU_row \in Nat
  BY DEF Decoding, Context, Streams, Objects
<1>1. D \in Nat /\ nr >= 1 /\ (c.eoi_reached => D <= nr)
  BY <1>0, DueBound
<1>2. r \in RowsOf(file) /\ below \in RowsOf(file) /\ (below = r \/ below = r + 1)
  BY <1>0 DEF RowsOf, Rows
<1>3. \A i \in RowsOf(file), k \in ColsOf(file) :
        /\ cs[i][k] \in Nat /\ cs[i][k] + 1 >= nr
        /\ c.consume_input = "markers" \/ i < c.input_iMCU_row => cs[i][k] >= nr
  BY <1>0 DEF Filled, Arrays
<1>4. out >= D
  OBVIOUS
<1> HIDE DEF r, nr, out, D, below
<1>5. nr > D => \A i \in RowsOf(file), k \in ColsOf(file) : cs[i][k] >= D
  BY <1>0, <1>1, <1>3
<1>6. c.consume_input = "markers" /\ nr >= D =>
        \A i \in RowsOf(file), k \in ColsOf(file) : cs[i][k] >= D
  BY <1>0, <1>1, <1>3
<1>7. ASSUME nr >= D, NEW i \in RowsOf(file), i < c.input_iMCU_row
      PROVE  \A k \in ColsOf(file) : cs[i][k] >= D
  BY <1>0, <1>1, <1>3, <1>7
<1>8. \A k \in ColsOf(file) : cs[r][k] >= D
  <2>1. CASE nr > D
    BY <1>2, <1>5, <2>1
  <2>2. CASE c.eoi_reached
    <3>1. c.consume_input = "markers"
      BY <1>0, <2>2 DEF InScan, Objects
    <3> QED
      BY <1>1, <1>2, <1>6, <2>2, <3>1
  <2>3. CASE ~(nr > D) /\ ~c.eoi_reached
    <3>1. nr = out /\ nr = D /\ r < c.input_iMCU_row
      <4>1. nr <= out
        BY <1>0, <1>1, <1>4, <2>3
      <4>2. c.decompress # "smooth" => nr = out /\ r < c.input_iMCU_row
        BY <1>0, <4>1 DEF Behind, nr, out, r
      <4>3. c.decompress = "smooth" => nr = out /\ r < c.input_iMCU_row
        <5>1. SUFFICES ASSUME c.decompress = "smooth"
                       PROVE  nr = out /\ r < c.input_iMCU_row
          OBVIOUS
        <5>2. nr = out /\ c.input_iMCU_row > r + (IF c.Ss = 0 THEN 1 ELSE 0)
          BY <2>3, <4>1, <5>1 DEF Behind, nr, out, r
        <5> QED
          BY <1>0, <5>2
      <4> QED
        BY <1>0, <1>1, <1>4, <2>3, <4>2, <4>3
    <3> QED
      BY <1>0, <1>1, <1>2, <1>7, <3>1
  <2> QED
    BY <2>1, <2>2, <2>3
<1>9. c.decompress = "smooth" /\ DCDue(file, c, a, b) => \A k \in ColsOf(file) : cs[below][k] >= D
  <2> SUFFICES ASSUME c.decompress = "smooth", DCDue(file, c, a, b)
               PROVE  \A k \in ColsOf(file) : cs[below][k] >= D
    OBVIOUS
  <2>1. CASE nr > D
    BY <1>2, <1>5, <2>1
  <2>2. CASE c.consume_input = "markers" /\ nr = D
    BY <1>1, <1>2, <1>6, <2>2
  <2>3. CASE c.eoi_reached
    <3>1. c.consume_input = "markers"
      BY <1>0, <2>3 DEF InScan, Objects
    <3> QED
      BY <1>1, <1>2, <1>6, <2>3, <3>1
  <2>4. CASE ~(nr > D) /\ c.consume_input = "data" /\ ~c.eoi_reached
    <3>1. nr = out /\ nr = D /\ c.input_iMCU_row > r + (IF c.Ss = 0 THEN 1 ELSE 0)
      <4>1. nr <= out
        BY <1>0, <1>1, <1>4, <2>4
      <4>2. nr = out /\ c.input_iMCU_row > r + (IF c.Ss = 0 THEN 1 ELSE 0)
        BY <2>4, <4>1 DEF Behind, nr, out, r
      <4> QED
        BY <1>0, <1>1, <1>4, <2>4, <4>2
    <3>2. PICK l \in ScansOf(file, b, p) :
            ScansOf(file, b, p) = ScansOf(file, b, l) /\ c.Ss = file.els[l].Ss
      BY <1>0, <2>4 DEF InScan
    <3>3. PICK j \in AllScans(file, b) :
            Cardinality(ScansOf(file, b, j)) = D /\ file.els[j].Ss = 0
      BY DEF DCDue, D
    <3>4. Cardinality(ScansOf(file, b, l)) = D
      BY <1>0, <3>1, <3>2 DEF Parsed, nr
    <3>5. b \in Nat /\ j \in Nat /\ l \in Nat /\ b <= j /\ b <= l /\ Real(file, j) /\ Real(file, l)
      BY <1>0 DEF Parsed, Begins, AllScans, ScansOf
    <3>6. l = j
      BY <3>3, <3>4, <3>5, ScanByNumber
    <3>7. c.Ss = 0
      BY <3>2, <3>3, <3>6
    <3>8. below < c.input_iMCU_row
      BY <1>0, <1>2, <3>1, <3>7
    <3> QED
      BY <1>0, <1>1, <1>2, <1>7, <3>1, <3>8
  <2>5. (nr > D \/ nr = D \/ nr < D) /\ (c.consume_input = "markers" \/ c.consume_input = "data")
    BY <1>0, <1>1 DEF Objects
  <2>6. ~c.eoi_reached => nr >= D
    <3> SUFFICES ASSUME ~c.eoi_reached PROVE nr >= D
      OBVIOUS
    <3>1. nr > out \/ nr = out
      BY <1>0 DEF Behind, nr, out, r
    <3> QED
      BY <1>0, <1>1, <1>4, <3>1
  <2> QED
    BY <1>0, <1>1, <2>1, <2>2, <2>3, <2>4, <2>5, <2>6
<1>10. Held(cs, r) \in Nat /\ Held(cs, r) >= D /\ Held(cs, below) \in Nat
  BY <1>1, <1>2, <1>8, HeldAll
<1>11. c.decompress = "smooth" /\ DCDue(file, c, a, b) => Held(cs, below) >= D
  BY <1>1, <1>2, <1>9, HeldAll
<1>12. Emission(cs, r) = [have |-> Held(cs, r), below |-> Held(cs, below)]
  BY DEF Emission, below
<1> QED
  BY <1>10, <1>11, <1>12 DEF Shows, Emissions, D, r

\* The one-MCU buffer: the row has been decoded just now, in the only scan.
LEMMA RowDecoded ==
  ASSUME Context, NEW c \in Objects, NEW p, NEW tb, NEW cs \in Arrays(file), NEW b, NEW a \in Nat,
         Decoding(file, c, p, tb, cs, b), ~c.has_multiple_scans, c.decompress = "onepass",
         NEW r \in RowsOf(file), c.consume_input = "markers" \/ r < c.input_iMCU_row
  PROVE  Shows(file, c, a, b, Emission(cs, r))
<1> DEFINE D == DueOf(file, c, a, b)
           below == IF r + 1 \in Rows THEN r + 1 ELSE r
<1>0. Parsed(file, c, p, tb, b) /\ c.inheaders = 0 /\ Filled(file, c, cs) /\ Len(file.els) \in Nat
  BY DEF Decoding, Context, Streams
<1>1. D \in Nat /\ D <= c.input_scan_number /\ c.input_scan_number \in Nat
  BY <1>0, DueBound
<1>2. r \in Nat /\ below \in RowsOf(file)
  BY DEF RowsOf, Rows
<1>3. \A k \in ColsOf(file) : cs[r][k] \in Nat /\ cs[r][k] >= c.input_scan_number
  BY <1>0 DEF Filled, Arrays
<1> HIDE DEF D, below
<1>4. \A k \in ColsOf(file) : cs[r][k] >= D
  BY <1>1, <1>3
<1>5. Held(cs, r) \in Nat /\ Held(cs, r) >= D /\ Held(cs, below) \in Nat
  BY <1>1, <1>2, <1>4, HeldAll
<1>6. Emission(cs, r) = [have |-> Held(cs, r), below |-> Held(cs, below)]
  BY DEF Emission, below
<1> QED
  BY <1>5, <1>6 DEF Shows, Emissions, D

-----------------------------------------------------------------------------
(* decompress_data, decompress_smooth_data, decompress_onepass.               *)

LEMMA DecodingSame ==
  ASSUME NEW f, NEW c, NEW d, NEW p, NEW tb, NEW cs, NEW b,
         Decoding(f, c, p, tb, cs, b), SameHeader(c, d), SameInput(c, d)
  PROVE  Decoding(f, d, p, tb, cs, b)
<1>1. Parsed(f, d, p, tb, b)
  BY ParsedSame DEF Decoding
<1>2. d.inheaders = 0 /\ Filled(f, d, cs) /\ InScan(f, d, p, b)
  BY DEF Decoding, SameHeader, SameInput, Filled, InScan
<1> QED
  BY <1>1, <1>2 DEF Decoding

\* The fields of an output pass, its row and the state apart.
SamePass(c, d) ==
  /\ d.output_scanline = c.output_scanline /\ d.is_dummy_pass = c.is_dummy_pass
  /\ d.crank = c.crank /\ d.buffered_image = c.buffered_image
  /\ d.decompress = c.decompress /\ d.output_scan_number = c.output_scan_number

RowNext(c, d) ==
  /\ d \in Objects /\ SameHeader(c, d) /\ SameInput(c, d) /\ SamePass(c, d)
  /\ d.global_state = c.global_state /\ d.output_iMCU_row = c.output_iMCU_row + 1

LEMMA RowEmitted ==
  ASSUME NEW s \in Sessions(file, avail)
  PROVE  LET t == [s EXCEPT !.ret = "emitted", !.c.output_iMCU_row = @ + 1]
         IN  /\ t \in Sessions(file, avail) /\ t.pos = s.pos /\ t.tables = s.tables
             /\ t.coefs = s.coefs /\ t.err = s.err /\ t.ret = "emitted" /\ RowNext(s.c, t.c)
<1> DEFINE x == s.c.output_iMCU_row + 1
           d == [s.c EXCEPT !.output_iMCU_row = x]
           t == [s EXCEPT !.ret = "emitted", !.c.output_iMCU_row = @ + 1]
<1>0. s.c \in Objects
  BY DEF Sessions
<1>1. x \in Nat
  BY <1>0 DEF Objects
<1>2. t = [s EXCEPT !.ret = "emitted", !.c = d]
  BY <1>0 DEF Sessions, Objects
<1> HIDE DEF x
<1>3. d \in Objects /\ d.output_iMCU_row = x /\ d.global_state = s.c.global_state
  BY <1>0, <1>1 DEF Objects
<1>4. SameHeader(s.c, d) /\ SameInput(s.c, d) /\ SamePass(s.c, d)
  BY <1>0 DEF Objects, SameHeader, SameInput, SamePass
<1>5. RowNext(s.c, d)
  BY <1>3, <1>4 DEF RowNext, x
<1> HIDE DEF d, t
<1>6. /\ t \in Sessions(file, avail) /\ t.pos = s.pos /\ t.tables = s.tables
      /\ t.coefs = s.coefs /\ t.err = s.err /\ t.ret = "emitted" /\ t.c = d
  BY <1>2, <1>3 DEF Sessions, Returns
<1> QED
  BY <1>5, <1>6 DEF t

\* What the output side has done: a row, or a step of input.
Advanced(c, d) ==
  /\ SamePass(c, d) /\ d.has_multiple_scans = c.has_multiple_scans
  /\ d.global_state = c.global_state /\ d.output_iMCU_row = c.output_iMCU_row + 1
Emitted(f, av, s, t, a, b) ==
  /\ t \in Sessions(f, av) /\ t.err = "none" /\ Advanced(s.c, t.c)
  /\ Decoding(f, t.c, t.pos, t.tables, t.coefs, b)
  /\ Shows(f, t.c, a, b, Emission(t.coefs, s.c.output_iMCU_row))
  /\ s.c.decompress = "onepass" /\ s.c.output_iMCU_row + 1 < f.rows =>
       t.c.consume_input = "data" /\ t.c.input_iMCU_row = s.c.output_iMCU_row + 1
Output(f, av, s, t, a, b) ==
  IF t.ret = "emitted" THEN Emitted(f, av, s, t, a, b) ELSE ImageStep(f, av, s, t, b)

LEMMA OnepassOutput ==
  ASSUME Context, NEW s \in Sessions(file, avail), s.err = "none", NEW a \in Nat,
         NEW b, Decoding(file, s.c, s.pos, s.tables, s.coefs, b),
         s.c.output_iMCU_row \in RowsOf(file),
         s.c.decompress = "onepass", ~s.c.has_multiple_scans, s.c.consume_input = "data",
         s.c.input_iMCU_row = s.c.output_iMCU_row
  PROVE  Output(file, avail, s, Decompress(s), a, b)
<1> DEFINE m == DecodeMCU(s)
           t == Decompress(s)
           r == s.c.output_iMCU_row
<1>1. Decoded(file, avail, s, m, b)
  BY MCUDecoded
<1>2. t = IF m.ret \in {"row", "scan"}
          THEN [m EXCEPT !.ret = "emitted", !.c.output_iMCU_row = @ + 1] ELSE m
  BY DEF Decompress
<1> HIDE DEF m, t
<1>3. /\ m \in Sessions(file, avail) /\ m.err = "none" /\ SameOutput(s.c, m.c)
      /\ m.c.has_multiple_scans = s.c.has_multiple_scans
      /\ m.c.output_scan_number = s.c.output_scan_number
      /\ Decoding(file, m.c, m.pos, m.tables, m.coefs, b)
  BY <1>1 DEF Decoded
<1>4. CASE m.ret \notin {"row", "scan"}
  <2>1. t = m
    BY <1>2, <1>4
  <2>2. /\ m.ret \in {"suspended", "more"} /\ m.c.consume_input = "data"
        /\ m.c.input_iMCU_row = s.c.input_iMCU_row
    BY <1>1, <1>4 DEF Decoded
  <2>3. ImageStep(file, avail, s, m, b)
    BY <1>3, <2>2 DEF ImageStep
  <2>4. Output(file, avail, s, t, a, b)
    BY <2>1, <2>2, <2>3 DEF Output
  <2> QED
    BY <2>4 DEF t
<1>5. CASE m.ret \in {"row", "scan"}
  <2>1. t = [m EXCEPT !.ret = "emitted", !.c.output_iMCU_row = @ + 1]
    BY <1>2, <1>5
  <2>2. /\ t \in Sessions(file, avail) /\ t.pos = m.pos /\ t.tables = m.tables
        /\ t.coefs = m.coefs /\ t.err = "none" /\ t.ret = "emitted" /\ RowNext(m.c, t.c)
    BY <1>3, <2>1, RowEmitted
  <2>3. Advanced(s.c, t.c) /\ t.c \in Objects /\ SameHeader(m.c, t.c) /\ SameInput(m.c, t.c)
    BY <1>3, <2>2 DEF Advanced, RowNext, SamePass, SameOutput, SameHeader
  <2>4. Decoding(file, t.c, t.pos, t.tables, t.coefs, b)
    BY <1>3, <2>2, <2>3, DecodingSame
  <2>5. /\ t.c.consume_input = "markers" \/ r < t.c.input_iMCU_row
        /\ r + 1 < file.rows => t.c.consume_input = "data" /\ t.c.input_iMCU_row = r + 1
    <3>1. r \in Nat /\ file.rows \in Nat
      BY DEF Sessions, Objects, Context, Streams, Positive
    <3>2. t.c.consume_input = m.c.consume_input /\ t.c.input_iMCU_row = m.c.input_iMCU_row
      BY <2>3 DEF SameInput
    <3>3. CASE m.ret = "row"
      <4>1. m.c.consume_input = "data" /\ m.c.input_iMCU_row = r + 1
        BY <1>1, <3>3 DEF Decoded
      <4> HIDE DEF r
      <4> QED
        BY <3>1, <3>2, <4>1
    <3>4. CASE m.ret = "scan"
      <4>1. m.c.consume_input = "markers" /\ r + 1 >= file.rows
        BY <1>1, <3>4 DEF Decoded
      <4> HIDE DEF r
      <4> QED
        BY <3>1, <3>2, <4>1
    <3> QED
      BY <1>5, <3>3, <3>4
  <2>6. t.coefs \in Arrays(file) /\ ~t.c.has_multiple_scans /\ t.c.decompress = "onepass"
    BY <2>2, <2>3 DEF Sessions, Advanced, SamePass
  <2>7. Shows(file, t.c, a, b, Emission(t.coefs, r))
    BY <2>3, <2>4, <2>5, <2>6, RowDecoded
  <2>8. Output(file, avail, s, t, a, b)
    BY <2>2, <2>3, <2>4, <2>5, <2>7 DEF Output, Emitted
  <2> QED
    BY <2>8 DEF t
<1> QED
  BY <1>4, <1>5

LEMMA RowOutput ==
  ASSUME Context, NEW s \in Sessions(file, avail), s.err = "none", NEW a \in Nat,
         NEW b, Decoding(file, s.c, s.pos, s.tables, s.coefs, b),
         s.c.output_scan_number >= DueOf(file, s.c, a, b),
         s.c.output_iMCU_row \in RowsOf(file), s.c.decompress # "none",
         s.c.decompress = "onepass" =>
           /\ ~s.c.has_multiple_scans /\ s.c.consume_input = "data"
           /\ s.c.input_iMCU_row = s.c.output_iMCU_row
  PROVE  Output(file, avail, s, Decompress(s), a, b)
<1> DEFINE i == Consume(s)
           t == Decompress(s)
           r == s.c.output_iMCU_row
<1>0. s.c \in Objects /\ s.coefs \in Arrays(file)
  BY DEF Sessions
<1>1. CASE s.c.decompress = "onepass"
  BY <1>1, OnepassOutput
<1>2. CASE s.c.decompress # "onepass" /\ Behind(s.c)
  <2>1. ImageStep(file, avail, s, i, b)
    BY Consumed
  <2>2. t = IF i.ret \in {"suspended", "error"} THEN i ELSE Returning(i, "more")
    BY <1>2 DEF Decompress
  <2> HIDE DEF i, t
  <2>3. i.ret # "emitted"
    BY <2>1 DEF ImageStep
  <2>4. CASE i.ret \in {"suspended", "error"}
    <3>1. t = i
      BY <2>2, <2>4
    <3>2. Output(file, avail, s, t, a, b)
      BY <2>1, <2>3, <3>1 DEF Output
    <3> QED
      BY <3>2 DEF t
  <2>5. CASE i.ret \notin {"suspended", "error"}
    <3>1. t = [i EXCEPT !.ret = "more"]
      BY <2>2, <2>5 DEF Returning
    <3>2. i \in Sessions(file, avail) /\ i.err = "none"
      BY <2>1, <2>5 DEF ImageStep
    <3>3. /\ t \in Sessions(file, avail) /\ t.c = i.c /\ t.pos = i.pos /\ t.tables = i.tables
          /\ t.coefs = i.coefs /\ t.err = "none" /\ t.ret = "more"
      BY <3>1, <3>2 DEF Sessions, Returns
    <3>4. ImageStep(file, avail, s, t, b)
      BY <2>1, <3>2, <3>3 DEF ImageStep
    <3>5. Output(file, avail, s, t, a, b)
      BY <3>3, <3>4 DEF Output
    <3> QED
      BY <3>5 DEF t
  <2> QED
    BY <2>4, <2>5
<1>3. CASE s.c.decompress # "onepass" /\ ~Behind(s.c)
  <2>1. t = [s EXCEPT !.ret = "emitted", !.c.output_iMCU_row = @ + 1]
    BY <1>3 DEF Decompress
  <2>2. /\ t \in Sessions(file, avail) /\ t.pos = s.pos /\ t.tables = s.tables
        /\ t.coefs = s.coefs /\ t.err = "none" /\ t.ret = "emitted" /\ RowNext(s.c, t.c)
    BY <2>1, RowEmitted
  <2> HIDE DEF t
  <2>3. Advanced(s.c, t.c) /\ SameHeader(s.c, t.c) /\ SameInput(s.c, t.c)
        /\ t.c.has_multiple_scans = s.c.has_multiple_scans /\ t.c.decompress = s.c.decompress
    BY <2>2 DEF Advanced, RowNext, SamePass, SameHeader
  <2>4. Decoding(file, t.c, t.pos, t.tables, t.coefs, b)
    BY <2>2, <2>3, DecodingSame
  <2>5. Shows(file, s.c, a, b, Emission(s.coefs, r))
    <3>1. s.c.decompress = "data" \/ s.c.decompress = "smooth"
      BY <1>0, <1>3 DEF Objects
    <3> QED
      BY <1>0, <1>3, <3>1, RowShown
  <2>6. Shows(file, t.c, a, b, Emission(t.coefs, r))
    <3>1. /\ DueOf(file, t.c, a, b) = DueOf(file, s.c, a, b)
          /\ DCDue(file, t.c, a, b) <=> DCDue(file, s.c, a, b)
      BY <2>3, SameDue
    <3> QED
      BY <2>2, <2>3, <2>5, <3>1 DEF Shows
  <2>7. Output(file, avail, s, t, a, b)
    BY <1>3, <2>2, <2>3, <2>4, <2>6 DEF Output, Emitted
  <2> QED
    BY <2>7 DEF t
<1> QED
  BY <1>1, <1>2, <1>3

-----------------------------------------------------------------------------
(* A step of input does not disturb the output pass.                         *)

LEMMA CompleteSame ==
  ASSUME NEW f, NEW c, NEW d, NEW a, NEW b, NEW q,
         d.has_multiple_scans = c.has_multiple_scans, d.decompress = c.decompress,
         Complete(f, c, a, b, q)
  PROVE  Complete(f, d, a, b, q)
<1>1. DueOf(f, d, a, b) = DueOf(f, c, a, b) /\ (DCDue(f, d, a, b) <=> DCDue(f, c, a, b))
  BY SameDue
<1> QED
  BY <1>1 DEF Complete

LEMMA CompleteNext ==
  ASSUME NEW f, NEW c, NEW a, NEW b, NEW q \in Seq(Emissions), Complete(f, c, a, b, q),
         NEW e, Shows(f, c, a, b, e)
  PROVE  /\ Complete(f, c, a, b, Append(q, e)) /\ Append(q, e) \in Seq(Emissions)
         /\ Len(Append(q, e)) = Len(q) + 1
<1>1. e \in Emissions
  BY DEF Shows
<1>2. Append(q, e) \in Seq(Emissions) /\ Len(Append(q, e)) = Len(q) + 1
  BY <1>1
<1>3. ASSUME NEW i \in 1..(Len(q) + 1)
      PROVE  (i \in 1..Len(q) /\ Append(q, e)[i] = q[i]) \/ Append(q, e)[i] = e
  BY <1>1
<1>4. Complete(f, c, a, b, Append(q, e))
  <2> DEFINE z == Append(q, e)
  <2>1. /\ Len(z) = Len(q) + 1
        /\ \A i \in 1..(Len(q) + 1) : (i \in 1..Len(q) /\ z[i] = q[i]) \/ z[i] = e
    BY <1>2, <1>3
  <2> HIDE DEF z
  <2>2. Complete(f, c, a, b, z)
    BY <2>1 DEF Complete, Shows
  <2> QED
    BY <2>2 DEF z
<1> QED
  BY <1>2, <1>4

LEMMA CompleteOne ==
  ASSUME NEW f, NEW c, NEW a, NEW b, NEW e, Shows(f, c, a, b, e)
  PROVE  Complete(f, c, a, b, <<e>>) /\ <<e>> \in Seq(Emissions) /\ Len(<<e>>) = 1
<1>1. Len(<<e>>) = 1 /\ <<e>>[1] = e /\ 1..1 = {1}
  OBVIOUS
<1>2. <<e>> \in Seq(Emissions)
  BY DEF Shows
<1> QED
  BY <1>1, <1>2 DEF Complete, Shows

OutputKept(c, d) ==
  /\ SameOutput(c, d) /\ d.has_multiple_scans = c.has_multiple_scans
  /\ c.decompress = "onepass" =>
       d.consume_input = c.consume_input /\ d.input_iMCU_row = c.input_iMCU_row

LEMMA MethodsKept ==
  ASSUME NEW c, NEW d, Methods(c), OutputKept(c, d)
  PROVE  Methods(d)
  BY DEF Methods, OutputKept, SameOutput

LEMMA PassingKept ==
  ASSUME NEW f, NEW c, NEW d, NEW a, NEW st, NEW sh, NEW b, Passing(f, c, a, st, sh, b),
         OutputKept(c, d), d.output_scan_number >= DueOf(f, d, a, b)
  PROVE  Passing(f, d, a, st, sh, b)
<1>1. /\ d.has_multiple_scans = c.has_multiple_scans /\ d.decompress = c.decompress
      /\ d.output_iMCU_row = c.output_iMCU_row /\ d.output_scanline = c.output_scanline
      /\ d.crank = c.crank /\ d.global_state = c.global_state
      /\ d.is_dummy_pass = c.is_dummy_pass
      /\ c.decompress = "onepass" =>
           d.consume_input = c.consume_input /\ d.input_iMCU_row = c.input_iMCU_row
  BY DEF OutputKept, SameOutput
<1>2. /\ Complete(f, c, a, b, st) => Complete(f, d, a, b, st)
      /\ Complete(f, c, a, b, sh) => Complete(f, d, a, b, sh)
  BY <1>1, CompleteSame
<1> QED
  BY <1>1, <1>2 DEF Passing

\* The target scan remains one that is enough.
LEMMA TargetKept ==
  ASSUME NEW f, Len(f.els) \in Nat, NEW av, NEW s, NEW t, NEW a \in Nat, NEW b,
         ImageStep(f, av, s, t, b), t.err = "none",
         s.c.output_scan_number >= DueOf(f, s.c, a, b)
  PROVE  t.c.output_scan_number >= DueOf(f, t.c, a, b)
<1>1. /\ t.c.has_multiple_scans = s.c.has_multiple_scans
      /\ Parsed(f, t.c, t.pos, t.tables, b) /\ t.c.inheaders = 0
      /\ \/ t.c.output_scan_number = s.c.output_scan_number
         \/ t.c.eoi_reached /\ t.c.output_scan_number = t.c.input_scan_number
  BY DEF ImageStep, Decoding
<1>2. DueOf(f, t.c, a, b) = DueOf(f, s.c, a, b)
  BY <1>1, SameDue
<1>3. /\ DueOf(f, t.c, a, b) \in Nat /\ t.c.input_scan_number \in Nat
      /\ t.c.eoi_reached => DueOf(f, t.c, a, b) <= t.c.input_scan_number
  BY <1>1, DueBound
<1> QED
  BY <1>1, <1>2, <1>3

-----------------------------------------------------------------------------
(* What a step of the library leaves.                                        *)

After(f, av, s, a, st, sh) ==
  /\ s \in Sessions(f, av)
  /\ s.err = "none" => Standing(f, s.c, s.pos, s.tables, s.coefs, a, st, sh)
  /\ s.err # "none" => Stopped(f, s.c, s.pos, a, sh) /\ DeservesAt(f, s.pos, s.err)

LEMMA StandingRuns ==
  ASSUME NEW f, NEW c, NEW p, NEW tb, NEW cs, NEW a \in Nat, NEW st, NEW sh, NEW b \in 1..p,
         a > 0, Methods(c), c.global_state \in Running, Decoding(f, c, p, tb, cs, b),
         c.global_state \in Outputs => Passing(f, c, a, st, sh, b)
  PROVE  Standing(f, c, p, tb, cs, a, st, sh)
<1>1. c.global_state \notin {"START", "INHEADER", "READY"}
  BY DEF Running, Outputs
<1> QED
  BY <1>1 DEF Standing

LEMMA DeservesThere ==
  ASSUME NEW f, NEW b, NEW p, NEW e, DeservesIn(f, b, p, e)
  PROVE  DeservesAt(f, p, e) /\ b \in 1..p /\ Begins(f, b, p)
<1>1. b \in 1..p /\ Begins(f, b, p) /\ e # "NO_SOI"
  BY DEF DeservesIn, Begins
<1> QED
  BY <1>1 DEF DeservesAt

\* A step of input in a state that lasts.
LEMMA RunningStep ==
  ASSUME Context, NEW s \in Sessions(file, avail), NEW a \in Nat, a > 0, NEW st, NEW sh, NEW b,
         Methods(s.c), s.c.global_state \in Running,
         s.c.global_state \in Outputs => Passing(file, s.c, a, st, sh, b),
         NEW t, ImageStep(file, avail, s, t, b)
  PROVE  After(file, avail, t, a, st, sh)
<1>0. t \in Sessions(file, avail) /\ Len(file.els) \in Nat
  BY DEF ImageStep, Context, Streams
<1>1. /\ t.c.global_state = s.c.global_state /\ t.c.decompress = s.c.decompress
      /\ t.c.has_multiple_scans = s.c.has_multiple_scans
  BY DEF ImageStep, SameOutput
<1>2. CASE t.err # "none"
  <2>1. /\ DeservesIn(file, b, t.pos, t.err)
        /\ t.c.input_scan_number = Cardinality(ScansOf(file, b, t.pos))
    BY <1>2 DEF ImageStep
  <2>2. b \in 1..t.pos /\ Begins(file, b, t.pos) /\ DeservesAt(file, t.pos, t.err)
    BY <2>1, DeservesThere
  <2>3. t.c.global_state = "SCANNING" => Complete(file, t.c, a, b, sh)
    <3> SUFFICES ASSUME t.c.global_state = "SCANNING" PROVE Complete(file, t.c, a, b, sh)
      OBVIOUS
    <3>1. Complete(file, s.c, a, b, sh)
      BY <1>1 DEF Passing, Outputs
    <3> QED
      BY <1>1, <3>1, CompleteSame
  <2>4. Stopped(file, t.c, t.pos, a, sh)
    BY <2>1, <2>2, <2>3 DEF Stopped
  <2> QED
    BY <1>0, <1>2, <2>2, <2>4 DEF After
<1>3. CASE t.err = "none"
  <2>1. Decoding(file, t.c, t.pos, t.tables, t.coefs, b)
    BY <1>3 DEF ImageStep
  <2>2. b \in 1..t.pos
    BY <2>1 DEF Decoding, Parsed, Begins
  <2>3. OutputKept(s.c, t.c)
    <3>1. s.c.decompress = "onepass" => ~s.c.has_multiple_scans
      BY DEF Methods
    <3> QED
      BY <1>3, <3>1 DEF ImageStep, OutputKept
  <2>4. Methods(t.c)
    BY <2>3, MethodsKept
  <2>5. t.c.global_state \in Outputs => Passing(file, t.c, a, st, sh, b)
    <3> SUFFICES ASSUME t.c.global_state \in Outputs PROVE Passing(file, t.c, a, st, sh, b)
      OBVIOUS
    <3>1. Passing(file, s.c, a, st, sh, b)
      BY <1>1
    <3>2. s.c.output_scan_number >= DueOf(file, s.c, a, b)
      BY <3>1 DEF Passing
    <3>3. t.c.output_scan_number >= DueOf(file, t.c, a, b)
      BY <1>0, <1>3, <3>2, TargetKept
    <3> QED
      BY <2>3, <3>1, <3>3, PassingKept
  <2>6. Standing(file, t.c, t.pos, t.tables, t.coefs, a, st, sh)
    BY <1>1, <2>1, <2>2, <2>4, <2>5, StandingRuns
  <2> QED
    BY <1>0, <1>3, <2>6 DEF After
<1> QED
  BY <1>2, <1>3

\* Another state and nothing else.
States == {"START", "INHEADER", "READY"} \cup Running
Moved(c, d, g) ==
  /\ d \in Objects /\ d.global_state = g /\ SameHeader(c, d) /\ SameInput(c, d) /\ SamePass(c, d)
  /\ d.output_iMCU_row = c.output_iMCU_row

LEMMA StateSet ==
  ASSUME NEW s \in Sessions(file, avail), NEW g \in States
  PROVE  LET t == [s EXCEPT !.c.global_state = g]
         IN  /\ t \in Sessions(file, avail) /\ t.pos = s.pos /\ t.tables = s.tables
             /\ t.coefs = s.coefs /\ t.err = s.err /\ t.ret = s.ret /\ Moved(s.c, t.c, g)
<1> DEFINE d == [s.c EXCEPT !.global_state = g]
           t == [s EXCEPT !.c.global_state = g]
<1>0. s.c \in Objects
  BY DEF Sessions
<1>1. t = [s EXCEPT !.c = d]
  OBVIOUS
<1>2. d \in Objects /\ d.global_state = g /\ d.output_iMCU_row = s.c.output_iMCU_row
  BY <1>0 DEF Objects, States, Running, Outputs
<1>3. SameHeader(s.c, d) /\ SameInput(s.c, d) /\ SamePass(s.c, d)
  BY <1>0 DEF Objects, SameHeader, SameInput, SamePass
<1>4. Moved(s.c, d, g)
  BY <1>2, <1>3 DEF Moved
<1> HIDE DEF d, t
<1>5. /\ t \in Sessions(file, avail) /\ t.pos = s.pos /\ t.tables = s.tables
      /\ t.coefs = s.coefs /\ t.err = s.err /\ t.ret = s.ret /\ t.c = d
  BY <1>1, <1>2 DEF Sessions
<1> QED
  BY <1>4, <1>5 DEF t

\* A step of input on the way out of an output pass, or of the image.
LEMMA RunningMoves ==
  ASSUME Context, NEW s \in Sessions(file, avail), NEW a \in Nat, a > 0, NEW st, NEW sh, NEW b,
         Methods(s.c), ~s.c.is_dummy_pass, NEW g \in {"BUFPOST", "STOPPING", "BUFIMAGE"},
         g \in {"BUFPOST", "BUFIMAGE"} => s.c.buffered_image,
         NEW t, ImageStep(file, avail, s, t, b)
  PROVE  After(file, avail, [t EXCEPT !.c.global_state = g], a, st, sh)
<1> DEFINE u == [t EXCEPT !.c.global_state = g]
<1>0. t \in Sessions(file, avail) /\ g \in States /\ g \in Running /\ g \notin Outputs
      /\ g \notin {"SCANNING", "PRESCAN", "PRELOAD"}
  BY DEF ImageStep, States, Running, Outputs
<1>1. /\ u \in Sessions(file, avail) /\ u.pos = t.pos /\ u.tables = t.tables
      /\ u.coefs = t.coefs /\ u.err = t.err /\ u.ret = t.ret /\ Moved(t.c, u.c, g)
  BY <1>0, StateSet
<1> HIDE DEF u
<1>2. /\ u.c.global_state = g /\ SameHeader(t.c, u.c) /\ SameInput(t.c, u.c)
      /\ u.c.input_scan_number = t.c.input_scan_number
  BY <1>1 DEF Moved, SameHeader
<1>3. CASE u.err # "none"
  <2>1. /\ DeservesIn(file, b, u.pos, u.err)
        /\ u.c.input_scan_number = Cardinality(ScansOf(file, b, u.pos))
    BY <1>1, <1>2, <1>3 DEF ImageStep
  <2>2. b \in 1..u.pos /\ Begins(file, b, u.pos) /\ DeservesAt(file, u.pos, u.err)
    BY <2>1, DeservesThere
  <2>3. Stopped(file, u.c, u.pos, a, sh)
    BY <1>0, <1>2, <2>1, <2>2 DEF Stopped
  <2>4. After(file, avail, u, a, st, sh)
    BY <1>1, <1>3, <2>2, <2>3 DEF After
  <2> QED
    BY <2>4 DEF u
<1>4. CASE u.err = "none"
  <2>1. Decoding(file, t.c, t.pos, t.tables, t.coefs, b)
    BY <1>1, <1>4 DEF ImageStep
  <2>2. Decoding(file, u.c, u.pos, u.tables, u.coefs, b)
    BY <1>1, <1>2, <2>1, DecodingSame
  <2>3. b \in 1..u.pos
    BY <2>2 DEF Decoding, Parsed, Begins
  <2>4. Methods(u.c)
    <3>1. /\ u.c.is_dummy_pass = s.c.is_dummy_pass /\ u.c.decompress = s.c.decompress
          /\ u.c.has_multiple_scans = s.c.has_multiple_scans
          /\ u.c.buffered_image = s.c.buffered_image
      BY <1>1 DEF ImageStep, SameOutput, Moved, SamePass, SameHeader
    <3> QED
      BY <1>0, <1>2, <3>1 DEF Methods
  <2>5. Standing(file, u.c, u.pos, u.tables, u.coefs, a, st, sh)
    BY <1>0, <1>2, <2>2, <2>3, <2>4, StandingRuns
  <2>6. After(file, avail, u, a, st, sh)
    BY <1>1, <1>4, <2>5 DEF After
  <2> QED
    BY <2>6 DEF u
<1> QED
  BY <1>3, <1>4

-----------------------------------------------------------------------------
(* The beginning of an output pass.                                          *)

PassStarts(c, d) ==
  /\ d \in Objects /\ SameHeader(c, d) /\ SameInput(c, d)
  /\ d.output_scan_number = c.output_scan_number /\ d.buffered_image = c.buffered_image
  /\ d.global_state = "PRESCAN" /\ ~d.crank /\ d.output_iMCU_row = 0 /\ d.output_scanline = 0
  /\ d.decompress # "none" /\ (d.decompress = "onepass" <=> c.decompress = "onepass")

LEMMA PassSet ==
  ASSUME NEW s \in Sessions(file, avail), ~s.c.is_dummy_pass
  PROVE  LET t == PassSetup(s)
         IN  /\ t \in Sessions(file, avail) /\ t.pos = s.pos /\ t.tables = s.tables
             /\ t.coefs = s.coefs /\ t.err = s.err /\ t.ret = s.ret /\ PassStarts(s.c, t.c)
<1> DEFINE x == s.c.two_pass /\ ~s.c.colormap
           y == IF s.c.decompress = "onepass" THEN "onepass"
                ELSE IF s.c.smoothing /\ s.c.progressive_mode THEN "smooth" ELSE "data"
           d == [s.c EXCEPT !.is_dummy_pass = x, !.crank = FALSE, !.output_iMCU_row = 0,
                            !.output_scanline = 0, !.decompress = y, !.global_state = "PRESCAN"]
           t == PassSetup(s)
<1>0. s.c \in Objects
  BY DEF Sessions
<1>1. x \in BOOLEAN /\ y \in {"onepass", "smooth", "data"}
      /\ (y = "onepass" <=> s.c.decompress = "onepass")
  BY <1>0 DEF Objects
<1>2. t = [s EXCEPT !.c = d]
  <2>1. PrepareForOutputPass(s.c) =
          [s.c EXCEPT !.is_dummy_pass = x, !.crank = FALSE, !.output_iMCU_row = 0,
                      !.output_scanline = 0, !.decompress = y]
    BY <1>0 DEF PrepareForOutputPass, Objects
  <2> HIDE DEF x, y
  <2> QED
    BY <2>1 DEF PassSetup
<1> HIDE DEF x, y
<1>3. /\ d \in Objects /\ d.global_state = "PRESCAN" /\ ~d.crank /\ d.output_iMCU_row = 0
      /\ d.output_scanline = 0 /\ d.decompress = y
  BY <1>0, <1>1, ZenonT(40) DEF Objects
<1>4. /\ SameHeader(s.c, d) /\ SameInput(s.c, d)
      /\ d.output_scan_number = s.c.output_scan_number /\ d.buffered_image = s.c.buffered_image
  BY <1>0 DEF Objects, SameHeader, SameInput
<1>5. PassStarts(s.c, d)
  BY <1>1, <1>3, <1>4 DEF PassStarts
<1> HIDE DEF d, t
<1>6. /\ t \in Sessions(file, avail) /\ t.pos = s.pos /\ t.tables = s.tables
      /\ t.coefs = s.coefs /\ t.err = s.err /\ t.ret = s.ret /\ t.c = d
  BY <1>2, <1>3 DEF Sessions
<1> QED
  BY <1>5, <1>6 DEF t

LEMMA PassAfter ==
  ASSUME Context, NEW s \in Sessions(file, avail), s.err = "none", NEW a \in Nat, a > 0,
         NEW st, NEW sh, NEW b, Methods(s.c), s.c.global_state \in {"PRELOAD", "BUFIMAGE"},
         Decoding(file, s.c, s.pos, s.tables, s.coefs, b),
         s.c.output_scan_number >= DueOf(file, s.c, a, b)
  PROVE  After(file, avail, PassSetup(s), a, st, sh)
<1> DEFINE t == PassSetup(s)
<1>0. ~s.c.is_dummy_pass
  BY DEF Methods
<1>1. /\ t \in Sessions(file, avail) /\ t.pos = s.pos /\ t.tables = s.tables
      /\ t.coefs = s.coefs /\ t.err = "none" /\ PassStarts(s.c, t.c)
  BY <1>0, PassSet
<1> HIDE DEF t
<1>2. /\ SameHeader(s.c, t.c) /\ SameInput(s.c, t.c) /\ t.c.global_state = "PRESCAN"
      /\ t.c.has_multiple_scans = s.c.has_multiple_scans
      /\ t.c.buffered_image = s.c.buffered_image /\ t.c.decompress # "none"
      /\ (t.c.decompress = "onepass" <=> s.c.decompress = "onepass")
      /\ t.c.output_scan_number = s.c.output_scan_number /\ ~t.c.crank
      /\ t.c.output_iMCU_row = 0 /\ t.c.output_scanline = 0
  BY <1>1 DEF PassStarts, SameHeader
<1>3. Decoding(file, t.c, t.pos, t.tables, t.coefs, b)
  BY <1>1, <1>2, DecodingSame
<1>4. b \in 1..t.pos
  BY <1>3 DEF Decoding, Parsed, Begins
<1>5. Methods(t.c)
  BY <1>2 DEF Methods
<1>6. t.c.decompress = "onepass" => t.c.consume_input = "data" /\ t.c.input_iMCU_row = 0
  <2> SUFFICES ASSUME t.c.decompress = "onepass"
               PROVE  t.c.consume_input = "data" /\ t.c.input_iMCU_row = 0
    OBVIOUS
  <2>1. s.c.decompress = "onepass" /\ s.c.global_state = "PRELOAD"
    BY <1>2 DEF Methods
  <2> QED
    BY <1>2, <2>1 DEF Methods, SameInput
<1>7. t.c.output_scan_number >= DueOf(file, t.c, a, b)
  BY <1>2, SameDue
<1>8. file.rows \in Nat /\ file.rows > 0
  BY DEF Context, Streams, Positive
<1>9. Passing(file, t.c, a, st, sh, b)
  BY <1>2, <1>6, <1>7, <1>8 DEF Passing
<1>10. Standing(file, t.c, t.pos, t.tables, t.coefs, a, st, sh)
  BY <1>2, <1>3, <1>4, <1>5, <1>9, StandingRuns DEF Running, Outputs
<1>11. After(file, avail, t, a, st, sh)
  BY <1>1, <1>10 DEF After
<1> QED
  BY <1>11 DEF t

\* Another target scan and nothing else.
Aimed(c, d, x) ==
  /\ d \in Objects /\ SameHeader(c, d) /\ SameInput(c, d) /\ SameOutput(c, d)
  /\ d.output_scan_number = x

LEMMA TargetSet ==
  ASSUME NEW c \in Objects, NEW x \in Nat
  PROVE  Aimed(c, [c EXCEPT !.output_scan_number = x], x)
<1> DEFINE d == [c EXCEPT !.output_scan_number = x]
<1>1. d \in Objects /\ d.output_scan_number = x
  BY DEF Objects
<1>2. SameHeader(c, d) /\ SameInput(c, d) /\ SameOutput(c, d)
  BY DEF Objects, SameHeader, SameInput, SameOutput
<1> QED
  BY <1>1, <1>2 DEF Aimed

\* jpeg_start_output and output_pass_setup aim at a scan that is enough.
LEMMA TargetEnough ==
  ASSUME NEW f, Len(f.els) \in Nat, NEW c, NEW p, NEW tb, NEW cs, NEW b, NEW a \in Nat,
         Decoding(f, c, p, tb, cs, b)
  PROVE  Target(c, a) \in Nat /\ Target(c, a) >= DueOf(f, c, a, b)
<1>1. /\ DueOf(f, c, a, b) \in Nat /\ DueOf(f, c, a, b) <= a /\ c.input_scan_number \in Nat
      /\ c.eoi_reached => DueOf(f, c, a, b) <= c.input_scan_number
  BY DueBound DEF Decoding
<1> HIDE DEF DueOf
<1> QED
  BY <1>1 DEF Target

-----------------------------------------------------------------------------
(* The library's entry points.                                               *)

LEMMA SessionIs ==
  ASSUME Types
  PROVE  /\ Context /\ Session \in Sessions(file, avail) /\ Session.c = cinfo
         /\ Session.pos = pos /\ Session.tables = tables /\ Session.coefs = coefs
         /\ Session.err = "none" /\ Len(file.els) \in Nat
  BY DEF Types, Context, Session, Sessions, Returns, Errors, Streams

LEMMA Leaves ==
  ASSUME DecoderInv, NEW s, NEW next, NEW a \in Nat, NEW st \in Seq(Emissions),
         NEW sh \in Seq(Emissions), After(file, avail, s, a, st, sh), Leaving(s, next),
         asked' = a, strip' = st, shown' = sh
  PROVE  DecoderInv'
<1>1. /\ cinfo' = s.c /\ pos' = s.pos /\ tables' = s.tables /\ coefs' = s.coefs
      /\ error' = s.err /\ file' = file /\ avail' = avail
  BY DEF Leaving
<1>2. /\ s.c \in Objects /\ s.pos \in 0..avail /\ s.tables \in BOOLEAN
      /\ s.coefs \in Arrays(file) /\ s.err \in Errors
  BY DEF After, Sessions
<1>3. Types'
  BY <1>1, <1>2 DEF DecoderInv, Types
<1>4. /\ s.err = "none" => Standing(file, s.c, s.pos, s.tables, s.coefs, a, st, sh)
      /\ s.err # "none" => Stopped(file, s.c, s.pos, a, sh) /\ DeservesAt(file, s.pos, s.err)
  BY DEF After
<1> HIDE DEF Types
<1> QED
  BY <1>1, <1>3, <1>4 DEF DecoderInv

\* What the invariant says of a call.
LEMMA Called ==
  ASSUME DecoderInv, error = "none"
  PROVE  /\ Types /\ Standing(file, cinfo, pos, tables, coefs, asked, strip, shown)
         /\ Context /\ Session \in Sessions(file, avail) /\ Session.c = cinfo
         /\ Session.pos = pos /\ Session.tables = tables /\ Session.coefs = coefs
         /\ Session.err = "none" /\ Len(file.els) \in Nat /\ cinfo \in Objects
         /\ asked \in Nat /\ strip \in Seq(Emissions) /\ shown \in Seq(Emissions)
<1>1. Types
  BY DEF DecoderInv
<1>2. cinfo \in Objects /\ asked \in Nat /\ strip \in Seq(Emissions) /\ shown \in Seq(Emissions)
  BY <1>1 DEF Types
<1>3. Standing(file, cinfo, pos, tables, coefs, asked, strip, shown)
  BY DEF DecoderInv
<1> QED
  BY <1>1, <1>2, <1>3, SessionIs

LEMMA CalledRunning ==
  ASSUME DecoderInv, error = "none", cinfo.global_state \in Running
  PROVE  /\ asked > 0 /\ Methods(cinfo)
         /\ \E b \in 1..pos :
              /\ Decoding(file, cinfo, pos, tables, coefs, b)
              /\ cinfo.global_state \in Outputs => Passing(file, cinfo, asked, strip, shown, b)
  BY Called DEF Standing

\* Any call's step of input in a state that lasts.
LEMMA InputInState ==
  ASSUME DecoderInv, error = "none", cinfo.global_state \in Running
  PROVE  After(file, avail, Consume(Session), asked, strip, shown)
<1>1. PICK b \in 1..pos :
        /\ Decoding(file, cinfo, pos, tables, coefs, b)
        /\ cinfo.global_state \in Outputs => Passing(file, cinfo, asked, strip, shown, b)
  BY CalledRunning
<1>2. /\ Context /\ Session \in Sessions(file, avail) /\ Session.c = cinfo
      /\ Session.pos = pos /\ Session.tables = tables /\ Session.coefs = coefs
      /\ Session.err = "none" /\ asked \in Nat
  BY Called
<1>3. ImageStep(file, avail, Session, Consume(Session), b)
  BY <1>1, <1>2, Consumed
<1> QED
  BY <1>1, <1>2, <1>3, CalledRunning, RunningStep

-----------------------------------------------------------------------------
(* The header.                                                               *)

LEMMA ResetIs ==
  ASSUME NEW c \in Objects
  PROVE  LET d == Reset(c)
         IN  /\ d \in Objects /\ Fresh(d) /\ d.consume_input = "markers"
             /\ d.global_state = "INHEADER"
<1> DEFINE c1 == [c EXCEPT !.global_state = "INHEADER", !.consume_input = "markers",
                           !.decompress = "none", !.has_multiple_scans = FALSE]
           one == 1
           c2 == [c1 EXCEPT !.eoi_reached = FALSE, !.inheaders = one]
           d == [c2 EXCEPT !.saw_SOI = FALSE, !.saw_SOF = FALSE, !.input_scan_number = 0]
<1>1. Reset(c) = d
  BY DEF Reset
<1>2. /\ c1 \in Objects /\ c1.global_state = "INHEADER" /\ c1.consume_input = "markers"
      /\ ~c1.has_multiple_scans
  BY ZenonT(40) DEF Objects
<1>0. one \in 0..2
  OBVIOUS
<1> HIDE DEF c1, one
<1>3. /\ c2 \in Objects /\ c2.global_state = "INHEADER" /\ c2.consume_input = "markers"
      /\ ~c2.has_multiple_scans /\ ~c2.eoi_reached /\ c2.inheaders = one
  BY <1>0, <1>2 DEF Objects
<1> HIDE DEF c2
<1>4. d \in Objects
  BY <1>3 DEF Objects
<1>5. Fresh(d) /\ d.consume_input = "markers" /\ d.global_state = "INHEADER"
  BY <1>3 DEF Objects, Fresh, one
<1> HIDE DEF d
<1> QED
  BY <1>1, <1>4, <1>5 DEF one

LEMMA AbortedIs ==
  ASSUME Context, NEW s \in Sessions(file, avail)
  PROVE  /\ Aborted(s) \in Sessions(file, avail) /\ Aborted(s).pos = s.pos
         /\ Aborted(s).tables = s.tables /\ Aborted(s).err = s.err
         /\ Aborted(s).c.global_state = "START"
<1> DEFINE d == [s.c EXCEPT !.global_state = "START"]
           t == Aborted(s)
<1>1. d \in Objects /\ d.global_state = "START"
  BY DEF Sessions, Objects
<1>2. Blank \in Arrays(file)
  BY DEF Blank, Arrays, Rows, RowsOf, Cols, ColsOf
<1>3. t = [s EXCEPT !.c = d, !.coefs = Blank]
  BY DEF Aborted
<1> HIDE DEF d, t
<1>4. /\ t \in Sessions(file, avail) /\ t.pos = s.pos /\ t.tables = s.tables /\ t.err = s.err
      /\ t.c = d
  BY <1>1, <1>2, <1>3 DEF Sessions
<1> QED
  BY <1>1, <1>4 DEF t

\* jpeg_consume_input up to the first SOS.
LEMMA HeaderLeaves ==
  ASSUME DecoderInv, error = "none", cinfo.global_state \in {"START", "INHEADER"}
  PROVE  /\ After(file, avail, HeaderInput, asked, strip, shown)
         /\ HeaderInput \in Sessions(file, avail)
         /\ HeaderInput.ret = "EOI" => HeaderInput.err = "none" /\ BetweenImages(file, HeaderInput.pos)
<1> DEFINE h == IF State({"START"}) THEN [Session EXCEPT !.c = Reset(@)] ELSE Session
           t == Consume(h)
           x == HeaderInput
<1>0. /\ Context /\ Session \in Sessions(file, avail) /\ Session.c = cinfo
      /\ Session.pos = pos /\ Session.tables = tables /\ Session.err = "none"
      /\ Standing(file, cinfo, pos, tables, coefs, asked, strip, shown) /\ cinfo \in Objects
  BY Called
<1>1. /\ h \in Sessions(file, avail) /\ h.err = "none" /\ h.c.global_state = "INHEADER"
      /\ h.c.consume_input = "markers" /\ Heading(file, h.c, h.pos, h.tables)
  <2>1. CASE cinfo.global_state = "START"
    <3> DEFINE d == Reset(cinfo)
    <3>1. d \in Objects /\ Fresh(d) /\ d.consume_input = "markers" /\ d.global_state = "INHEADER"
      BY <1>0, ResetIs
    <3>2. h = [Session EXCEPT !.c = d]
      BY <1>0, <2>1 DEF State
    <3> HIDE DEF d, h
    <3>3. h \in Sessions(file, avail) /\ h.err = "none" /\ h.c = d /\ h.pos = pos /\ h.tables = tables
      BY <1>0, <3>1, <3>2 DEF Sessions
    <3>4. BetweenImages(file, pos)
      BY <1>0, <2>1 DEF Standing
    <3> QED
      BY <3>1, <3>3, <3>4 DEF Heading
  <2>2. CASE cinfo.global_state = "INHEADER"
    <3>1. h = Session
      BY <2>2 DEF State
    <3>2. Heading(file, cinfo, pos, tables)
      BY <1>0, <2>2 DEF Standing
    <3> QED
      BY <1>0, <2>2, <3>1, <3>2 DEF Heading
  <2> QED
    BY <2>1, <2>2
<1>2. x = IF t.ret = "SOS" THEN [t EXCEPT !.c.global_state = "READY"] ELSE t
  BY DEF HeaderInput
<1> HIDE DEF h
<1>3. HeaderStep(file, avail, h, t)
  <2>1. t = ConsumeMarkers(h)
    BY <1>1 DEF Consume
  <2> QED
    BY <1>0, <1>1, <2>1, HeaderMarkers
<1> HIDE DEF t, x
<1>4. t \in Sessions(file, avail) /\ t.c.global_state = "INHEADER"
  BY <1>1, <1>3 DEF HeaderStep
<1>5. CASE t.err # "none"
  <2>1. t.ret = "error" /\ DeservesAt(file, t.pos, t.err)
    BY <1>3, <1>5 DEF HeaderStep
  <2>2. x = t
    BY <1>2, <2>1
  <2>3. Stopped(file, t.c, t.pos, asked, shown)
    BY <1>4 DEF Stopped, Running, Outputs
  <2>4. After(file, avail, x, asked, strip, shown)
    BY <1>4, <1>5, <2>1, <2>2, <2>3 DEF After
  <2> QED
    BY <1>4, <2>1, <2>2, <2>4 DEF x
<1>6. CASE t.err = "none" /\ t.ret = "SOS"
  <2>1. PICK b \in 1..t.pos : Ready(file, t.c, t.pos, t.tables, b)
    BY <1>3, <1>6 DEF HeaderStep
  <2>2. x = [t EXCEPT !.c.global_state = "READY"] /\ "READY" \in States
    BY <1>2, <1>6 DEF States
  <2>3. /\ x \in Sessions(file, avail) /\ x.pos = t.pos /\ x.tables = t.tables
        /\ x.err = "none" /\ x.ret = "SOS" /\ Moved(t.c, x.c, "READY")
    BY <1>4, <1>6, <2>2, StateSet
  <2>4. Ready(file, x.c, x.pos, x.tables, b)
    <3>1. SameHeader(t.c, x.c) /\ SameInput(t.c, x.c)
      BY <2>3 DEF Moved
    <3>2. Parsed(file, x.c, x.pos, x.tables, b)
      BY <2>1, <2>3, <3>1, ParsedSame DEF Ready
    <3> QED
      BY <2>1, <2>3, <3>1, <3>2 DEF Ready, SameHeader, SameInput
  <2>5. Standing(file, x.c, x.pos, x.tables, x.coefs, asked, strip, shown)
    BY <2>3, <2>4 DEF Standing, Moved, Running, Outputs
  <2>6. After(file, avail, x, asked, strip, shown)
    BY <2>3, <2>5 DEF After
  <2> QED
    BY <2>3, <2>6 DEF x
<1>7. CASE t.err = "none" /\ t.ret # "SOS"
  <2>1. Heading(file, t.c, t.pos, t.tables) /\ (t.ret = "EOI" => BetweenImages(file, t.pos))
    BY <1>3, <1>7 DEF HeaderStep
  <2>2. x = t
    BY <1>2, <1>7
  <2>3. Standing(file, t.c, t.pos, t.tables, t.coefs, asked, strip, shown)
    BY <1>4, <2>1 DEF Standing, Running, Outputs
  <2>4. After(file, avail, x, asked, strip, shown)
    BY <1>4, <1>7, <2>2, <2>3 DEF After
  <2> QED
    BY <1>4, <1>7, <2>1, <2>2, <2>4 DEF x
<1> QED
  BY <1>5, <1>6, <1>7

\* An object without an image, where the next one may begin.
LEMMA StartAfter ==
  ASSUME Context, NEW s \in Sessions(file, avail), s.err = "none", BetweenImages(file, s.pos),
         NEW a, NEW st, NEW sh
  PROVE  After(file, avail, Aborted(s), a, st, sh)
<1> DEFINE t == Aborted(s)
<1>1. /\ t \in Sessions(file, avail) /\ t.pos = s.pos /\ t.err = "none"
      /\ t.c.global_state = "START"
  BY AbortedIs
<1> HIDE DEF t
<1>2. Standing(file, t.c, t.pos, t.tables, t.coefs, a, st, sh)
  BY <1>1 DEF Standing, Running, Outputs
<1>3. After(file, avail, t, a, st, sh)
  BY <1>1, <1>2 DEF After
<1> QED
  BY <1>3 DEF t

LEMMA StepReadHeader == ASSUME DecoderInv, ReadHeader PROVE DecoderInv'
<1> DEFINE s == HeaderInput
           u == IF s.ret = "EOI" THEN Aborted(s) ELSE s
           n == IF s.ret = "more" THEN "read_header" ELSE "none"
<1>1. error = "none" /\ cinfo.global_state \in {"START", "INHEADER"}
  BY DEF ReadHeader, Calling, State
<1>2. Leaving(u, n) /\ asked' = asked /\ strip' = strip /\ shown' = shown
  BY DEF ReadHeader
<1>3. /\ After(file, avail, s, asked, strip, shown) /\ s \in Sessions(file, avail)
      /\ s.ret = "EOI" => s.err = "none" /\ BetweenImages(file, s.pos)
  BY <1>1, HeaderLeaves
<1>4. Context /\ asked \in Nat /\ strip \in Seq(Emissions) /\ shown \in Seq(Emissions)
  BY <1>1, Called
<1> HIDE DEF s
<1>5. After(file, avail, u, asked, strip, shown)
  BY <1>3, <1>4, StartAfter
<1> HIDE DEF u, n
<1> QED
  BY <1>2, <1>4, <1>5, Leaves

LEMMA StepConsumeInput == ASSUME DecoderInv, ConsumeInput PROVE DecoderInv'
<1> DEFINE s == IF State({"START", "INHEADER"}) THEN HeaderInput ELSE Consume(Session)
           n == IF s.ret = "more" THEN "consume_input" ELSE "none"
<1>1. error = "none" /\ cinfo.global_state # "READY"
  BY DEF ConsumeInput, Calling, State
<1>2. Leaving(s, n) /\ asked' = asked /\ strip' = strip /\ shown' = shown
  BY DEF ConsumeInput
<1>3. Context /\ asked \in Nat /\ strip \in Seq(Emissions) /\ shown \in Seq(Emissions)
      /\ cinfo \in Objects
  BY <1>1, Called
<1>4. After(file, avail, s, asked, strip, shown)
  <2>1. CASE cinfo.global_state \in {"START", "INHEADER"}
    <3>1. s = HeaderInput
      BY <2>1 DEF State
    <3> QED
      BY <1>1, <2>1, <3>1, HeaderLeaves
  <2>2. CASE cinfo.global_state \notin {"START", "INHEADER"}
    <3>1. s = Consume(Session)
      BY <2>2 DEF State
    <3>2. cinfo.global_state \in Running
      BY <1>1, <1>3, <2>2 DEF Objects, Running, Outputs
    <3> QED
      BY <1>1, <3>1, <3>2, InputInState
  <2> QED
    BY <2>1, <2>2
<1> HIDE DEF s, n
<1> QED
  BY <1>2, <1>3, <1>4, Leaves

-----------------------------------------------------------------------------
(* jpeg_start_decompress.                                                    *)

\* What master_selection settles.
Selected(c, set, d) ==
  /\ d \in Objects /\ SameHeader(c, d) /\ SameInput(c, d)
  /\ d.buffered_image = set.buffered_image /\ ~d.is_dummy_pass /\ d.decompress # "none"
  /\ d.decompress = "onepass" <=> ~c.has_multiple_scans /\ ~set.buffered_image
  /\ d.global_state = IF set.buffered_image THEN "BUFIMAGE" ELSE "PRELOAD"

LEMMA Selection ==
  ASSUME NEW c \in Objects,
         NEW set \in [buffered_image : BOOLEAN, two_pass : BOOLEAN, smoothing : BOOLEAN]
  PROVE  Selected(c, set,
           [c EXCEPT !.buffered_image = set.buffered_image, !.two_pass = set.two_pass,
                     !.smoothing = set.smoothing, !.colormap = FALSE, !.is_dummy_pass = FALSE,
                     !.decompress = IF ~c.has_multiple_scans /\ ~set.buffered_image
                                    THEN "onepass" ELSE "data",
                     !.global_state = IF set.buffered_image THEN "BUFIMAGE" ELSE "PRELOAD"])
<1> DEFINE x == IF ~c.has_multiple_scans /\ ~set.buffered_image THEN "onepass" ELSE "data"
           g == IF set.buffered_image THEN "BUFIMAGE" ELSE "PRELOAD"
           c1 == [c EXCEPT !.buffered_image = set.buffered_image, !.two_pass = set.two_pass,
                           !.smoothing = set.smoothing, !.colormap = FALSE]
           d == [c1 EXCEPT !.is_dummy_pass = FALSE, !.decompress = x, !.global_state = g]
<1>1. x \in {"onepass", "data"} /\ g \in {"BUFIMAGE", "PRELOAD"}
      /\ (x = "onepass" <=> ~c.has_multiple_scans /\ ~set.buffered_image)
  OBVIOUS
<1>0. g \in States
  BY DEF States, Running
<1>2. /\ c1 \in Objects /\ c1.buffered_image = set.buffered_image
      /\ SameHeader(c, c1) /\ SameInput(c, c1)
  BY ZenonT(40) DEF Objects, SameHeader, SameInput
<1>3. d = [c EXCEPT !.buffered_image = set.buffered_image, !.two_pass = set.two_pass,
                    !.smoothing = set.smoothing, !.colormap = FALSE, !.is_dummy_pass = FALSE,
                    !.decompress = x, !.global_state = g]
  OBVIOUS
<1> HIDE DEF x, g, c1
<1>4. /\ d \in Objects /\ d.buffered_image = set.buffered_image /\ ~d.is_dummy_pass
      /\ d.decompress = x /\ d.global_state = g
  <2>1. d \in Objects
    <3> DEFINE c2 == [c1 EXCEPT !.is_dummy_pass = FALSE, !.decompress = x]
    <3>1. c2 \in Objects
      BY <1>1, <1>2, ZenonT(40) DEF Objects
    <3>2. d = [c2 EXCEPT !.global_state = g]
      OBVIOUS
    <3> HIDE DEF c2, d
    <3> QED
      BY <1>0, <3>1, <3>2 DEF Objects, States, Running, Outputs
  <2>2. d.buffered_image = c1.buffered_image
    BY <1>2 DEF Objects
  <2>3. ~d.is_dummy_pass /\ d.decompress = x /\ d.global_state = g
    BY <1>2 DEF Objects
  <2> QED
    BY <1>2, <2>1, <2>2, <2>3
<1>5. SameHeader(c1, d) /\ SameInput(c1, d)
  BY <1>2 DEF Objects, SameHeader, SameInput
<1>6. SameHeader(c, d) /\ SameInput(c, d)
  BY <1>2, <1>5 DEF SameHeader, SameInput
<1> HIDE DEF d
<1>7. Selected(c, set, d)
  BY <1>1, <1>4, <1>6 DEF Selected, g
<1> QED
  BY <1>3, <1>7 DEF x, g

LEMMA StepStartDecompress ==
  ASSUME DecoderInv, NEW set \in Settings, StartDecompress(set)
  PROVE  DecoderInv'
<1> DEFINE lockstep == ~cinfo.has_multiple_scans /\ ~set.buffered_image
           c == [cinfo EXCEPT
                   !.buffered_image = set.buffered_image, !.two_pass = set.two_pass,
                   !.smoothing = set.smoothing, !.colormap = FALSE, !.is_dummy_pass = FALSE,
                   !.decompress = IF lockstep THEN "onepass" ELSE "data",
                   !.global_state = IF set.buffered_image THEN "BUFIMAGE" ELSE "PRELOAD"]
           s == [Session EXCEPT !.c = c, !.coefs = Blank]
           t == StartInputPass(s)
           n == IF set.buffered_image THEN "none" ELSE "start_decompress"
           a == Len(file.els)
<1>0. /\ error = "none" /\ cinfo.global_state = "READY"
      /\ Leaving(t, n) /\ asked' = a /\ strip' = strip /\ shown' = shown
  BY DEF StartDecompress, Calling, State
<1>1. /\ Context /\ Session \in Sessions(file, avail) /\ Session.c = cinfo
      /\ Session.pos = pos /\ Session.tables = tables
      /\ Session.err = "none" /\ a \in Nat /\ a > 0 /\ cinfo \in Objects
      /\ strip \in Seq(Emissions) /\ shown \in Seq(Emissions)
      /\ Standing(file, cinfo, pos, tables, coefs, asked, strip, shown)
  <2>1. a \in Nat /\ a > 0
    BY <1>0, Called DEF Context
  <2> QED
    BY <1>0, <2>1, Called
<1>2. Selected(cinfo, set, c)
  <2>1. set \in [buffered_image : BOOLEAN, two_pass : BOOLEAN, smoothing : BOOLEAN]
    BY SettingAssumption
  <2> QED
    BY <1>1, <2>1, Selection
<1>3. Blank \in Arrays(file) /\ \A r \in RowsOf(file), k \in ColsOf(file) : Blank[r][k] = 0
  BY DEF Blank, Arrays, Rows, RowsOf, Cols, ColsOf
<1>4. PICK b \in 1..pos : Ready(file, cinfo, pos, tables, b)
  BY <1>0, <1>1 DEF Standing
<1> HIDE DEF c
<1>5. /\ s \in Sessions(file, avail) /\ s.c = c /\ s.pos = pos /\ s.tables = tables
      /\ s.coefs = Blank /\ s.err = "none"
  BY <1>1, <1>2, <1>3 DEF Sessions, Selected
<1>6. /\ c \in Objects /\ SameHeader(cinfo, c) /\ SameInput(cinfo, c)
      /\ c.buffered_image = set.buffered_image /\ ~c.is_dummy_pass /\ c.decompress # "none"
      /\ c.decompress = "onepass" <=> ~cinfo.has_multiple_scans /\ ~set.buffered_image
      /\ c.global_state = IF set.buffered_image THEN "BUFIMAGE" ELSE "PRELOAD"
  BY <1>2 DEF Selected
<1>7. /\ Parsed(file, c, pos, tables, b) /\ c.inheaders = 0 /\ ~c.eoi_reached
      /\ c.input_scan_number = 1 /\ Real(file, pos) /\ c.Ss = file.els[pos].Ss
      /\ c.has_multiple_scans = cinfo.has_multiple_scans
  <2>1. /\ Parsed(file, cinfo, pos, tables, b) /\ cinfo.inheaders = 0
        /\ cinfo.input_scan_number = 1 /\ Real(file, pos) /\ cinfo.Ss = file.els[pos].Ss
    BY <1>4 DEF Ready
  <2>2. Parsed(file, c, pos, tables, b)
    BY <1>6, <2>1, ParsedSame
  <2>3. ~c.eoi_reached
    BY <2>1, <2>2 DEF Parsed, Real
  <2> QED
    BY <1>6, <2>1, <2>2, <2>3 DEF SameHeader, SameInput
<1> HIDE DEF s, t, n
<1>8. CASE ~tables
  <2>1. t = Failing(s, "NO_QUANT_TABLE")
    BY <1>5, <1>8 DEF t, StartInputPass
  <2>2. /\ t \in Sessions(file, avail) /\ t.c = c /\ t.pos = pos /\ t.err = "NO_QUANT_TABLE"
    BY <1>5, <2>1 DEF Failing, Sessions, Returns, Errors
  <2>3. /\ Begins(file, b, pos) /\ ScansOf(file, b, pos) # {} /\ ~Has(file, b, pos, "tables")
        /\ c.input_scan_number = Cardinality(ScansOf(file, b, pos))
    BY <1>7, <1>8 DEF Parsed
  <2>4. DeservesIn(file, b, pos, "NO_QUANT_TABLE")
    BY <2>3 DEF DeservesIn
  <2>5. DeservesAt(file, pos, "NO_QUANT_TABLE")
    BY <2>4, DeservesThere
  <2>6. Stopped(file, c, pos, a, shown)
    BY <1>6, <2>3 DEF Stopped
  <2>7. After(file, avail, t, a, strip, shown)
    BY <2>2, <2>5, <2>6 DEF After
  <2> HIDE DEF a
  <2> QED
    BY <1>0, <1>1, <2>7, Leaves
<1>9. CASE tables
  <2>1. /\ t \in Sessions(file, avail) /\ t.pos = pos /\ t.tables = tables
        /\ t.coefs = Blank /\ t.err = "none" /\ ScanStarts(c, t.c)
    BY <1>5, <1>9, PassBegins DEF t
  <2>2. \A r \in RowsOf(file), k \in ColsOf(file) : Blank[r][k] + 1 >= c.input_scan_number
    BY <1>3, <1>7
  <2>3. file \in Streams
    BY <1>1 DEF Context
  <2>4. Decoding(file, t.c, pos, tables, Blank, b)
    BY <1>3, <1>6, <1>7, <2>1, <2>2, <2>3, ScanBegins
  <2>5. /\ t.c.global_state = c.global_state /\ t.c.is_dummy_pass = c.is_dummy_pass
        /\ t.c.buffered_image = c.buffered_image /\ t.c.decompress = c.decompress
        /\ t.c.has_multiple_scans = c.has_multiple_scans
        /\ t.c.consume_input = "data" /\ t.c.input_iMCU_row = 0
    BY <2>1 DEF ScanStarts, SameOutput, SameHeader
  <2>6. Methods(t.c)
    BY <1>6, <1>7, <2>5 DEF Methods
  <2>7. t.c.global_state \in Running /\ t.c.global_state \notin Outputs
    BY <1>6, <2>5 DEF Running, Outputs
  <2>8. Standing(file, t.c, t.pos, t.tables, t.coefs, a, strip, shown)
    BY <1>1, <2>1, <2>4, <2>6, <2>7, StandingRuns
  <2>9. After(file, avail, t, a, strip, shown)
    BY <2>1, <2>8 DEF After
  <2> HIDE DEF a
  <2> QED
    BY <1>0, <1>1, <2>9, Leaves
<1> QED
  BY <1>8, <1>9

\* The second part of jpeg_start_decompress, to the first output pass.
LEMMA PreloadEnds ==
  ASSUME Context, NEW s \in Sessions(file, avail), s.err = "none", NEW a \in Nat, a > 0,
         NEW st, NEW sh, NEW b, Methods(s.c), s.c.global_state = "PRELOAD",
         Decoding(file, s.c, s.pos, s.tables, s.coefs, b),
         s.c.eoi_reached \/ ~s.c.has_multiple_scans
  PROVE  After(file, avail, PassSetup([s EXCEPT !.c.output_scan_number = s.c.input_scan_number]),
               a, st, sh)
<1> DEFINE x == s.c.input_scan_number
           d == [s.c EXCEPT !.output_scan_number = x]
           u == [s EXCEPT !.c.output_scan_number = x]
<1>1. s.c \in Objects /\ x \in Nat
  BY DEF Sessions, Objects
<1>2. Aimed(s.c, d, x)
  BY <1>1, TargetSet
<1>3. u = [s EXCEPT !.c = d]
  OBVIOUS
<1>4. DueOf(file, s.c, a, b) <= x
  <2>1. Parsed(file, s.c, s.pos, s.tables, b) /\ s.c.inheaders = 0 /\ Len(file.els) \in Nat
    BY DEF Decoding, Context, Streams
  <2> QED
    BY <2>1, DueBound
<1> HIDE DEF x, d, u
<1>5. /\ u \in Sessions(file, avail) /\ u.c = d /\ u.pos = s.pos /\ u.tables = s.tables
      /\ u.coefs = s.coefs /\ u.err = "none"
  BY <1>2, <1>3 DEF Sessions, Aimed
<1>6. /\ SameHeader(s.c, d) /\ SameInput(s.c, d) /\ SameOutput(s.c, d)
      /\ d.output_scan_number = x /\ d.has_multiple_scans = s.c.has_multiple_scans
  BY <1>2 DEF Aimed, SameHeader
<1>7. Decoding(file, u.c, u.pos, u.tables, u.coefs, b)
  BY <1>5, <1>6, DecodingSame
<1>8. Methods(u.c) /\ u.c.global_state \in {"PRELOAD", "BUFIMAGE"}
  <2>1. OutputKept(s.c, d)
    BY <1>6 DEF OutputKept, SameInput
  <2> QED
    BY <1>5, <2>1, MethodsKept DEF OutputKept, SameOutput
<1>9. u.c.output_scan_number >= DueOf(file, u.c, a, b)
  <2>1. DueOf(file, d, a, b) = DueOf(file, s.c, a, b)
    BY <1>6, SameDue
  <2>2. DueOf(file, s.c, a, b) \in Nat
    BY DueBound DEF Decoding, Context, Streams
  <2> QED
    BY <1>1, <1>4, <1>5, <1>6, <2>1, <2>2 DEF x
<1>10. After(file, avail, PassSetup(u), a, st, sh)
  BY <1>5, <1>7, <1>8, <1>9, PassAfter
<1> QED
  BY <1>10 DEF u, x

LEMMA StepPreload == ASSUME DecoderInv, Preload PROVE DecoderInv'
<1> DEFINE s == IF cinfo.has_multiple_scans THEN Consume(Session) ELSE Returning(Session, "EOI")
           u == PassSetup([s EXCEPT !.c.output_scan_number = s.c.input_scan_number])
           n == IF s.ret = "suspended" THEN "none" ELSE "start_decompress"
<1>0. /\ error = "none" /\ cinfo.global_state = "PRELOAD"
      /\ IF s.ret = "EOI" THEN Leaving(u, "setup") ELSE Leaving(s, n)
      /\ asked' = asked /\ strip' = strip /\ shown' = shown
  BY DEF Preload, Calling, State
<1>1. /\ Context /\ Session \in Sessions(file, avail) /\ Session.c = cinfo
      /\ Session.pos = pos /\ Session.tables = tables /\ Session.coefs = coefs
      /\ Session.err = "none" /\ asked \in Nat
      /\ strip \in Seq(Emissions) /\ shown \in Seq(Emissions)
  BY <1>0, Called
<1>2. PICK b \in 1..pos : Decoding(file, cinfo, pos, tables, coefs, b)
  BY <1>0, CalledRunning DEF Running
<1>3. asked > 0 /\ Methods(cinfo) /\ cinfo.global_state \in Running
  BY <1>0, CalledRunning DEF Running
<1>4. CASE s.ret # "EOI"
  <2>1. s = Consume(Session)
    BY <1>4 DEF Returning, Session
  <2>2. After(file, avail, s, asked, strip, shown)
    BY <1>0, <1>3, <2>1, InputInState
  <2> HIDE DEF s, n
  <2> QED
    BY <1>0, <1>1, <1>4, <2>2, Leaves
<1>5. CASE s.ret = "EOI"
  <2>1. /\ s \in Sessions(file, avail) /\ s.err = "none" /\ OutputKept(cinfo, s.c)
        /\ Decoding(file, s.c, s.pos, s.tables, s.coefs, b)
        /\ s.c.eoi_reached \/ ~s.c.has_multiple_scans
    <3>1. CASE cinfo.has_multiple_scans
      <4>1. s = Consume(Session)
        BY <3>1
      <4>2. ImageStep(file, avail, Session, s, b)
        BY <1>1, <1>2, <4>1, Consumed
      <4> HIDE DEF s
      <4>3. s.err = "none"
        BY <1>5, <4>2 DEF ImageStep
      <4>4. cinfo.decompress # "onepass"
        BY <1>3, <3>1 DEF Methods
      <4> QED
        BY <1>1, <1>5, <4>2, <4>3, <4>4 DEF ImageStep, OutputKept
    <3>2. CASE ~cinfo.has_multiple_scans
      <4>1. s = [Session EXCEPT !.ret = "EOI"]
        BY <3>2 DEF Returning
      <4> HIDE DEF s
      <4>2. /\ s \in Sessions(file, avail) /\ s.err = "none" /\ s.c = cinfo /\ s.pos = pos
            /\ s.tables = tables /\ s.coefs = coefs
        BY <1>1, <4>1 DEF Sessions, Returns
      <4> QED
        BY <1>2, <3>2, <4>2, SameItself DEF OutputKept
    <3> QED
      BY <3>1, <3>2
  <2> HIDE DEF s
  <2>2. Methods(s.c) /\ s.c.global_state = "PRELOAD"
    BY <1>0, <1>3, <2>1, MethodsKept DEF OutputKept, SameOutput
  <2>3. After(file, avail, u, asked, strip, shown)
    BY <1>1, <1>3, <2>1, <2>2, PreloadEnds
  <2> HIDE DEF u
  <2> QED
    BY <1>0, <1>1, <1>5, <2>3, Leaves
<1> QED
  BY <1>4, <1>5

-----------------------------------------------------------------------------
(* Buffered-image mode.                                                      *)

LEMMA StepStartOutput ==
  ASSUME DecoderInv, NEW a \in Nat, a > 0, NEW renew \in BOOLEAN, StartOutput(a, renew)
  PROVE  DecoderInv'
<1> DEFINE x == Target(cinfo, a)
           d1 == [cinfo EXCEPT !.output_scan_number = x]
           y == cinfo.colormap /\ ~renew
           d == [d1 EXCEPT !.colormap = y]
           s == [Session EXCEPT !.c.output_scan_number = x, !.c.colormap = @ /\ ~renew]
           u == PassSetup(s)
<1>0. /\ error = "none" /\ cinfo.global_state = "BUFIMAGE"
      /\ Leaving(u, "setup") /\ asked' = a /\ strip' = strip /\ shown' = shown
  BY DEF StartOutput, Calling, State
<1>1. /\ Context /\ Session \in Sessions(file, avail) /\ Session.c = cinfo
      /\ Session.pos = pos /\ Session.tables = tables /\ Session.coefs = coefs
      /\ Session.err = "none" /\ Len(file.els) \in Nat /\ cinfo \in Objects
      /\ strip \in Seq(Emissions) /\ shown \in Seq(Emissions)
  BY <1>0, Called
<1>2. PICK b \in 1..pos : Decoding(file, cinfo, pos, tables, coefs, b)
  BY <1>0, CalledRunning DEF Running
<1>3. Methods(cinfo)
  BY <1>0, CalledRunning DEF Running
<1>4. x \in Nat /\ x >= DueOf(file, cinfo, a, b)
  BY <1>1, <1>2, TargetEnough
<1>5. s = [Session EXCEPT !.c = d]
  BY <1>1 DEF Sessions, Objects
<1>6. y \in BOOLEAN
  BY <1>1 DEF Objects
<1> HIDE DEF x, y
<1>7. Aimed(cinfo, d1, x)
  BY <1>1, <1>4, TargetSet
<1> HIDE DEF d1
<1>8. /\ d1 \in Objects /\ SameHeader(cinfo, d1) /\ SameInput(cinfo, d1)
      /\ SameOutput(cinfo, d1) /\ d1.output_scan_number = x
  BY <1>7 DEF Aimed
<1>9. d \in Objects /\ d.output_scan_number = x
  BY <1>6, <1>8 DEF Objects
<1>10. SameHeader(d1, d) /\ SameInput(d1, d) /\ SameOutput(d1, d)
  BY <1>8 DEF Objects, SameHeader, SameInput, SameOutput
<1> HIDE DEF d, s, u
<1>11. SameHeader(cinfo, d) /\ SameInput(cinfo, d) /\ SameOutput(cinfo, d)
  BY <1>8, <1>10 DEF SameHeader, SameInput, SameOutput
<1>12. /\ s \in Sessions(file, avail) /\ s.c = d /\ s.pos = pos /\ s.tables = tables
       /\ s.coefs = coefs /\ s.err = "none"
  BY <1>1, <1>5, <1>9 DEF Sessions
<1>13. Decoding(file, s.c, s.pos, s.tables, s.coefs, b)
  BY <1>2, <1>11, <1>12, DecodingSame
<1>14. OutputKept(cinfo, d)
  BY <1>11 DEF OutputKept, SameHeader, SameInput
<1>15. Methods(s.c) /\ s.c.global_state \in {"PRELOAD", "BUFIMAGE"}
  BY <1>0, <1>3, <1>12, <1>14, MethodsKept DEF OutputKept, SameOutput
<1>16. s.c.output_scan_number >= DueOf(file, s.c, a, b)
  <2>1. DueOf(file, d, a, b) = DueOf(file, cinfo, a, b)
    BY <1>14, SameDue DEF OutputKept
  <2> QED
    BY <1>4, <1>9, <1>12, <2>1
<1>17. After(file, avail, u, a, strip, shown)
  BY <1>1, <1>12, <1>13, <1>15, <1>16, PassAfter DEF u
<1> QED
  BY <1>0, <1>1, <1>17, Leaves

LEMMA StepFinishOutput == ASSUME DecoderInv, FinishOutput PROVE DecoderInv'
<1> DEFINE wait == cinfo.input_scan_number <= cinfo.output_scan_number /\ ~cinfo.eoi_reached
           i == Consume(Session)
           s == [Consume(Session) EXCEPT !.c.global_state = "BUFPOST"]
           u == [Session EXCEPT !.c.global_state = "BUFIMAGE"]
           n == IF s.ret = "suspended" THEN "none" ELSE "finish_output"
<1>0. /\ error = "none" /\ cinfo.buffered_image /\ cinfo.global_state \in {"SCANNING", "BUFPOST"}
      /\ IF wait THEN Leaving(s, n) ELSE Leaving(u, "none")
      /\ asked' = asked /\ strip' = strip /\ shown' = shown
  BY DEF FinishOutput, Calling, State
<1>1. /\ Context /\ Session \in Sessions(file, avail) /\ Session.c = cinfo
      /\ Session.pos = pos /\ Session.tables = tables /\ Session.coefs = coefs
      /\ Session.err = "none" /\ asked \in Nat
      /\ strip \in Seq(Emissions) /\ shown \in Seq(Emissions)
  BY <1>0, Called
<1>2. cinfo.global_state \in Running
  BY <1>0 DEF Running, Outputs
<1>3. PICK b \in 1..pos : Decoding(file, cinfo, pos, tables, coefs, b)
  BY <1>0, <1>2, CalledRunning
<1>4. asked > 0 /\ Methods(cinfo) /\ ~cinfo.is_dummy_pass
  BY <1>0, <1>2, CalledRunning DEF Methods
<1>5. ImageStep(file, avail, Session, i, b)
  BY <1>1, <1>3, Consumed
<1> HIDE DEF i
<1>6. After(file, avail, [i EXCEPT !.c.global_state = "BUFPOST"], asked, strip, shown)
  BY <1>0, <1>1, <1>4, <1>5, RunningMoves
<1>7. After(file, avail, [Session EXCEPT !.c.global_state = "BUFIMAGE"], asked, strip, shown)
  <2> DEFINE w == Returning(Session, "more")
  <2>1. ImageStep(file, avail, Session, w, b)
    BY <1>1, <1>3, StepStays
  <2>2. w = Session
    BY DEF Returning, Session
  <2>3. ImageStep(file, avail, Session, Session, b)
    BY <2>1, <2>2
  <2> QED
    BY <1>0, <1>1, <1>4, <2>3, RunningMoves
<1>8. After(file, avail, s, asked, strip, shown)
  BY <1>6 DEF i
<1> HIDE DEF s, u, n, wait
<1>9. After(file, avail, u, asked, strip, shown)
  BY <1>7 DEF u
<1>10. CASE wait
  BY <1>0, <1>1, <1>8, <1>10, Leaves
<1>11. CASE ~wait
  BY <1>0, <1>1, <1>9, <1>11, Leaves
<1> QED
  BY <1>10, <1>11

LEMMA StepFinishDecompress == ASSUME DecoderInv, FinishDecompress PROVE DecoderInv'
<1> DEFINE i == Consume(Session)
           s == [Consume(Session) EXCEPT !.c.global_state = "STOPPING"]
           n == IF s.ret = "suspended" THEN "none" ELSE "finish_decompress"
<1>0. /\ error = "none" /\ cinfo.global_state \in {"BUFIMAGE", "STOPPING", "SCANNING"}
      /\ IF cinfo.eoi_reached THEN Leaving(Aborted(Session), "none") ELSE Leaving(s, n)
      /\ asked' = asked /\ strip' = <<>> /\ shown' = <<>>
  BY DEF FinishDecompress, Calling, State
<1>1. /\ Context /\ Session \in Sessions(file, avail) /\ Session.c = cinfo
      /\ Session.pos = pos /\ Session.tables = tables /\ Session.coefs = coefs
      /\ Session.err = "none" /\ asked \in Nat /\ Len(file.els) \in Nat
  BY <1>0, Called
<1>2. cinfo.global_state \in Running
  BY <1>0 DEF Running, Outputs
<1>3. PICK b \in 1..pos : Decoding(file, cinfo, pos, tables, coefs, b)
  BY <1>0, <1>2, CalledRunning
<1>4. asked > 0 /\ Methods(cinfo) /\ ~cinfo.is_dummy_pass
  BY <1>0, <1>2, CalledRunning DEF Methods
<1>5. <<>> \in Seq(Emissions)
  OBVIOUS
<1>6. CASE cinfo.eoi_reached
  <2>1. BetweenImages(file, pos)
    BY <1>3, <1>6 DEF Decoding, Parsed, Begins, BetweenImages
  <2>2. After(file, avail, Aborted(Session), asked, <<>>, <<>>)
    BY <1>1, <2>1, StartAfter
  <2> QED
    BY <1>0, <1>1, <1>5, <1>6, <2>2, Leaves
<1>7. CASE ~cinfo.eoi_reached
  <2>1. ImageStep(file, avail, Session, i, b)
    BY <1>1, <1>3, Consumed
  <2> HIDE DEF i
  <2>2. After(file, avail, [i EXCEPT !.c.global_state = "STOPPING"], asked, <<>>, <<>>)
    BY <1>0, <1>1, <1>4, <2>1, RunningMoves
  <2>3. After(file, avail, s, asked, <<>>, <<>>)
    BY <2>2 DEF i
  <2> HIDE DEF s, n
  <2> QED
    BY <1>0, <1>1, <1>5, <1>7, <2>3, Leaves
<1> QED
  BY <1>6, <1>7

-----------------------------------------------------------------------------
(* Rows that go out.                                                         *)

LEMMA RowTypes ==
  ASSUME Context, NEW s \in Sessions(file, avail)
  PROVE  file.rows \in Nat /\ file.rows > 0 /\ s.c.output_scanline \in Nat
<1>1. file.rows \in Nat /\ file.rows > 0
  BY DEF Context, Streams, Positive
<1>2. s.c.output_scanline \in Nat
  BY DEF Sessions, Objects
<1> QED
  BY <1>1, <1>2

\* Another row of the output and nothing else.
Lined(c, d, x) ==
  /\ d \in Objects /\ SameHeader(c, d) /\ SameInput(c, d)
  /\ d.is_dummy_pass = c.is_dummy_pass /\ d.crank = c.crank
  /\ d.buffered_image = c.buffered_image /\ d.decompress = c.decompress
  /\ d.output_scan_number = c.output_scan_number /\ d.global_state = c.global_state
  /\ d.output_iMCU_row = c.output_iMCU_row /\ d.output_scanline = x

LEMMA LineSet ==
  ASSUME NEW s \in Sessions(file, avail), NEW x \in Nat
  PROVE  LET t == [s EXCEPT !.c.output_scanline = x]
         IN  /\ t \in Sessions(file, avail) /\ t.pos = s.pos /\ t.tables = s.tables
             /\ t.coefs = s.coefs /\ t.err = s.err /\ Lined(s.c, t.c, x)
<1> DEFINE d == [s.c EXCEPT !.output_scanline = x]
           t == [s EXCEPT !.c.output_scanline = x]
<1>0. s.c \in Objects
  BY DEF Sessions
<1>1. t = [s EXCEPT !.c = d]
  OBVIOUS
<1>2. d \in Objects /\ d.output_scanline = x /\ d.output_iMCU_row = s.c.output_iMCU_row
  BY <1>0 DEF Objects
<1>3. SameHeader(s.c, d) /\ SameInput(s.c, d)
  BY <1>0 DEF Objects, SameHeader, SameInput
<1>4. /\ d.is_dummy_pass = s.c.is_dummy_pass /\ d.crank = s.c.crank
      /\ d.buffered_image = s.c.buffered_image /\ d.decompress = s.c.decompress
      /\ d.output_scan_number = s.c.output_scan_number /\ d.global_state = s.c.global_state
  BY <1>0 DEF Objects
<1>5. Lined(s.c, d, x)
  BY <1>2, <1>3, <1>4 DEF Lined
<1> HIDE DEF d, t
<1>6. /\ t \in Sessions(file, avail) /\ t.pos = s.pos /\ t.tables = s.tables
      /\ t.coefs = s.coefs /\ t.err = s.err /\ t.c = d
  BY <1>1, <1>2 DEF Sessions
<1> QED
  BY <1>5, <1>6 DEF t

\* The dummy pass has been done: the second one works on the strip.
PassTurns(c, d) ==
  /\ d \in Objects /\ SameHeader(c, d) /\ SameInput(c, d)
  /\ d.buffered_image = c.buffered_image /\ d.decompress = c.decompress
  /\ d.output_scan_number = c.output_scan_number /\ d.global_state = c.global_state
  /\ ~d.is_dummy_pass /\ d.crank /\ d.output_scanline = 0

LEMMA PassTurned ==
  ASSUME NEW s \in Sessions(file, avail), s.c.is_dummy_pass
  PROVE  LET t == [s EXCEPT !.c = PrepareForOutputPass([@ EXCEPT !.colormap = TRUE])]
         IN  /\ t \in Sessions(file, avail) /\ t.pos = s.pos /\ t.tables = s.tables
             /\ t.coefs = s.coefs /\ t.err = s.err /\ PassTurns(s.c, t.c)
<1> DEFINE e == [s.c EXCEPT !.colormap = TRUE]
           d == [e EXCEPT !.is_dummy_pass = FALSE, !.crank = TRUE, !.output_scanline = 0]
           t == [s EXCEPT !.c = PrepareForOutputPass([@ EXCEPT !.colormap = TRUE])]
<1>0. s.c \in Objects
  BY DEF Sessions
<1>1. e \in Objects /\ e.is_dummy_pass
  BY <1>0 DEF Objects
<1>2. /\ SameHeader(s.c, e) /\ SameInput(s.c, e)
      /\ e.buffered_image = s.c.buffered_image /\ e.decompress = s.c.decompress
      /\ e.output_scan_number = s.c.output_scan_number /\ e.global_state = s.c.global_state
  BY <1>0 DEF Objects, SameHeader, SameInput
<1>3. t = [s EXCEPT !.c = d]
  BY <1>1 DEF PrepareForOutputPass
<1> HIDE DEF e
<1>4. d \in Objects /\ ~d.is_dummy_pass /\ d.crank /\ d.output_scanline = 0
  <2>1. d \in Objects
    BY <1>1 DEF Objects
  <2>2. ~d.is_dummy_pass /\ d.crank /\ d.output_scanline = 0
    BY <1>1 DEF Objects
  <2> QED
    BY <2>1, <2>2
<1>5. /\ SameHeader(e, d) /\ SameInput(e, d)
      /\ d.buffered_image = e.buffered_image /\ d.decompress = e.decompress
      /\ d.output_scan_number = e.output_scan_number /\ d.global_state = e.global_state
  BY <1>1 DEF Objects, SameHeader, SameInput
<1> HIDE DEF d, t
<1>6. PassTurns(s.c, d)
  BY <1>2, <1>4, <1>5 DEF PassTurns, SameHeader, SameInput
<1>7. /\ t \in Sessions(file, avail) /\ t.pos = s.pos /\ t.tables = s.tables
      /\ t.coefs = s.coefs /\ t.err = s.err /\ t.c = d
  BY <1>3, <1>4 DEF Sessions
<1> QED
  BY <1>6, <1>7 DEF t

\* A pass that is not on the strip asks the coefficient controller.
LEMMA PassOutput ==
  ASSUME Context, NEW s \in Sessions(file, avail), s.err = "none", NEW a \in Nat,
         NEW b, Decoding(file, s.c, s.pos, s.tables, s.coefs, b), Methods(s.c),
         NEW st, NEW sh, Passing(file, s.c, a, st, sh, b),
         ~s.c.crank, s.c.output_scanline < file.rows,
         s.c.global_state \in Outputs
  PROVE  /\ Output(file, avail, s, Decompress(s), a, b)
         /\ s.c.output_iMCU_row = s.c.output_scanline /\ s.c.output_scanline \in RowsOf(file)
<1>1. /\ s.c.output_scan_number >= DueOf(file, s.c, a, b)
      /\ s.c.output_iMCU_row = s.c.output_scanline
      /\ s.c.decompress = "onepass" =>
            s.c.consume_input = "data" /\ s.c.input_iMCU_row = s.c.output_scanline
  BY DEF Passing
<1>2. s.c.output_scanline \in Nat /\ file.rows \in Nat
  BY DEF Sessions, Objects, Context, Streams, Positive
<1>3. s.c.output_scanline \in RowsOf(file)
  BY <1>2 DEF RowsOf
<1>4. s.c.decompress # "none" /\ (s.c.decompress = "onepass" => ~s.c.has_multiple_scans)
  BY DEF Methods
<1> QED
  BY <1>1, <1>3, <1>4, RowOutput

\* What holds of the object behind the row that went out, whatever the state.
RowAfter(f, av, s, u, a, b) ==
  LET row == s.c.output_scanline
  IN  /\ u \in Sessions(f, av) /\ u.err = "none" /\ Methods(u.c)
      /\ u.c.global_state = s.c.global_state /\ u.c.is_dummy_pass = s.c.is_dummy_pass
      /\ u.c.crank = s.c.crank /\ u.c.decompress = s.c.decompress
      /\ u.c.has_multiple_scans = s.c.has_multiple_scans
      /\ Decoding(f, u.c, u.pos, u.tables, u.coefs, b)
      /\ u.c.output_scan_number >= DueOf(f, u.c, a, b)
      /\ u.c.output_scanline = row + 1 /\ u.c.output_iMCU_row = row + 1
      /\ u.c.decompress = "onepass" /\ row + 1 < f.rows =>
           u.c.consume_input = "data" /\ u.c.input_iMCU_row = row + 1

LEMMA RowGone ==
  ASSUME Context, NEW s \in Sessions(file, avail), NEW a \in Nat, NEW b, Methods(s.c),
         s.c.global_state \in Outputs, s.c.output_scan_number >= DueOf(file, s.c, a, b),
         s.c.output_iMCU_row = s.c.output_scanline,
         NEW t, Emitted(file, avail, s, t, a, b)
  PROVE  LET u == [t EXCEPT !.c.output_scanline = s.c.output_scanline + 1]
         IN  /\ RowAfter(file, avail, s, u, a, b)
             /\ Shows(file, s.c, a, b, Emission(t.coefs, s.c.output_scanline))
<1> DEFINE x == s.c.output_scanline + 1
           u == [t EXCEPT !.c.output_scanline = x]
<1>1. /\ t \in Sessions(file, avail) /\ t.err = "none" /\ Advanced(s.c, t.c)
      /\ Decoding(file, t.c, t.pos, t.tables, t.coefs, b)
      /\ Shows(file, t.c, a, b, Emission(t.coefs, s.c.output_scanline))
      /\ s.c.decompress = "onepass" /\ x < file.rows =>
           t.c.consume_input = "data" /\ t.c.input_iMCU_row = x
  BY DEF Emitted
<1>2. x \in Nat
  BY DEF Sessions, Objects
<1> HIDE DEF x
<1>3. /\ u \in Sessions(file, avail) /\ u.pos = t.pos /\ u.tables = t.tables
      /\ u.coefs = t.coefs /\ u.err = t.err /\ Lined(t.c, u.c, x)
  BY <1>1, <1>2, LineSet
<1> HIDE DEF u
<1>4. /\ t.c.is_dummy_pass = s.c.is_dummy_pass /\ t.c.crank = s.c.crank
      /\ t.c.buffered_image = s.c.buffered_image /\ t.c.decompress = s.c.decompress
      /\ t.c.output_scan_number = s.c.output_scan_number
      /\ t.c.has_multiple_scans = s.c.has_multiple_scans
      /\ t.c.global_state = s.c.global_state /\ t.c.output_iMCU_row = x
  BY <1>1 DEF Advanced, SamePass, x
<1>5. /\ u.c.is_dummy_pass = s.c.is_dummy_pass /\ u.c.crank = s.c.crank
      /\ u.c.buffered_image = s.c.buffered_image /\ u.c.decompress = s.c.decompress
      /\ u.c.output_scan_number = s.c.output_scan_number
      /\ u.c.has_multiple_scans = s.c.has_multiple_scans
      /\ u.c.global_state = s.c.global_state /\ u.c.output_iMCU_row = x
      /\ u.c.output_scanline = x
  BY <1>3, <1>4 DEF Lined, SameHeader
<1>6. SameHeader(t.c, u.c) /\ SameInput(t.c, u.c)
  BY <1>3 DEF Lined
<1>7. Decoding(file, u.c, u.pos, u.tables, u.coefs, b)
  BY <1>1, <1>3, <1>6, DecodingSame
<1>8. Methods(u.c)
  BY <1>5 DEF Methods, Outputs
<1>9. u.c.output_scan_number >= DueOf(file, u.c, a, b)
  BY <1>5, SameDue
<1>10. Shows(file, s.c, a, b, Emission(t.coefs, s.c.output_scanline))
  <2>1. /\ DueOf(file, t.c, a, b) = DueOf(file, s.c, a, b)
        /\ DCDue(file, t.c, a, b) <=> DCDue(file, s.c, a, b)
    BY <1>4, SameDue
  <2> QED
    BY <1>1, <1>4, <2>1 DEF Shows
<1>11. RowAfter(file, avail, s, u, a, b)
  BY <1>1, <1>3, <1>5, <1>6, <1>7, <1>8, <1>9 DEF RowAfter, SameInput, x
<1> QED
  BY <1>10, <1>11 DEF u, x

-----------------------------------------------------------------------------
(* jpeg_read_scanlines.                                                      *)

LEMMA ScannedRow ==
  ASSUME Context, NEW s \in Sessions(file, avail), NEW a \in Nat, a > 0, NEW st,
         NEW sh \in Seq(Emissions), NEW b,
         s.c.global_state = "SCANNING", ~s.c.crank, s.c.output_scanline < file.rows,
         Complete(file, s.c, a, b, sh),
         NEW u, RowAfter(file, avail, s, u, a, b), NEW e, Shows(file, s.c, a, b, e)
  PROVE  After(file, avail, u, a, st, Append(sh, e)) /\ Append(sh, e) \in Seq(Emissions)
<1> DEFINE z == Append(sh, e)
<1>1. Complete(file, s.c, a, b, z) /\ z \in Seq(Emissions)
  BY CompleteNext
<1> HIDE DEF z
<1>2. /\ u \in Sessions(file, avail) /\ u.err = "none" /\ Methods(u.c)
      /\ u.c.global_state = "SCANNING" /\ ~u.c.crank
      /\ u.c.decompress = s.c.decompress /\ u.c.has_multiple_scans = s.c.has_multiple_scans
      /\ Decoding(file, u.c, u.pos, u.tables, u.coefs, b)
      /\ u.c.output_scan_number >= DueOf(file, u.c, a, b)
      /\ u.c.output_scanline = s.c.output_scanline + 1
      /\ u.c.output_iMCU_row = s.c.output_scanline + 1
      /\ u.c.decompress = "onepass" /\ s.c.output_scanline + 1 < file.rows =>
           u.c.consume_input = "data" /\ u.c.input_iMCU_row = s.c.output_scanline + 1
  BY DEF RowAfter
<1>3. Complete(file, u.c, a, b, z)
  BY <1>1, <1>2, CompleteSame
<1>4. b \in 1..u.pos
  BY <1>2 DEF Decoding, Parsed, Begins
<1>5. s.c.output_scanline + 1 <= file.rows
  BY RowTypes
<1>6. Passing(file, u.c, a, st, z, b)
  BY <1>2, <1>3, <1>5 DEF Passing
<1>7. Standing(file, u.c, u.pos, u.tables, u.coefs, a, st, z)
  BY <1>2, <1>4, <1>6, StandingRuns DEF Running, Outputs
<1>8. After(file, avail, u, a, st, z)
  BY <1>2, <1>7 DEF After
<1> QED
  BY <1>1, <1>8 DEF z

\* The same from the strip.
LEMMA StripRow ==
  ASSUME Context, NEW s \in Sessions(file, avail), s.err = "none", NEW a \in Nat, a > 0,
         NEW st \in Seq(Emissions), NEW sh \in Seq(Emissions), NEW b, Methods(s.c),
         Decoding(file, s.c, s.pos, s.tables, s.coefs, b), Passing(file, s.c, a, st, sh, b),
         s.c.global_state = "SCANNING", s.c.crank, s.c.output_scanline < file.rows
  PROVE  LET row == s.c.output_scanline
             z == Append(sh, st[row + 1])
         IN  /\ After(file, avail, [s EXCEPT !.c.output_scanline = row + 1], a, st, z)
             /\ z \in Seq(Emissions)
<1> DEFINE x == s.c.output_scanline + 1
           e == st[x]
           z == Append(sh, e)
           u == [s EXCEPT !.c.output_scanline = x]
<1>1. /\ s.c.output_scan_number >= DueOf(file, s.c, a, b)
      /\ Len(st) = file.rows /\ Complete(file, s.c, a, b, st) /\ Complete(file, s.c, a, b, sh)
  BY DEF Passing
<1>2. x \in Nat /\ x \in 1..file.rows /\ x <= file.rows
  BY RowTypes
<1> HIDE DEF x
<1>3. x \in 1..Len(st) /\ e \in Emissions
  BY <1>1, <1>2
<1>4. Shows(file, s.c, a, b, e)
  BY <1>1, <1>3 DEF Complete, Shows
<1> HIDE DEF e
<1>5. Complete(file, s.c, a, b, z) /\ z \in Seq(Emissions)
  BY <1>1, <1>4, CompleteNext
<1> HIDE DEF z
<1>6. /\ u \in Sessions(file, avail) /\ u.pos = s.pos /\ u.tables = s.tables
      /\ u.coefs = s.coefs /\ u.err = "none" /\ Lined(s.c, u.c, x)
  BY <1>2, LineSet
<1> HIDE DEF u
<1>7. /\ u.c.is_dummy_pass = s.c.is_dummy_pass /\ u.c.crank
      /\ u.c.buffered_image = s.c.buffered_image /\ u.c.decompress = s.c.decompress
      /\ u.c.output_scan_number = s.c.output_scan_number
      /\ u.c.has_multiple_scans = s.c.has_multiple_scans
      /\ u.c.global_state = "SCANNING" /\ u.c.output_scanline = x
      /\ SameHeader(s.c, u.c) /\ SameInput(s.c, u.c)
  BY <1>6 DEF Lined, SameHeader
<1>8. Decoding(file, u.c, u.pos, u.tables, u.coefs, b)
  BY <1>6, <1>7, DecodingSame
<1>9. b \in 1..u.pos
  BY <1>8 DEF Decoding, Parsed, Begins
<1>10. Methods(u.c)
  BY <1>7 DEF Methods
<1>11. u.c.output_scan_number >= DueOf(file, u.c, a, b)
  BY <1>1, <1>7, SameDue
<1>12. Complete(file, u.c, a, b, z) /\ Complete(file, u.c, a, b, st)
  BY <1>1, <1>5, <1>7, CompleteSame
<1>13. Passing(file, u.c, a, st, z, b)
  BY <1>1, <1>2, <1>7, <1>11, <1>12 DEF Passing
<1>14. Standing(file, u.c, u.pos, u.tables, u.coefs, a, st, z)
  BY <1>7, <1>8, <1>9, <1>10, <1>13, StandingRuns DEF Running, Outputs
<1>15. After(file, avail, u, a, st, z)
  BY <1>6, <1>14 DEF After
<1> QED
  BY <1>5, <1>15 DEF u, z, e, x

LEMMA StepReadScanlines == ASSUME DecoderInv, ReadScanlines PROVE DecoderInv'
<1> DEFINE row == cinfo.output_scanline
           s == IF cinfo.crank THEN Returning(Session, "emitted") ELSE Decompress(Session)
           u == [s EXCEPT !.c.output_scanline = row + 1]
           e == IF cinfo.crank THEN strip[row + 1] ELSE Emission(s.coefs, row)
           n == IF s.ret = "suspended" THEN "none" ELSE "read_scanlines"
<1>0. /\ error = "none" /\ cinfo.global_state = "SCANNING" /\ row < file.rows
      /\ IF s.ret = "emitted" THEN Leaving(u, "none") /\ shown' = Append(shown, e)
         ELSE Leaving(s, n) /\ shown' = shown
      /\ asked' = asked /\ strip' = strip
  BY DEF ReadScanlines, Calling, State
<1>1. /\ Context /\ Session \in Sessions(file, avail) /\ Session.c = cinfo
      /\ Session.pos = pos /\ Session.tables = tables /\ Session.coefs = coefs
      /\ Session.err = "none" /\ asked \in Nat
      /\ strip \in Seq(Emissions) /\ shown \in Seq(Emissions)
  BY <1>0, Called
<1>2. cinfo.global_state \in Running /\ cinfo.global_state \in Outputs
  BY <1>0 DEF Running, Outputs
<1>3. asked > 0 /\ Methods(cinfo)
  BY <1>0, <1>2, CalledRunning
<1>4. PICK b \in 1..pos : /\ Decoding(file, cinfo, pos, tables, coefs, b)
                          /\ Passing(file, cinfo, asked, strip, shown, b)
  BY <1>0, <1>2, CalledRunning
<1>5. CASE cinfo.crank
  <2> DEFINE t == Returning(Session, "emitted")
  <2>1. s = t /\ e = strip[row + 1]
    BY <1>5
  <2>2. t = [Session EXCEPT !.ret = "emitted"]
    BY DEF Returning
  <2> HIDE DEF s, t
  <2>3. /\ t \in Sessions(file, avail) /\ t.c = cinfo /\ t.pos = pos /\ t.tables = tables
        /\ t.coefs = coefs /\ t.err = "none" /\ t.ret = "emitted"
    BY <1>1, <2>2 DEF Sessions, Returns
  <2>4. /\ After(file, avail, [t EXCEPT !.c.output_scanline = row + 1], asked, strip,
                 Append(shown, strip[row + 1]))
        /\ Append(shown, strip[row + 1]) \in Seq(Emissions)
    BY <1>0, <1>1, <1>3, <1>4, <1>5, <2>3, StripRow, ZenonT(40)
  <2>5. After(file, avail, u, asked, strip, Append(shown, e)) /\ Append(shown, e) \in Seq(Emissions)
    BY <2>1, <2>4
  <2>6. Leaving(u, "none") /\ shown' = Append(shown, e)
    BY <1>0, <2>1, <2>3
  <2> HIDE DEF u, e
  <2> QED
    BY <1>0, <1>1, <2>5, <2>6, Leaves
<1>6. CASE ~cinfo.crank
  <2> DEFINE t == Decompress(Session)
  <2>1. s = t /\ e = Emission(s.coefs, row)
    BY <1>6
  <2>2. /\ Output(file, avail, Session, t, asked, b)
        /\ cinfo.output_iMCU_row = row
    BY <1>0, <1>1, <1>2, <1>3, <1>4, <1>6, PassOutput
  <2> HIDE DEF s, t
  <2>3. CASE t.ret = "emitted"
    <3>1. Emitted(file, avail, Session, t, asked, b)
      BY <2>2, <2>3 DEF Output
    <3>2. cinfo.output_scan_number >= DueOf(file, cinfo, asked, b)
          /\ Complete(file, cinfo, asked, b, shown)
      BY <1>0, <1>4 DEF Passing
    <3>3. /\ RowAfter(file, avail, Session, [t EXCEPT !.c.output_scanline = row + 1], asked, b)
          /\ Shows(file, cinfo, asked, b, Emission(t.coefs, row))
      BY <1>1, <1>2, <1>3, <2>2, <3>1, <3>2, RowGone
    <3>4. RowAfter(file, avail, Session, u, asked, b) /\ Shows(file, cinfo, asked, b, e)
      BY <2>1, <3>3
    <3>5. Leaving(u, "none") /\ shown' = Append(shown, e)
      BY <1>0, <2>1, <2>3
    <3> HIDE DEF u, e
    <3>6. After(file, avail, u, asked, strip, Append(shown, e)) /\ Append(shown, e) \in Seq(Emissions)
      BY <1>0, <1>1, <1>3, <1>6, <3>2, <3>4, ScannedRow
    <3> QED
      BY <1>0, <1>1, <3>5, <3>6, Leaves
  <2>4. CASE t.ret # "emitted"
    <3>1. ImageStep(file, avail, Session, t, b)
      BY <2>2, <2>4 DEF Output
    <3>2. After(file, avail, t, asked, strip, shown)
      BY <1>1, <1>2, <1>3, <1>4, <3>1, RunningStep
    <3>3. Leaving(t, n) /\ shown' = shown
      BY <1>0, <2>1, <2>4
    <3> HIDE DEF n
    <3> QED
      BY <1>0, <1>1, <3>2, <3>3, Leaves
  <2> QED
    BY <2>3, <2>4
<1> QED
  BY <1>5, <1>6

-----------------------------------------------------------------------------
(* output_pass_setup.                                                        *)

\* A row of the dummy pass goes to the strip.
LEMMA StripGrows ==
  ASSUME Context, NEW s \in Sessions(file, avail), NEW a \in Nat, NEW b,
         NEW st \in Seq(Emissions), NEW sh, Passing(file, s.c, a, st, sh, b),
         s.c.global_state = "PRESCAN", s.c.is_dummy_pass,
         NEW e, Shows(file, s.c, a, b, e)
  PROVE  LET row == s.c.output_scanline
             z == IF row = 0 THEN <<e>> ELSE Append(st, e)
         IN  z \in Seq(Emissions) /\ Len(z) = row + 1 /\ Complete(file, s.c, a, b, z)
<1> DEFINE row == s.c.output_scanline
           z == IF row = 0 THEN <<e>> ELSE Append(st, e)
<1>1. row \in Nat /\ (row > 0 => Len(st) = row /\ Complete(file, s.c, a, b, st))
  BY DEF Passing, Sessions, Objects
<1> HIDE DEF row
<1>2. CASE row = 0
  <2>1. z = <<e>>
    BY <1>2
  <2> HIDE DEF z
  <2>2. z \in Seq(Emissions) /\ Len(z) = 1 /\ Complete(file, s.c, a, b, z)
    BY <2>1, CompleteOne
  <2> QED
    BY <1>2, <2>2 DEF z, row
<1>3. CASE row # 0
  <2>1. z = Append(st, e)
    BY <1>3
  <2>2. row > 0
    BY <1>1, <1>3
  <2> HIDE DEF z
  <2>3. z \in Seq(Emissions) /\ Len(z) = Len(st) + 1 /\ Complete(file, s.c, a, b, z)
    BY <1>1, <2>1, <2>2, CompleteNext
  <2>4. Len(z) = row + 1
    BY <1>1, <2>2, <2>3
  <2> QED
    BY <2>3, <2>4 DEF z, row
<1> QED
  BY <1>2, <1>3

\* A row of the dummy pass, not the last one.
LEMMA DummyRow ==
  ASSUME Context, NEW s \in Sessions(file, avail), NEW a \in Nat, a > 0,
         NEW sh, NEW b, s.c.global_state = "PRESCAN", ~s.c.crank, s.c.is_dummy_pass,
         s.c.output_scanline + 1 < file.rows, NEW u, RowAfter(file, avail, s, u, a, b),
         NEW z, Len(z) = s.c.output_scanline + 1, Complete(file, s.c, a, b, z)
  PROVE  After(file, avail, u, a, z, sh)
<1> DEFINE x == s.c.output_scanline + 1
<1>1. /\ u \in Sessions(file, avail) /\ u.err = "none" /\ Methods(u.c)
      /\ u.c.global_state = "PRESCAN" /\ ~u.c.crank /\ u.c.is_dummy_pass
      /\ u.c.decompress = s.c.decompress /\ u.c.has_multiple_scans = s.c.has_multiple_scans
      /\ Decoding(file, u.c, u.pos, u.tables, u.coefs, b)
      /\ u.c.output_scan_number >= DueOf(file, u.c, a, b)
      /\ u.c.output_scanline = x /\ u.c.output_iMCU_row = x
      /\ u.c.decompress = "onepass" /\ x < file.rows =>
           u.c.consume_input = "data" /\ u.c.input_iMCU_row = x
  BY DEF RowAfter
<1>2. Complete(file, u.c, a, b, z)
  BY <1>1, CompleteSame
<1>3. b \in 1..u.pos
  BY <1>1 DEF Decoding, Parsed, Begins
<1>4. x \in Nat /\ x > 0 /\ x < file.rows /\ x <= file.rows /\ Len(z) = x
  BY RowTypes
<1> HIDE DEF x
<1>5. Passing(file, u.c, a, z, sh, b)
  BY <1>1, <1>2, <1>4 DEF Passing
<1>6. Standing(file, u.c, u.pos, u.tables, u.coefs, a, z, sh)
  BY <1>1, <1>3, <1>5, StandingRuns DEF Running, Outputs
<1> QED
  BY <1>1, <1>6 DEF After

\* The last one: the strip holds the whole image.
LEMMA DummyEnds ==
  ASSUME Context, NEW s \in Sessions(file, avail), NEW a \in Nat, a > 0, NEW b, Methods(s.c),
         s.c.global_state = "PRESCAN", s.c.is_dummy_pass,
         s.c.output_scanline < file.rows, ~(s.c.output_scanline + 1 < file.rows),
         s.c.output_scan_number >= DueOf(file, s.c, a, b),
         NEW t, Emitted(file, avail, s, t, a, b), NEW sh,
         NEW z, Len(z) = s.c.output_scanline + 1, Complete(file, s.c, a, b, z)
  PROVE  After(file, avail, [t EXCEPT !.c = PrepareForOutputPass([@ EXCEPT !.colormap = TRUE])],
               a, z, sh)
<1> DEFINE u == [t EXCEPT !.c = PrepareForOutputPass([@ EXCEPT !.colormap = TRUE])]
<1>1. /\ t \in Sessions(file, avail) /\ t.err = "none" /\ Advanced(s.c, t.c)
      /\ Decoding(file, t.c, t.pos, t.tables, t.coefs, b)
  BY DEF Emitted
<1>2. /\ t.c.is_dummy_pass /\ t.c.buffered_image = s.c.buffered_image
      /\ t.c.decompress = s.c.decompress /\ t.c.output_scan_number = s.c.output_scan_number
      /\ t.c.has_multiple_scans = s.c.has_multiple_scans /\ t.c.global_state = "PRESCAN"
  BY <1>1 DEF Advanced, SamePass
<1>3. /\ u \in Sessions(file, avail) /\ u.pos = t.pos /\ u.tables = t.tables
      /\ u.coefs = t.coefs /\ u.err = t.err /\ PassTurns(t.c, u.c)
  BY <1>1, <1>2, PassTurned
<1> HIDE DEF u
<1>4. /\ ~u.c.is_dummy_pass /\ u.c.crank /\ u.c.output_scanline = 0
      /\ u.c.buffered_image = s.c.buffered_image
      /\ u.c.decompress = s.c.decompress /\ u.c.output_scan_number = s.c.output_scan_number
      /\ u.c.has_multiple_scans = s.c.has_multiple_scans /\ u.c.global_state = "PRESCAN"
      /\ SameHeader(t.c, u.c) /\ SameInput(t.c, u.c)
  BY <1>2, <1>3 DEF PassTurns, SameHeader
<1>5. Decoding(file, u.c, u.pos, u.tables, u.coefs, b)
  BY <1>1, <1>3, <1>4, DecodingSame
<1>6. b \in 1..u.pos
  BY <1>5 DEF Decoding, Parsed, Begins
<1>7. Methods(u.c)
  BY <1>4 DEF Methods
<1>8. u.c.output_scan_number >= DueOf(file, u.c, a, b)
  BY <1>4, SameDue
<1>9. Complete(file, u.c, a, b, z)
  BY <1>4, CompleteSame
<1>10. Len(z) = file.rows /\ 0 <= file.rows
  BY RowTypes
<1>11. Passing(file, u.c, a, z, sh, b)
  BY <1>4, <1>8, <1>9, <1>10 DEF Passing
<1>12. Standing(file, u.c, u.pos, u.tables, u.coefs, a, z, sh)
  BY <1>4, <1>5, <1>6, <1>7, <1>11, StandingRuns DEF Running, Outputs
<1>13. After(file, avail, u, a, z, sh)
  BY <1>1, <1>3, <1>12 DEF After
<1> QED
  BY <1>13 DEF u

\* Nothing more to prepare: the rows can be read.
LEMMA PassReady ==
  ASSUME Context, NEW s \in Sessions(file, avail), s.err = "none", NEW a \in Nat, a > 0, NEW st,
         NEW sh, NEW b, Decoding(file, s.c, s.pos, s.tables, s.coefs, b), Methods(s.c),
         Passing(file, s.c, a, st, sh, b), s.c.global_state = "PRESCAN", ~s.c.is_dummy_pass
  PROVE  After(file, avail, [s EXCEPT !.c.global_state = "SCANNING"], a, st, <<>>)
<1> DEFINE g == "SCANNING"
           u == [s EXCEPT !.c.global_state = g]
<1>1. g \in States
  BY DEF States, Running, Outputs
<1> HIDE DEF g
<1>2. /\ u \in Sessions(file, avail) /\ u.pos = s.pos /\ u.tables = s.tables
      /\ u.coefs = s.coefs /\ u.err = "none" /\ Moved(s.c, u.c, g)
  BY <1>1, StateSet
<1> HIDE DEF u
<1>3. /\ u.c.global_state = "SCANNING" /\ SameHeader(s.c, u.c) /\ SameInput(s.c, u.c)
      /\ ~u.c.is_dummy_pass /\ u.c.decompress = s.c.decompress
      /\ u.c.buffered_image = s.c.buffered_image /\ u.c.crank = s.c.crank
      /\ u.c.output_scanline = s.c.output_scanline
      /\ u.c.output_iMCU_row = s.c.output_iMCU_row
      /\ u.c.output_scan_number = s.c.output_scan_number
      /\ u.c.has_multiple_scans = s.c.has_multiple_scans
      /\ u.c.consume_input = s.c.consume_input /\ u.c.input_iMCU_row = s.c.input_iMCU_row
  BY <1>2 DEF Moved, SamePass, SameHeader, SameInput, g
<1>4. Decoding(file, u.c, u.pos, u.tables, u.coefs, b)
  BY <1>2, <1>3, DecodingSame
<1>5. b \in 1..u.pos
  BY <1>4 DEF Decoding, Parsed, Begins
<1>6. Methods(u.c)
  BY <1>3 DEF Methods
<1>7. u.c.output_scan_number >= DueOf(file, u.c, a, b)
  BY <1>3, SameDue DEF Passing
<1>8. Complete(file, s.c, a, b, st) => Complete(file, u.c, a, b, st)
  BY <1>3, CompleteSame
<1>9. Complete(file, u.c, a, b, <<>>)
  BY DEF Complete
<1>10. Passing(file, u.c, a, st, <<>>, b)
  BY <1>3, <1>7, <1>8, <1>9 DEF Passing
<1>11. Standing(file, u.c, u.pos, u.tables, u.coefs, a, st, <<>>)
  BY <1>3, <1>4, <1>5, <1>6, <1>10, StandingRuns DEF Running, Outputs
<1>12. After(file, avail, u, a, st, <<>>)
  BY <1>2, <1>11 DEF After
<1> QED
  BY <1>12 DEF u, g

\* What it asks for again is still enough.
LEMMA TargetRenewed ==
  ASSUME DecoderInv, error = "none", cinfo.global_state = "PRESCAN"
  PROVE  LET c == IF cinfo.buffered_image
                  THEN [cinfo EXCEPT !.output_scan_number = Target(cinfo, asked)] ELSE cinfo
             w == [Session EXCEPT !.c = c]
         IN  /\ w \in Sessions(file, avail) /\ w.c = c /\ w.err = "none" /\ Methods(c)
             /\ SameOutput(cinfo, c)
             /\ \E b \in 1..pos : /\ Decoding(file, w.c, w.pos, w.tables, w.coefs, b)
                                  /\ Passing(file, c, asked, strip, shown, b)
<1> DEFINE c == IF cinfo.buffered_image
                THEN [cinfo EXCEPT !.output_scan_number = Target(cinfo, asked)] ELSE cinfo
           w == [Session EXCEPT !.c = c]
<1>1. /\ Context /\ Session \in Sessions(file, avail) /\ Session.c = cinfo
      /\ Session.pos = pos /\ Session.tables = tables /\ Session.coefs = coefs
      /\ Session.err = "none" /\ asked \in Nat /\ Len(file.els) \in Nat /\ cinfo \in Objects
  BY Called
<1>2. cinfo.global_state \in Running /\ cinfo.global_state \in Outputs
  BY DEF Running, Outputs
<1>3. Methods(cinfo)
  BY <1>2, CalledRunning
<1>4. PICK b \in 1..pos : /\ Decoding(file, cinfo, pos, tables, coefs, b)
                          /\ Passing(file, cinfo, asked, strip, shown, b)
  BY <1>2, CalledRunning
<1>5. /\ c \in Objects /\ SameHeader(cinfo, c) /\ SameInput(cinfo, c) /\ SameOutput(cinfo, c)
      /\ c.output_scan_number >= DueOf(file, cinfo, asked, b)
  <2>1. CASE cinfo.buffered_image
    <3> DEFINE x == Target(cinfo, asked)
    <3>1. x \in Nat /\ x >= DueOf(file, cinfo, asked, b)
      BY <1>1, <1>4, TargetEnough
    <3>2. c = [cinfo EXCEPT !.output_scan_number = x]
      BY <2>1
    <3> HIDE DEF x, c
    <3>3. Aimed(cinfo, c, x)
      BY <1>1, <3>1, <3>2, TargetSet
    <3> QED
      BY <3>1, <3>3 DEF Aimed
  <2>2. CASE ~cinfo.buffered_image
    <3>1. c = cinfo
      BY <2>2
    <3> HIDE DEF c
    <3>2. cinfo.output_scan_number >= DueOf(file, cinfo, asked, b)
      BY <1>4 DEF Passing
    <3> QED
      BY <1>1, <3>1, <3>2, SameItself DEF SameHeader
  <2> QED
    BY <2>1, <2>2
<1> HIDE DEF c
<1>6. /\ w \in Sessions(file, avail) /\ w.c = c /\ w.pos = pos /\ w.tables = tables
      /\ w.coefs = coefs /\ w.err = "none"
  BY <1>1, <1>5 DEF Sessions
<1> HIDE DEF w
<1>7. Decoding(file, w.c, w.pos, w.tables, w.coefs, b)
  BY <1>4, <1>5, <1>6, DecodingSame
<1>8. OutputKept(cinfo, c)
  BY <1>5 DEF OutputKept, SameHeader, SameInput
<1>9. Methods(c)
  BY <1>3, <1>8, MethodsKept
<1>10. c.output_scan_number >= DueOf(file, c, asked, b)
  <2>1. DueOf(file, c, asked, b) = DueOf(file, cinfo, asked, b)
    BY <1>8, SameDue DEF OutputKept
  <2> QED
    BY <1>5, <2>1
<1>11. Passing(file, c, asked, strip, shown, b)
  BY <1>4, <1>8, <1>10, PassingKept
<1>12. \E i \in 1..pos : /\ Decoding(file, w.c, w.pos, w.tables, w.coefs, i)
                         /\ Passing(file, c, asked, strip, shown, i)
  BY <1>7, <1>11
<1> QED
  BY <1>5, <1>6, <1>9, <1>12 DEF w, c

LEMMA StepOutputPassSetup == ASSUME DecoderInv, OutputPassSetup PROVE DecoderInv'
<1> DEFINE c == IF cinfo.buffered_image
                THEN [cinfo EXCEPT !.output_scan_number = Target(cinfo, asked)] ELSE cinfo
           w == [Session EXCEPT !.c = c]
           s == Decompress(w)
           row == c.output_scanline
           more == row + 1 < file.rows
           v == [Session EXCEPT !.c = [c EXCEPT !.global_state = "SCANNING"]]
           u == [s EXCEPT !.c = IF more THEN [@ EXCEPT !.output_scanline = row + 1]
                                ELSE PrepareForOutputPass([@ EXCEPT !.colormap = TRUE])]
           z0 == IF row = 0 THEN <<Emission(s.coefs, 0)>> ELSE Append(strip, Emission(s.coefs, row))
           n == IF s.ret = "suspended" THEN "none" ELSE "setup"
<1>0. /\ error = "none" /\ cinfo.global_state = "PRESCAN" /\ asked' = asked
      /\ CASE ~c.is_dummy_pass -> Leaving(v, "none") /\ shown' = <<>> /\ strip' = strip
           [] c.is_dummy_pass /\ s.ret = "emitted" ->
                Leaving(u, "setup") /\ strip' = z0 /\ shown' = shown
           [] c.is_dummy_pass /\ s.ret # "emitted" ->
                Leaving(s, n) /\ shown' = shown /\ strip' = strip
  BY DEF OutputPassSetup, Calling, State
<1>1. /\ Context /\ asked \in Nat /\ strip \in Seq(Emissions) /\ shown \in Seq(Emissions)
      /\ Session \in Sessions(file, avail)
  BY <1>0, Called
<1>2. /\ w \in Sessions(file, avail) /\ w.c = c /\ w.err = "none" /\ Methods(c)
      /\ SameOutput(cinfo, c)
      /\ \E b \in 1..pos : /\ Decoding(file, w.c, w.pos, w.tables, w.coefs, b)
                           /\ Passing(file, c, asked, strip, shown, b)
  BY <1>0, TargetRenewed
<1>3. PICK b \in 1..pos : /\ Decoding(file, w.c, w.pos, w.tables, w.coefs, b)
                          /\ Passing(file, c, asked, strip, shown, b)
  BY <1>2
<1>4. asked > 0
  BY <1>0, CalledRunning DEF Running, Outputs
<1>5. c.global_state = "PRESCAN"
  BY <1>0, <1>2 DEF SameOutput
<1>6. v = [w EXCEPT !.c.global_state = "SCANNING"]
  BY <1>1 DEF Sessions
<1> HIDE DEF c, w
<1>7. CASE ~c.is_dummy_pass
  <2> DEFINE v1 == [w EXCEPT !.c.global_state = "SCANNING"]
  <2>1. After(file, avail, v1, asked, strip, <<>>)
    BY <1>1, <1>2, <1>3, <1>4, <1>5, <1>7, PassReady
  <2>2. Leaving(v1, "none") /\ shown' = <<>> /\ strip' = strip
    BY <1>0, <1>6, <1>7
  <2>3. <<>> \in Seq(Emissions)
    OBVIOUS
  <2> HIDE DEF v1
  <2> QED
    BY <1>0, <1>1, <2>1, <2>2, <2>3, Leaves
<1>8. CASE c.is_dummy_pass
  <2>1. ~c.crank /\ row < file.rows /\ c.output_scan_number >= DueOf(file, c, asked, b)
    BY <1>3, <1>5, <1>8 DEF Passing
  <2>2. Output(file, avail, w, s, asked, b) /\ c.output_iMCU_row = row
    BY <1>1, <1>2, <1>3, <1>5, <2>1, PassOutput DEF Outputs
  <2> HIDE DEF s
  <2>3. CASE s.ret = "emitted"
    <3> DEFINE e == Emission(s.coefs, row)
               z == IF row = 0 THEN <<e>> ELSE Append(strip, e)
               u1 == [s EXCEPT !.c.output_scanline = row + 1]
               u2 == [s EXCEPT !.c = PrepareForOutputPass([@ EXCEPT !.colormap = TRUE])]
    <3>1. Leaving(u, "setup") /\ strip' = z0 /\ shown' = shown
      BY <1>0, <1>8, <2>3
    <3>2. z = z0
      OBVIOUS
    <3>3. (more => u = u1) /\ (~more => u = u2)
      OBVIOUS
    <3>4. Emitted(file, avail, w, s, asked, b)
      BY <2>2, <2>3 DEF Output
    <3>5. /\ RowAfter(file, avail, w, [s EXCEPT !.c.output_scanline = w.c.output_scanline + 1],
                      asked, b)
          /\ Shows(file, w.c, asked, b, Emission(s.coefs, w.c.output_scanline))
      <4>1. w.c.global_state \in Outputs
        BY <1>2, <1>5 DEF Outputs
      <4> QED
        BY <1>1, <1>2, <2>1, <2>2, <3>4, <4>1, RowGone
    <3>6. RowAfter(file, avail, w, u1, asked, b) /\ Shows(file, w.c, asked, b, e)
      BY <1>2, <3>5
    <3> HIDE DEF e
    <3>7. z \in Seq(Emissions) /\ Len(z) = row + 1 /\ Complete(file, w.c, asked, b, z)
      <4> DEFINE y == IF w.c.output_scanline = 0 THEN <<e>> ELSE Append(strip, e)
      <4>1. /\ Passing(file, w.c, asked, strip, shown, b) /\ w.c.global_state = "PRESCAN"
            /\ w.c.is_dummy_pass
        BY <1>2, <1>3, <1>5, <1>8
      <4>2. /\ y \in Seq(Emissions) /\ Len(y) = w.c.output_scanline + 1
            /\ Complete(file, w.c, asked, b, y)
        BY <1>1, <1>2, <3>6, <4>1, StripGrows
      <4>3. y = z /\ w.c.output_scanline = row
        BY <1>2
      <4> HIDE DEF y, z, row
      <4> QED
        BY <4>2, <4>3
    <3> HIDE DEF z, z0, u, u1, u2
    <3>8. After(file, avail, u, asked, z, shown)
      <4>1. CASE more
        <5>1. After(file, avail, u1, asked, z, shown)
          BY <1>1, <1>2, <1>4, <1>5, <1>8, <2>1, <3>6, <3>7, <4>1, DummyRow
        <5> QED
          BY <3>3, <4>1, <5>1
      <4>2. CASE ~more
        <5>1. After(file, avail, u2, asked, z, shown)
          BY <1>1, <1>2, <1>4, <1>5, <1>8, <2>1, <3>4, <3>7, <4>2, DummyEnds DEF u2
        <5> QED
          BY <3>3, <4>2, <5>1
      <4> QED
        BY <4>1, <4>2
    <3> QED
      BY <1>0, <1>1, <3>1, <3>2, <3>7, <3>8, Leaves
  <2>4. CASE s.ret # "emitted"
    <3>1. ImageStep(file, avail, w, s, b)
      BY <2>2, <2>4 DEF Output
    <3>2. After(file, avail, s, asked, strip, shown)
      BY <1>1, <1>2, <1>3, <1>4, <1>5, <3>1, RunningStep DEF Running, Outputs
    <3>3. Leaving(s, n) /\ shown' = shown /\ strip' = strip
      BY <1>0, <1>8, <2>4
    <3> HIDE DEF n
    <3> QED
      BY <1>0, <1>1, <3>2, <3>3, Leaves
  <2> QED
    BY <2>3, <2>4
<1> QED
  BY <1>7, <1>8

-----------------------------------------------------------------------------
(* The application gives up.                                                 *)

LEMMA NextImage ==
  ASSUME NEW f, Len(f.els) \in Nat, Len(f.els) > 0, NEW p \in 0..Len(f.els)
  PROVE  LET images == {i \in (p + 1)..Len(f.els) : f.els[i].t = "soi"}
             next == IF images = {} THEN Len(f.els) ELSE Min(images) - 1
         IN  next \in p..Len(f.els) /\ BetweenImages(f, next)
<1> DEFINE images == {i \in (p + 1)..Len(f.els) : f.els[i].t = "soi"}
           next == IF images = {} THEN Len(f.els) ELSE Min(images) - 1
<1>1. CASE images = {}
  BY <1>1 DEF BetweenImages
<1>2. CASE images # {}
  <2> DEFINE S == (p + 1)..Len(f.els)
             m == Min(images)
  <2>1. IsFiniteSet(S) /\ S \subseteq Int /\ images \in SUBSET S
    <3>1. p + 1 \in Int /\ Len(f.els) \in Int
      OBVIOUS
    <3>2. IsFiniteSet((p + 1)..Len(f.els))
      BY <3>1, FS_Interval, Zenon
    <3> QED
      BY <3>2
  <2>2. m \in images
    <3> HIDE DEF S, images
    <3> QED
      BY <1>2, <2>1, MinMember
  <2> HIDE DEF m
  <2>3. m \in (p + 1)..Len(f.els) /\ f.els[m].t = "soi"
    BY <2>2
  <2>4. next = m - 1
    BY <1>2 DEF m
  <2> HIDE DEF next, images
  <2>5. next \in p..Len(f.els) /\ next \in 0..Len(f.els) /\ next + 1 = m
    BY <2>3, <2>4
  <2>6. BetweenImages(f, next)
    BY <2>3, <2>5 DEF BetweenImages
  <2> QED
    BY <2>5, <2>6 DEF next, images
<1> QED
  BY <1>1, <1>2

LEMMA StepAbort == ASSUME DecoderInv, Abort PROVE DecoderInv'
<1> DEFINE images == {i \in (pos + 1)..Len(file.els) : file.els[i].t = "soi"}
           next == IF images = {} THEN Len(file.els) ELSE Min(images) - 1
           x == IF avail < next THEN next ELSE avail
           t == Aborted(Session)
<1>0. /\ pos' = next /\ avail' = x /\ cinfo' = t.c /\ coefs' = Blank /\ error' = "none"
      /\ shown' = <<>> /\ strip' = <<>> /\ file' = file /\ tables' = tables /\ asked' = asked
  BY DEF Abort
<1>1. Types
  BY DEF DecoderInv
<1>2. /\ Context /\ Session \in Sessions(file, avail) /\ Len(file.els) \in Nat
      /\ Len(file.els) > 0 /\ avail \in 0..Len(file.els) /\ pos \in 0..Len(file.els)
  BY <1>1, SessionIs DEF Types
<1>3. next \in pos..Len(file.els) /\ BetweenImages(file, next)
  BY <1>2, NextImage
<1>4. t.c \in Objects /\ t.c.global_state = "START"
  BY <1>2, AbortedIs DEF Sessions
<1> HIDE DEF next, t
<1>5. x \in 0..Len(file.els) /\ next \in 0..x
  BY <1>2, <1>3
<1> HIDE DEF x
<1>6. Blank \in Arrays(file)
  BY DEF Blank, Arrays, Rows, RowsOf, Cols, ColsOf
<1>7. <<>> \in Seq(Emissions) /\ "none" \in Errors
  BY DEF Errors
<1>8. Types'
  BY <1>0, <1>1, <1>4, <1>5, <1>6, <1>7 DEF Types
<1>9. Standing(file, t.c, next, tables, Blank, asked, <<>>, <<>>)
  BY <1>3, <1>4 DEF Standing, Running, Outputs
<1> HIDE DEF Types
<1> QED
  BY <1>0, <1>8, <1>9 DEF DecoderInv

\* More data, or nothing.
LEMMA StepArrive == ASSUME DecoderInv, Arrive PROVE DecoderInv'
<1>1. /\ file' = file /\ pos' = pos /\ cinfo' = cinfo /\ tables' = tables /\ coefs' = coefs
      /\ error' = error /\ asked' = asked /\ shown' = shown /\ strip' = strip
      /\ avail' = avail + 1 /\ avail < Len(file.els)
  BY DEF Arrive
<1>2. Types'
  <2>1. Types /\ Len(file.els) \in Nat
    BY DEF DecoderInv, Types, Streams
  <2>2. avail + 1 \in 0..Len(file.els) /\ pos \in 0..(avail + 1)
    BY <1>1, <2>1 DEF Types
  <2> QED
    BY <1>1, <2>1, <2>2 DEF Types
<1> HIDE DEF Types
<1> QED
  BY <1>1, <1>2 DEF DecoderInv

LEMMA StepStutter == ASSUME DecoderInv, UNCHANGED vars PROVE DecoderInv'
<1>1. /\ file' = file /\ pos' = pos /\ cinfo' = cinfo /\ tables' = tables /\ coefs' = coefs
      /\ error' = error /\ asked' = asked /\ shown' = shown /\ strip' = strip
      /\ avail' = avail
  BY DEF vars
<1>2. Types'
  BY <1>1 DEF DecoderInv, Types
<1> HIDE DEF Types
<1> QED
  BY <1>1, <1>2 DEF DecoderInv

LEMMA DecoderStarts == ASSUME Init PROVE DecoderInv
<1>1. file \in Streams /\ Len(file.els) > 0 /\ Len(file.els) \in Nat
  BY FileAssumption DEF Init, Streams
<1>2. Blank \in Arrays(file)
  BY DEF Blank, Arrays, Rows, RowsOf, Cols, ColsOf
<1>3. cinfo \in Objects /\ cinfo.global_state = "START"
  BY DEF Init, Objects
<1>4. Types
  <2>1. avail \in 0..Len(file.els) /\ pos \in 0..avail /\ tables \in BOOLEAN /\ asked \in Nat
    <3>1. avail = 0 /\ pos = 0 /\ asked = 0
      BY DEF Init
    <3>2. tables \in BOOLEAN
      BY DEF Init
    <3>3. avail \in 0..Len(file.els) /\ pos \in 0..avail /\ asked \in Nat
      BY <1>1, <3>1
    <3> QED
      BY <3>2, <3>3
  <2>2. coefs \in Arrays(file)
    BY <1>2 DEF Init
  <2>3. error \in Errors /\ shown \in Seq(Emissions) /\ strip \in Seq(Emissions)
    BY DEF Init, Errors
  <2> QED
    BY <1>1, <1>3, <2>1, <2>2, <2>3 DEF Types
<1>5. Standing(file, cinfo, pos, tables, coefs, asked, strip, shown)
  <2>1. BetweenImages(file, pos)
    BY <1>1 DEF Init, BetweenImages
  <2> QED
    BY <1>3, <2>1 DEF Standing, Running, Outputs
<1> QED
  BY <1>4, <1>5 DEF DecoderInv, Init

-----------------------------------------------------------------------------
(* The theorems.                                                             *)

LEMMA LibrarySteps == ASSUME DecoderInv, Library PROVE DecoderInv'
<1>1. CASE \E set \in Settings : StartDecompress(set)
  BY <1>1, StepStartDecompress
<1>2. CASE ReadHeader
  BY <1>2, StepReadHeader
<1>3. CASE ConsumeInput
  BY <1>3, StepConsumeInput
<1>4. CASE Preload
  BY <1>4, StepPreload
<1>5. CASE OutputPassSetup
  BY <1>5, StepOutputPassSetup
<1>6. CASE ReadScanlines
  BY <1>6, StepReadScanlines
<1>7. CASE FinishOutput
  BY <1>7, StepFinishOutput
<1>8. CASE FinishDecompress
  BY <1>8, StepFinishDecompress
<1> QED
  BY <1>1, <1>2, <1>3, <1>4, <1>5, <1>6, <1>7, <1>8 DEF Library

\* What the object knows of the image agrees with the stream, and what it has
\* shown is complete, after any calls of the application in any order, and
\* wherever the data source ran dry.
THEOREM DecoderInvariant == Spec => []DecoderInv
<1>1. Init => DecoderInv
  BY DecoderStarts
<1>2. DecoderInv /\ [Next]_vars => DecoderInv'
  <2> SUFFICES ASSUME DecoderInv, [Next]_vars PROVE DecoderInv'
    OBVIOUS
  <2>1. CASE Library
    BY <2>1, LibrarySteps
  <2>2. CASE Arrive
    BY <2>2, StepArrive
  <2>3. CASE Abort
    BY <2>3, StepAbort
  <2>4. CASE \E n \in 1..(cinfo.input_scan_number + 2), renew \in BOOLEAN : StartOutput(n, renew)
    <3>1. PICK n \in 1..(cinfo.input_scan_number + 2), renew \in BOOLEAN : StartOutput(n, renew)
      BY <2>4
    <3>2. n \in Nat /\ n > 0
      BY DEF DecoderInv, Types, Objects
    <3> QED
      BY <3>1, <3>2, StepStartOutput
  <2>5. CASE UNCHANGED vars
    BY <2>5, StepStutter
  <2> QED
    BY <2>1, <2>2, <2>3, <2>4, <2>5 DEF Next
<1> QED
  BY <1>1, <1>2, PTL DEF Spec

\* Where the image begins, and how many of its scans have been read.
LEMMA ImageCounted ==
  ASSUME DecoderInv, InImage
  PROVE  cinfo.input_scan_number = Cardinality(Scans(pos))
<1>1. Len(file.els) \in Nat
  BY DEF DecoderInv, Types, Streams
<1>2. cinfo.global_state \in Running \cup {"READY"}
  BY DEF InImage, State, Running, Outputs
<1>3. \E b : Begins(file, b, pos) /\ cinfo.input_scan_number = Cardinality(ScansOf(file, b, pos))
  <2>1. CASE error # "none"
    BY <1>2, <2>1 DEF DecoderInv, Stopped
  <2>2. CASE error = "none" /\ cinfo.global_state = "READY"
    <3>1. PICK b \in 1..pos : Ready(file, cinfo, pos, tables, b)
      BY <2>2 DEF DecoderInv, Standing
    <3> QED
      BY <3>1 DEF Ready, Parsed
  <2>3. CASE error = "none" /\ cinfo.global_state \in Running
    <3>1. PICK b \in 1..pos : Decoding(file, cinfo, pos, tables, coefs, b)
      BY <2>3, CalledRunning
    <3> QED
      BY <3>1 DEF Decoding, Parsed
  <2> QED
    BY <1>2, <2>1, <2>2, <2>3
<1>4. PICK b : Begins(file, b, pos) /\ cinfo.input_scan_number = Cardinality(ScansOf(file, b, pos))
  BY <1>3
<1>5. Scans(pos) = ScansOf(file, b, pos)
  BY <1>1, <1>4, ImageIs
<1> QED
  BY <1>4, <1>5

LEMMA ErrorDeserved == ASSUME DecoderInv PROVE Deserved
<1>0. error \in Errors /\ Len(file.els) \in Nat
  BY DEF DecoderInv, Types, Streams
<1>1. CASE error = "none"
  BY <1>1 DEF Deserved
<1>2. CASE error = "NO_SOI"
  <2>1. DeservesAt(file, pos, "NO_SOI")
    BY <1>2 DEF DecoderInv
  <2>2. ~Follows("soi") /\ (pos = 0 \/ file.els[pos].t = "eoi")
    BY <2>1 DEF DeservesAt, Follows
  <2> QED
    BY <1>2, <2>2 DEF Deserved
<1>3. CASE error \notin {"none", "NO_SOI"}
  <2>1. DeservesAt(file, pos, error)
    BY <1>3 DEF DecoderInv
  <2>2. PICK b \in 1..pos : DeservesIn(file, b, pos, error)
    BY <1>3, <2>1 DEF DeservesAt
  <2>3. Begins(file, b, pos)
    BY <2>2 DEF DeservesIn
  <2>4. /\ ImageStart = b /\ Scans(pos) = ScansOf(file, b, pos)
        /\ \A t : Seen(t) = Has(file, b, pos, t)
    BY <1>0, <2>3, StartIs, ImageIs
  <2>5. CASE error = "SOI_DUPLICATE"
    <3>1. Follows("soi") /\ ~Seen("eoi")
      BY <2>2, <2>4, <2>5 DEF DeservesIn, Follows
    <3> QED
      BY <2>5, <3>1 DEF Deserved
  <2>6. CASE error = "SOF_DUPLICATE"
    <3>1. Follows("sof") /\ Seen("sof")
      BY <2>2, <2>4, <2>6 DEF DeservesIn, Follows
    <3> QED
      BY <2>6, <3>1 DEF Deserved
  <2>7. CASE error = "SOS_NO_SOF"
    <3>1. Follows("sos") /\ ~Seen("sof")
      BY <2>2, <2>4, <2>7 DEF DeservesIn, Follows
    <3> QED
      BY <2>7, <3>1 DEF Deserved
  <2>8. CASE error = "SOF_NO_SOS"
    <3>1. file.els[pos].t = "eoi" /\ Seen("sof") /\ Scans(pos) = {}
      BY <2>2, <2>4, <2>8 DEF DeservesIn
    <3> QED
      BY <2>8, <3>1 DEF Deserved
  <2>9. CASE error = "EOI_EXPECTED"
    <3>1. file.els[pos].t = "sos" /\ InOneScan(file, b, pos - 1) /\ pos \in Nat
      BY <2>2, <2>9 DEF DeservesIn
    <3>2. AllInOneScan
      <4>1. PICK k \in b..(pos - 1), j \in b..(pos - 1) :
              /\ file.els[k].t = "sof" /\ ~file.els[k].prog
              /\ file.els[j].t = "sos" /\ file.els[j].n >= file.els[k].n
        BY <3>1 DEF InOneScan
      <4>2. k \in b..pos
        BY <3>1
      <4> QED
        BY <2>4, <4>1, <4>2 DEF AllInOneScan
    <3> QED
      BY <2>9, <3>1, <3>2 DEF Deserved
  <2>10. CASE error = "NO_QUANT_TABLE"
    <3>1. Scans(pos) # {} /\ ~Seen("tables")
      BY <2>2, <2>4, <2>10 DEF DeservesIn
    <3> QED
      BY <2>10, <3>1 DEF Deserved
  <2> QED
    BY <1>0, <1>3, <2>5, <2>6, <2>7, <2>8, <2>9, <2>10 DEF Errors
<1> QED
  BY <1>1, <1>2, <1>3

\* The object is in step with the stream: in an image it has counted that
\* image's scans, and it reports no error that the stream does not deserve,
\* whatever images and pieces of images came before (reset_input_controller,
\* reset_marker_reader, consume_markers, jpeg_abort).
THEOREM DecoderInStep == Spec => []InStep
<1>1. DecoderInv => InStep
  BY ImageCounted, ErrorDeserved DEF InStep
<1> QED
  BY <1>1, DecoderInvariant, PTL

LEMMA RowsComplete == ASSUME DecoderInv PROVE ShownComplete
<1> SUFFICES ASSUME cinfo.global_state = "SCANNING" PROVE ShownComplete
  BY DEF ShownComplete, State
<1>1. Len(file.els) \in Nat
  BY DEF DecoderInv, Types, Streams
<1>2. PICK b : Begins(file, b, pos) /\ Complete(file, cinfo, asked, b, shown)
  <2>1. CASE error # "none"
    <3>1. Stopped(file, cinfo, pos, asked, shown) /\ cinfo.global_state \in Running
      BY <2>1 DEF DecoderInv, Running, Outputs
    <3> QED
      BY <3>1 DEF Stopped
  <2>2. CASE error = "none"
    <3>1. PICK b \in 1..pos : /\ Decoding(file, cinfo, pos, tables, coefs, b)
                              /\ Passing(file, cinfo, asked, strip, shown, b)
      BY <2>2, CalledRunning DEF Running, Outputs
    <3> QED
      BY <3>1 DEF Decoding, Parsed, Passing
  <2> QED
    BY <2>1, <2>2
<1>3. ImageScans = AllScans(file, b) /\ \A i : Scans(i) = ScansOf(file, b, i)
  BY <1>1, <1>2, ImageIs
<1>4. Due = DueOf(file, cinfo, asked, b)
  BY <1>3 DEF Due, DueOf, ScanTotal
<1>5. DueIsDC <=> DCDue(file, cinfo, asked, b)
  BY <1>3, <1>4 DEF DueIsDC, DCDue
<1> QED
  BY <1>2, <1>4, <1>5 DEF ShownComplete, Complete

\* Every row an application gets has the data of the scan it asked for in all
\* its MCUs, and the row below it where block smoothing looks at it, at any
\* pace of input and output, in any mode and wherever calls were suspended
\* (the interlock of decompress_data and decompress_smooth_data, the clamping of
\* output_scan_number in consume_markers and jpeg_start_output, the strip of
\* 2-pass quantization).
THEOREM DecoderShowsComplete == Spec => []ShownComplete
<1>1. DecoderInv => ShownComplete
  BY RowsComplete
<1> QED
  BY <1>1, DecoderInvariant, PTL
=============================================================================
