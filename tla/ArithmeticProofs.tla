-------------------------- MODULE ArithmeticProofs --------------------------
(***************************************************************************)
(* Proofs about the arithmetic coder, for scans of any kind and length.       *)
(*                                                                          *)
(* EncoderInv is inductive together with EstimatesInv: every estimate is a     *)
(* state of the table, so that Qe is below half of the smallest interval.     *)
(* A turn of the renormalization doubles c and a and takes 1 from ct, and the   *)
(* bound on c + a doubles with them; when ct is 0 the bound, 9*2^24, leaves a    *)
(* byte and a carry below 288, and what stays in c is below 2^19.              *)
(*                                                                          *)
(* DecoderInv is inductive together with At, which names the bin that each     *)
(* decision of an MCU is asked for with: the value a magnitude has is 2^n when  *)
(* its bin is n behind the first.  A byte that is read is before the EOI that   *)
(* ends the scan, whichever byte was damaged, or the decoder has met a marker.  *)
(***************************************************************************)
EXTENDS ArithmeticScans, FoldLemmas, TLAPS

Registers ==
  [c : Nat, a : Nat, sc : Nat, zc : Nat, ct : Int, buffer : Int, out : Seq(Int)]
EstimatesInv == \A b \in DOMAIN estats : estats[b] \in States
IInv ==
  /\ e \in Registers /\ EncoderInv /\ EstimatesInv
  /\ job \in Jobs /\ coded \in Nat

-----------------------------------------------------------------------------
(* Bytes.                                                                   *)

LEMMA Joined ==
  ASSUME NEW s \in Seq(Int), NEW t \in Seq(Int), WellStuffed(s), WellStuffed(t)
  PROVE  s \o t \in Seq(Int) /\ WellStuffed(s \o t)
<1> DEFINE u == s \o t
<1>1. /\ u \in Seq(Int) /\ DOMAIN u = 1..Len(u) /\ Len(u) = Len(s) + Len(t)
      /\ \A i \in 1..Len(s) : u[i] = s[i]
      /\ \A i \in 1..Len(u) : i > Len(s) => u[i] = t[i - Len(s)]
  OBVIOUS
<1>2. Len(s) \in Nat /\ Len(t) \in Nat /\ DOMAIN s = 1..Len(s) /\ DOMAIN t = 1..Len(t)
  OBVIOUS
<1> HIDE DEF u
<1>3. ASSUME NEW i \in DOMAIN u
      PROVE  /\ 0 <= u[i] /\ u[i] < 256
             /\ u[i] = 255 => i + 1 \in DOMAIN u /\ u[i + 1] \in {0} \cup (208..215)
  <2>0. i \in Int /\ 1 <= i /\ i <= Len(u)
    BY <1>1, <1>2
  <2>1. CASE i <= Len(s)
    <3>1. i \in DOMAIN s /\ u[i] = s[i]
      BY <1>1, <1>2, <2>0, <2>1
    <3>2. /\ 0 <= s[i] /\ s[i] < 256
          /\ s[i] = 255 => i + 1 \in DOMAIN s /\ s[i + 1] \in {0} \cup (208..215)
      BY <3>1, Zenon DEF WellStuffed
    <3>3. i + 1 \in DOMAIN s => i + 1 \in DOMAIN u /\ u[i + 1] = s[i + 1]
      BY <1>1, <1>2
    <3> QED
      BY <3>1, <3>2, <3>3, Zenon
  <2>2. CASE i > Len(s)
    <3> DEFINE k == i - Len(s)
    <3>0. k \in Int /\ i = k + Len(s) /\ k = i - Len(s)
      BY <1>2, <2>0
    <3>1. k \in DOMAIN t /\ u[i] = t[k]
      BY <1>1, <1>2, <2>0, <2>2
    <3> HIDE DEF k
    <3>2. /\ 0 <= t[k] /\ t[k] < 256
          /\ t[k] = 255 => k + 1 \in DOMAIN t /\ t[k + 1] \in {0} \cup (208..215)
      BY <3>1, Zenon DEF WellStuffed
    <3>3. ASSUME k + 1 \in DOMAIN t
          PROVE  i + 1 \in DOMAIN u /\ u[i + 1] = t[k + 1]
      <4>2. k + 1 <= Len(t)
        BY <1>2, <3>0, <3>3
      <4>3. Len(u) = Len(s) + Len(t)
        BY <1>1
      <4>4. k \in Int /\ i = k + Len(s) /\ i >= 1 /\ i > Len(s)
        BY <2>0, <2>2, <3>0
      <4>5. i + 1 <= Len(u)
        BY <1>2, <4>2, <4>3, <4>4
      <4>1. i + 1 \in 1..Len(u) /\ i + 1 > Len(s) /\ (i + 1) - Len(s) = k + 1
        BY <1>2, <4>3, <4>4, <4>5
      <4> QED
        BY <1>1, <4>1
    <3> QED
      BY <3>1, <3>2, <3>3, Zenon
  <2> QED
    BY <1>2, <2>0, <2>1, <2>2
<1>4. WellStuffed(u)
  BY <1>3, Zenon DEF WellStuffed
<1> QED
  BY <1>1, <1>4 DEF u

LEMMA ZerosStuffed ==
  ASSUME NEW n \in Nat
  PROVE  Zeros(n) \in Seq(Int) /\ WellStuffed(Zeros(n))
BY DEF Zeros, WellStuffed

LEMMA StackedStuffed ==
  ASSUME NEW n \in Nat
  PROVE  Stacked(n) \in Seq(Int) /\ WellStuffed(Stacked(n))
<1> DEFINE m == 2*n
<1>4. m \in Nat
  OBVIOUS
<1>5. Stacked(n) = [i \in 1..m |-> IF i % 2 = 1 THEN 255 ELSE 0]
  BY DEF Stacked
<1> HIDE DEF m
<1>1. Stacked(n) \in Seq(Int) /\ DOMAIN Stacked(n) = 1..m
  BY <1>4, <1>5
<1>2. \A i \in 1..m : Stacked(n)[i] = IF i % 2 = 1 THEN 255 ELSE 0
  BY <1>5
<1>3. \A i \in 1..m : i % 2 = 1 => i + 1 \in 1..m /\ (i + 1) % 2 = 0
  BY DEF m
<1> QED
  BY <1>1, <1>2, <1>3 DEF WellStuffed

LEMMA ByteStuffed ==
  ASSUME NEW b \in Int, 0 <= b, b < 256
  PROVE  /\ Stuffed(b) \in Seq(Int) /\ WellStuffed(Stuffed(b))
         /\ b # 255 => <<b>> \in Seq(Int) /\ WellStuffed(<<b>>)
BY DEF Stuffed, WellStuffed

LEMMA EmptyStuffed == <<>> \in Seq(Int) /\ WellStuffed(<<>>)
BY DEF WellStuffed

-----------------------------------------------------------------------------
(* The bytes written by a carry, or when no carry can come any more.          *)

LEMMA CarriedKeeps ==
  ASSUME NEW r \in Registers, WellStuffed(r.out), -1 <= r.buffer, r.buffer < 255
  PROVE  LET f == Carried(r)
         IN /\ f \in Registers /\ WellStuffed(f.out)
            /\ f.c = r.c /\ f.a = r.a /\ f.ct = r.ct /\ f.buffer = r.buffer
<1> DEFINE out == IF r.buffer >= 0 THEN r.out \o Zeros(r.zc) \o Stuffed(r.buffer + 1) ELSE r.out
           zc == r.sc + IF r.buffer >= 0 THEN 0 ELSE r.zc
<1>1. out \in Seq(Int) /\ WellStuffed(out)
  <2>1. r.out \in Seq(Int) /\ r.zc \in Nat /\ r.buffer \in Int
    BY DEF Registers
  <2>2. r.out \o Zeros(r.zc) \in Seq(Int) /\ WellStuffed(r.out \o Zeros(r.zc))
    BY <2>1, ZerosStuffed, Joined
  <2>3. CASE r.buffer >= 0
    <3> DEFINE b == r.buffer + 1
    <3>3. b \in Int /\ 0 <= b /\ b < 256
      BY <2>1, <2>3
    <3> HIDE DEF b
    <3>4. Stuffed(b) \in Seq(Int) /\ WellStuffed(Stuffed(b))
      BY <3>3, ByteStuffed
    <3>1. Stuffed(r.buffer + 1) \in Seq(Int) /\ WellStuffed(Stuffed(r.buffer + 1))
      BY <3>4 DEF b
    <3>2. out = (r.out \o Zeros(r.zc)) \o Stuffed(r.buffer + 1)
      BY <2>3
    <3> HIDE DEF out
    <3> QED
      BY <2>2, <3>1, <3>2, Joined
  <2> QED
    BY <2>1, <2>3
<1>2. zc \in Nat
  BY DEF Registers
<1>3. Carried(r) = [r EXCEPT !.out = out, !.zc = zc, !.sc = 0]
  BY DEF Carried
<1> HIDE DEF out, zc
<1> DEFINE f == Carried(r)
<1> HIDE DEF f
<1>4. f = [r EXCEPT !.out = out, !.zc = zc, !.sc = 0]
  BY <1>3 DEF f
<1>5. /\ f \in Registers /\ f.out = out
      /\ f.c = r.c /\ f.a = r.a /\ f.ct = r.ct /\ f.buffer = r.buffer
  BY <1>1, <1>2, <1>4 DEF Registers
<1> QED
  BY <1>1, <1>5 DEF f

LEMMA SettledKeeps ==
  ASSUME NEW r \in Registers, WellStuffed(r.out), -1 <= r.buffer, r.buffer < 255
  PROVE  LET f == Settled(r)
         IN /\ f \in Registers /\ WellStuffed(f.out)
            /\ f.c = r.c /\ f.a = r.a /\ f.ct = r.ct /\ f.buffer = r.buffer
<1> DEFINE zc == r.zc + IF r.buffer = 0 THEN 1 ELSE 0
           byte == IF r.buffer > 0 THEN Zeros(zc) \o <<r.buffer>> ELSE <<>>
           left == IF r.buffer > 0 THEN 0 ELSE zc
           stack == IF r.sc > 0 THEN Zeros(left) \o Stacked(r.sc) ELSE <<>>
           last == IF r.sc > 0 THEN 0 ELSE left
<1>0. r.out \in Seq(Int) /\ r.zc \in Nat /\ r.sc \in Nat /\ r.buffer \in Int
  BY DEF Registers
<1>1. zc \in Nat /\ left \in Nat /\ last \in Nat
  BY <1>0
<1> HIDE DEF last
<1> HIDE DEF zc
<1>2. byte \in Seq(Int) /\ WellStuffed(byte)
  <2>1. CASE r.buffer > 0
    <3>1. Zeros(zc) \in Seq(Int) /\ WellStuffed(Zeros(zc))
      BY <1>1, ZerosStuffed
    <3>2. <<r.buffer>> \in Seq(Int) /\ WellStuffed(<<r.buffer>>)
      BY <1>0, <2>1, ByteStuffed
    <3> QED
      BY <2>1, <3>1, <3>2, Joined
  <2> QED
    BY <2>1, EmptyStuffed
<1> HIDE DEF byte, left
<1>3. stack \in Seq(Int) /\ WellStuffed(stack)
  <2>1. Zeros(left) \o Stacked(r.sc) \in Seq(Int) /\ WellStuffed(Zeros(left) \o Stacked(r.sc))
    BY <1>0, <1>1, ZerosStuffed, StackedStuffed, Joined
  <2> QED
    BY <2>1, EmptyStuffed
<1>4. Settled(r) = [r EXCEPT !.out = (r.out \o byte) \o stack, !.zc = last, !.sc = 0]
  BY DEF Settled, zc, byte, left, last
<1> HIDE DEF stack
<1>5. (r.out \o byte) \o stack \in Seq(Int) /\ WellStuffed((r.out \o byte) \o stack)
  BY <1>0, <1>2, <1>3, Joined
<1> DEFINE f == Settled(r)
           out == (r.out \o byte) \o stack
<1> HIDE DEF f, out
<1>6. f = [r EXCEPT !.out = out, !.zc = last, !.sc = 0]
  BY <1>4 DEF f, out
<1>7. out \in Seq(Int) /\ WellStuffed(out)
  BY <1>5 DEF out
<1>8. /\ f \in Registers /\ f.out = out
      /\ f.c = r.c /\ f.a = r.a /\ f.ct = r.ct /\ f.buffer = r.buffer
  BY <1>1, <1>6, <1>7 DEF Registers
<1> QED
  BY <1>7, <1>8 DEF f

-----------------------------------------------------------------------------
(* The registers: a turn of the renormalization, and a decision.             *)

\* Each way in which the registers change, apart from the numbers put there.
WithBuffer(r, z) == [r EXCEPT !.buffer = z]
WithStack(r, x) == [r EXCEPT !.sc = x]
WithLow(r, x, z) == [r EXCEPT !.c = x, !.ct = z]
WithShift(r, x, y, z) == [r EXCEPT !.a = y, !.c = x, !.ct = z]
WithUpper(r, x, y) == [r EXCEPT !.c = x, !.a = y]
WithLower(r, y) == [r EXCEPT !.a = y]

LEMMA BufferChanges ==
  ASSUME NEW r \in Registers, NEW z \in Int
  PROVE  LET f == WithBuffer(r, z)
         IN /\ f \in Registers /\ f.out = r.out /\ f.buffer = z
            /\ f.a = r.a /\ f.c = r.c /\ f.ct = r.ct
BY DEF Registers, WithBuffer

LEMMA StackChanges ==
  ASSUME NEW r \in Registers, NEW x \in Nat
  PROVE  LET f == WithStack(r, x)
         IN /\ f \in Registers /\ f.out = r.out /\ f.buffer = r.buffer
            /\ f.a = r.a /\ f.c = r.c /\ f.ct = r.ct
BY DEF Registers, WithStack

LEMMA LowChanges ==
  ASSUME NEW r \in Registers, NEW x \in Nat, NEW z \in Int
  PROVE  LET f == WithLow(r, x, z)
         IN /\ f \in Registers /\ f.out = r.out /\ f.buffer = r.buffer
            /\ f.a = r.a /\ f.c = x /\ f.ct = z
BY DEF Registers, WithLow

LEMMA ShiftChanges ==
  ASSUME NEW r \in Registers, NEW x \in Nat, NEW y \in Nat, NEW z \in Int
  PROVE  LET f == WithShift(r, x, y, z)
         IN /\ f \in Registers /\ f.out = r.out /\ f.buffer = r.buffer
            /\ f.a = y /\ f.c = x /\ f.ct = z
BY DEF Registers, WithShift

LEMMA UpperChanges ==
  ASSUME NEW r \in Registers, NEW x \in Nat, NEW y \in Nat
  PROVE  LET f == WithUpper(r, x, y)
         IN /\ f \in Registers /\ f.out = r.out /\ f.buffer = r.buffer
            /\ f.a = y /\ f.c = x /\ f.ct = r.ct
BY DEF Registers, WithUpper

LEMMA LowerChanges ==
  ASSUME NEW r \in Registers, NEW y \in Nat
  PROVE  LET f == WithLower(r, y)
         IN /\ f \in Registers /\ f.out = r.out /\ f.buffer = r.buffer
            /\ f.a = y /\ f.c = r.c /\ f.ct = r.ct
BY DEF Registers, WithLower

\* 9*2^24 is 288*2^19: the byte behind a carry is below 32.
Top == 288*ByteUnit

LEMMA ByteReadyKeeps ==
  ASSUME NEW r \in Registers, WellStuffed(r.out), -1 <= r.buffer, r.buffer < 255,
         r.c < Top
  PROVE  LET f == ByteReady(r)
         IN /\ f \in Registers /\ WellStuffed(f.out)
            /\ f.a = r.a /\ f.ct = 8 /\ f.c < ByteUnit /\ -1 <= f.buffer /\ f.buffer < 255
<1> DEFINE temp == r.c \div ByteUnit
           low == r.c % ByteUnit
           top == temp % 256
           settled == IF temp > 255 THEN WithBuffer(Carried(r), top)
                      ELSE IF temp = 255 THEN WithStack(r, r.sc + 1)
                      ELSE WithBuffer(Settled(r), temp)
<1>1. temp \in Nat /\ temp < 288 /\ low \in Nat /\ low < ByteUnit
  <2>1. r.c \in Nat
    BY DEF Registers
  <2> QED
    BY SMT, <2>1 DEF Top, ByteUnit
<1>2. top \in Nat /\ top < 256 /\ (temp > 255 => top < 255)
  BY <1>1
<1>3. ByteReady(r) = WithLow(settled, settled.c % ByteUnit, 8)
  BY Zenon DEF ByteReady, WithLow, WithBuffer, WithStack
<1> HIDE DEF temp, top, low
<1>4. /\ settled \in Registers /\ WellStuffed(settled.out)
      /\ settled.c = r.c /\ settled.a = r.a
      /\ -1 <= settled.buffer /\ settled.buffer < 255
  <2>1. CASE temp > 255
    <3>1. settled = WithBuffer(Carried(r), top)
      BY <2>1, Zenon
    <3>2. /\ Carried(r) \in Registers /\ WellStuffed(Carried(r).out)
          /\ Carried(r).c = r.c /\ Carried(r).a = r.a
      BY CarriedKeeps, Zenon
    <3>3. top \in Int /\ -1 <= top /\ top < 255
      BY <1>2, <2>1
    <3> HIDE DEF settled
    <3> QED
      BY <3>1, <3>2, <3>3, BufferChanges, Zenon
  <2>2. CASE temp = 255
    <3>1. r.sc + 1 \in Nat
      BY DEF Registers
    <3>2. settled = WithStack(r, r.sc + 1)
      BY <2>2
    <3> HIDE DEF settled
    <3> QED
      BY <3>1, <3>2, StackChanges, Zenon
  <2>3. CASE temp < 255
    <3>1. settled = WithBuffer(Settled(r), temp)
      BY <1>1, <2>3
    <3>2. /\ Settled(r) \in Registers /\ WellStuffed(Settled(r).out)
          /\ Settled(r).c = r.c /\ Settled(r).a = r.a
      BY SettledKeeps, Zenon
    <3>3. temp \in Int /\ -1 <= temp /\ temp < 255
      BY <1>1, <2>3
    <3> HIDE DEF settled
    <3> QED
      BY <3>1, <3>2, <3>3, BufferChanges, Zenon
  <2> QED
    BY <1>1, <2>1, <2>2, <2>3
<1> HIDE DEF settled
<1>5. ByteReady(r) = WithLow(settled, low, 8)
  BY <1>3, <1>4 DEF low
<1>6. /\ ByteReady(r) \in Registers /\ ByteReady(r).out = settled.out
      /\ ByteReady(r).buffer = settled.buffer /\ ByteReady(r).a = settled.a
      /\ ByteReady(r).c = low /\ ByteReady(r).ct = 8
  <2>1. settled \in Registers /\ low \in Nat /\ 8 \in Int
    BY <1>1, <1>4
  <2> DEFINE g == WithLow(settled, low, 8)
  <2>2. /\ g \in Registers /\ g.out = settled.out /\ g.buffer = settled.buffer
        /\ g.a = settled.a /\ g.c = low /\ g.ct = 8
    BY <2>1, LowChanges, ZenonT(40)
  <2> QED
    BY <1>5, <2>2, Zenon
<1> QED
  BY <1>1, <1>4, <1>6

LEMMA RenormalizedKeeps ==
  ASSUME e \in Registers, EncoderInv, e.a < Half
  PROVE  LET f == Renormalized(e)
         IN /\ f \in Registers /\ WellStuffed(f.out)
            /\ 0 < f.a /\ f.a <= Whole /\ f.ct \in 1..11 /\ f.c + f.a <= Cap[f.ct]
            /\ -1 <= f.buffer /\ f.buffer < 255
<1> DEFINE x == 2*e.c
           y == 2*e.a
           z == e.ct - 1
           r == WithShift(e, x, y, z)
           f == Renormalized(e)
<1>1. /\ e.c \in Nat /\ e.a \in Nat /\ e.ct \in 1..11 /\ 0 < e.a /\ e.c + e.a <= Cap[e.ct]
      /\ -1 <= e.buffer /\ e.buffer < 255 /\ WellStuffed(e.out)
  BY SMT DEF EncoderInv, Registers
<1>2. x \in Nat /\ y \in Nat /\ 0 < y /\ y < Whole /\ z \in 0..10 /\ z \in Int
  BY SMT, <1>1 DEF Half, Whole
<1>3. IF z = 0 THEN x + y <= Top ELSE x + y <= Cap[z]
  BY SMT, <1>1 DEF Cap, Top, ByteUnit
<1>5. f = IF r.ct = 0 THEN ByteReady(r) ELSE r
  BY Zenon DEF Renormalized, WithShift
<1> HIDE DEF x, y, z
<1>6. /\ r \in Registers /\ r.c = x /\ r.a = y /\ r.ct = z
      /\ r.buffer = e.buffer /\ r.out = e.out
  <2>1. e \in Registers /\ x \in Nat /\ y \in Nat /\ z \in Int
    BY <1>2
  <2> HIDE DEF r, f
  <2>2. /\ WithShift(e, x, y, z) \in Registers
        /\ WithShift(e, x, y, z).c = x /\ WithShift(e, x, y, z).a = y
        /\ WithShift(e, x, y, z).ct = z
        /\ WithShift(e, x, y, z).buffer = e.buffer /\ WithShift(e, x, y, z).out = e.out
    BY <2>1, ShiftChanges, SMT
  <2> QED
    BY <2>2, Zenon DEF r
<1> HIDE DEF r, f
<1>7. CASE z = 0
  <2>1. r.c < Top
    BY SMT, <1>2, <1>3, <1>6, <1>7 DEF Top, ByteUnit
  <2>2. /\ f \in Registers /\ WellStuffed(f.out)
        /\ f.a = r.a /\ f.ct = 8 /\ f.c < ByteUnit /\ -1 <= f.buffer /\ f.buffer < 255
    BY <1>1, <1>5, <1>6, <1>7, <2>1, ByteReadyKeeps
  <2>3. f.c \in Nat
    BY <2>2 DEF Registers
  <2>4. Cap[8] = ByteUnit + Whole
    BY SMT DEF Cap, ByteUnit, Whole
  <2>5. f.c + f.a <= Cap[f.ct] /\ f.a <= Whole
    BY SMT, <1>2, <1>6, <2>2, <2>3, <2>4 DEF ByteUnit, Whole
  <2> QED
    BY <1>2, <1>6, <2>2, <2>5 DEF f
<1>8. CASE z # 0
  <2>1. f = r
    BY <1>5, <1>6, <1>8
  <2>2. f.a <= Whole /\ f.ct \in 1..11
    BY SMT, <1>2, <1>6, <1>8, <2>1 DEF Whole
  <2> QED
    BY <1>1, <1>2, <1>3, <1>6, <1>8, <2>1, <2>2 DEF f
<1> QED
  BY <1>7, <1>8

\* What the table gives, as facts about Qe alone.
LEMMA Estimates ==
  ASSUME NEW s \in States
  PROVE  /\ Qe(s) \in Nat /\ 0 < Qe(s) /\ Qe(s) < Half
         /\ AfterLPS(s) \in States /\ AfterMPS(s) \in States
BY TableAssumption

LEMMA StatIsState ==
  ASSUME EstimatesInv, NEW bin
  PROVE  Stat(estats, bin) \in States
BY DEF EstimatesInv, Stat, States, FixedBin

\* One decision keeps c + a, or lowers it, and leaves the other registers.
LEMMA IntervalKeeps ==
  ASSUME NEW r \in Registers, Half <= r.a, r.a <= Whole, NEW s \in States, NEW val
  PROVE  LET f == Interval(r, s, val)
         IN /\ f \in Registers /\ 0 < f.a /\ f.a <= Whole /\ f.c + f.a <= r.c + r.a
            /\ f.ct = r.ct /\ f.buffer = r.buffer /\ f.out = r.out
<1> DEFINE q == Qe(s)
           y == r.a - q
           x == r.c + y
           f == Interval(r, s, val)
<1>1. q \in Nat /\ 0 < q /\ q < Half
  BY Estimates
<1>2. f = WithUpper(r, x, q) \/ f = WithLower(r, y)
  BY DEF Interval, WithUpper, WithLower
<1> HIDE DEF q, f
<1>3. r.c \in Nat /\ r.a \in Nat
  BY DEF Registers
<1>4. /\ y \in Nat /\ x \in Nat /\ 0 < y /\ y <= Whole /\ q <= Whole
      /\ x + q = r.c + r.a /\ r.c + y <= r.c + r.a
  BY SMT, <1>1, <1>3 DEF Half, Whole
<1> HIDE DEF x, y
<1>5. CASE f = WithUpper(r, x, q)
  <2>1. /\ f \in Registers /\ f.c = x /\ f.a = q
        /\ f.ct = r.ct /\ f.buffer = r.buffer /\ f.out = r.out
    <3>1. r \in Registers /\ x \in Nat /\ q \in Nat
      BY <1>1, <1>4
    <3>2. /\ WithUpper(r, x, q) \in Registers
          /\ WithUpper(r, x, q).c = x /\ WithUpper(r, x, q).a = q
          /\ WithUpper(r, x, q).ct = r.ct /\ WithUpper(r, x, q).buffer = r.buffer
          /\ WithUpper(r, x, q).out = r.out
      BY <3>1, UpperChanges, SMT
    <3> QED
      BY <3>2, <1>5, Zenon
  <2> QED
    BY <1>1, <1>3, <1>4, <2>1 DEF f
<1>6. CASE f = WithLower(r, y)
  <2>1. /\ f \in Registers /\ f.c = r.c /\ f.a = y
        /\ f.ct = r.ct /\ f.buffer = r.buffer /\ f.out = r.out
    BY <1>4, <1>6, LowerChanges, Zenon
  <2> QED
    BY <1>3, <1>4, <2>1 DEF f
<1> QED
  BY <1>2, <1>5, <1>6

-----------------------------------------------------------------------------
(* The end of a segment.                                                     *)

WithCode(r, x) == [r EXCEPT !.c = x]

LEMMA CodeChanges ==
  ASSUME NEW r \in Registers, NEW x \in Nat
  PROVE  LET f == WithCode(r, x)
         IN f \in Registers /\ f.out = r.out /\ f.buffer = r.buffer
BY DEF Registers, WithCode

LEMMA ShortestIsNat ==
  ASSUME NEW r \in Registers, 0 < r.a
  PROVE  Shortest(r) \in Nat
<1>1. r.a \in Nat /\ r.c \in Nat
  BY DEF Registers
<1> QED
  BY SMT, <1>1 DEF Shortest, Whole, Half

LEMMA TrimmedStuffed ==
  ASSUME NEW r \in Registers, WellStuffed(r.out)
  PROVE  Trimmed(r) \in Seq(Int) /\ WellStuffed(Trimmed(r))
<1> DEFINE high == (r.c \div ByteUnit) % 256
           low == (r.c \div NextUnit) % 256
           last == IF low = 0 THEN <<>> ELSE Stuffed(low)
<1>1. r.c \in Nat /\ r.zc \in Nat /\ r.out \in Seq(Int)
  BY DEF Registers
<1>2. high \in Int /\ 0 <= high /\ high < 256 /\ low \in Int /\ 0 <= low /\ low < 256
  BY SMT, <1>1 DEF ByteUnit, NextUnit
<1>3. \/ Trimmed(r) = r.out
      \/ Trimmed(r) = ((r.out \o Zeros(r.zc)) \o Stuffed(high)) \o last
  BY Zenon DEF Trimmed
<1> HIDE DEF high, low, last
<1>4. last \in Seq(Int) /\ WellStuffed(last)
  <2>1. Stuffed(low) \in Seq(Int) /\ WellStuffed(Stuffed(low))
    BY <1>2, ByteStuffed
  <2> QED
    BY <2>1, EmptyStuffed, Zenon DEF last
<1>5. Stuffed(high) \in Seq(Int) /\ WellStuffed(Stuffed(high))
  BY <1>2, ByteStuffed
<1>6. Zeros(r.zc) \in Seq(Int) /\ WellStuffed(Zeros(r.zc))
  BY <1>1, ZerosStuffed
<1>7. /\ r.out \o Zeros(r.zc) \in Seq(Int) /\ WellStuffed(r.out \o Zeros(r.zc))
  BY <1>1, <1>6, Joined
<1>8. /\ (r.out \o Zeros(r.zc)) \o Stuffed(high) \in Seq(Int)
      /\ WellStuffed((r.out \o Zeros(r.zc)) \o Stuffed(high))
  BY <1>5, <1>7, Joined
<1>9. /\ ((r.out \o Zeros(r.zc)) \o Stuffed(high)) \o last \in Seq(Int)
      /\ WellStuffed(((r.out \o Zeros(r.zc)) \o Stuffed(high)) \o last)
  BY <1>4, <1>8, Joined
<1> QED
  BY <1>1, <1>3, <1>9, Zenon

LEMMA FinishedStuffed ==
  ASSUME NEW r \in Registers, WellStuffed(r.out), -1 <= r.buffer, r.buffer < 255,
         0 < r.a, r.ct \in 1..11
  PROVE  Finished(r) \in Seq(Int) /\ WellStuffed(Finished(r))
<1> DEFINE x == Shortest(r)*PowersOf2[r.ct]
           last == WithCode(r, x)
<1>1. x \in Nat
  <2>1. Shortest(r) \in Nat
    BY ShortestIsNat
  <2>2. PowersOf2[r.ct] \in Nat
    BY SMT DEF PowersOf2
  <2> QED
    BY <2>1, <2>2
<1>2. \/ Finished(r) = Trimmed(Carried(last))
      \/ Finished(r) = Trimmed(Settled(last))
  BY SMT DEF Finished, WithCode
<1> HIDE DEF x
<1>3. last \in Registers /\ last.out = r.out /\ last.buffer = r.buffer
  BY <1>1, CodeChanges, Zenon
<1> HIDE DEF last
<1>4. WellStuffed(last.out) /\ -1 <= last.buffer /\ last.buffer < 255
  BY <1>3
<1>5. /\ Carried(last) \in Registers /\ WellStuffed(Carried(last).out)
      /\ Settled(last) \in Registers /\ WellStuffed(Settled(last).out)
  BY <1>3, <1>4, CarriedKeeps, SettledKeeps, Zenon
<1> QED
  BY <1>2, <1>5, TrimmedStuffed, Zenon

-----------------------------------------------------------------------------
(* The invariant.                                                            *)

LEMMA Started ==
  ASSUME NEW s \in Seq(Int), WellStuffed(s)
  PROVE  LET f == StartEncoder(s)
         IN /\ f \in Registers /\ f.out = s /\ f.a = Whole /\ f.c = 0 /\ f.ct = 11
            /\ f.buffer = -1
<1>1. Whole \in Nat
  BY SMT DEF Whole
<1> QED
  BY <1>1 DEF StartEncoder, Registers

\* The registers at the start of a segment, with the bytes before.
LEMMA StartedInv ==
  ASSUME NEW s \in Seq(Int), WellStuffed(s), e' = StartEncoder(s)
  PROVE  e' \in Registers /\ EncoderInv'
<1>1. /\ e' \in Registers /\ e'.out = s /\ e'.a = Whole /\ e'.c = 0 /\ e'.ct = 11
      /\ e'.buffer = -1
  BY Started, Zenon
<1>2. 0 < e'.a /\ e'.a <= Whole /\ e'.c \in Nat /\ e'.ct \in 1..11
  BY SMT, <1>1 DEF Whole
<1>3. e'.c + e'.a <= Cap[e'.ct]
  BY SMT, <1>1 DEF Whole, Cap
<1>4. -1 <= e'.buffer /\ e'.buffer < 255
  BY <1>1
<1>5. WellStuffed(e'.out)
  BY <1>1
<1> QED
  BY <1>1, <1>2, <1>3, <1>4, <1>5 DEF EncoderInv

LEMMA MarkerStuffed ==
  ASSUME job \in Jobs, coded \in Nat, Restarting(coded)
  PROVE  LET m == <<255, 208 + Restart(coded)>>
         IN m \in Seq(Int) /\ WellStuffed(m)
<1> DEFINE n == 208 + Restart(coded)
<1>1. job.restart_interval \in Nat /\ job.restart_interval # 0
  BY JobsAssumption DEF Restarting
<1>2. n \in 208..215
  <2> DEFINE q == coded \div job.restart_interval
  <2>1. q \in Int
    BY <1>1
  <2> HIDE DEF q
  <2>2. (q - 1) % 8 \in 0..7
    BY <2>1
  <2> QED
    BY <2>2 DEF q, Restart
<1> HIDE DEF n
<1> QED
  BY <1>2 DEF WellStuffed, n

LEMMA InitInv == Init => IInv
<1> SUFFICES ASSUME Init PROVE IInv
  OBVIOUS
<1>1. e = StartEncoder(<<>>) /\ job \in Jobs /\ coded = 0 /\ estats = NoStats
  BY DEF Init
<1>2. /\ e \in Registers /\ e.out = <<>> /\ e.a = Whole /\ e.c = 0 /\ e.ct = 11
      /\ e.buffer = -1
  BY <1>1, EmptyStuffed, Started, Zenon
<1>3. 0 < e.a /\ e.a <= Whole /\ e.c \in Nat /\ e.ct \in 1..11
  BY SMT, <1>2 DEF Whole
<1>4. e.c + e.a <= Cap[e.ct]
  BY SMT, <1>2 DEF Whole, Cap
<1>5. -1 <= e.buffer /\ e.buffer < 255
  BY <1>2
<1>6. EncoderInv
  BY <1>2, <1>3, <1>4, <1>5, EmptyStuffed DEF EncoderInv
<1>7. EstimatesInv
  BY <1>1 DEF EstimatesInv, NoStats
<1> QED
  BY <1>1, <1>2, <1>6, <1>7 DEF IInv

LEMMA NextInv == IInv /\ [Next]_vars => IInv'
<1> SUFFICES ASSUME IInv, [Next]_vars PROVE IInv'
  OBVIOUS
<1>0. /\ e \in Registers /\ EncoderInv /\ EstimatesInv /\ job \in Jobs /\ coded \in Nat
      /\ WellStuffed(e.out) /\ -1 <= e.buffer /\ e.buffer < 255
      /\ 0 < e.a /\ e.a <= Whole /\ e.ct \in 1..11 /\ e.c + e.a <= Cap[e.ct]
  BY Zenon DEF IInv, EncoderInv
<1>1. ASSUME EncodeMCU PROVE IInv'
  <2>1. job' = job /\ coded' = coded + 1
    BY <1>1 DEF EncodeMCU
  <2>2. CASE Restarting(coded)
    <3> DEFINE s == Finished(e) \o <<255, 208 + Restart(coded)>>
    <3>1. s \in Seq(Int) /\ WellStuffed(s)
      BY <1>0, <2>2, FinishedStuffed, MarkerStuffed, Joined
    <3>2. e' = StartEncoder(s) /\ estats' = NoStats
      BY <1>1, <2>2 DEF EncodeMCU
    <3> HIDE DEF s
    <3>3. e' \in Registers /\ EncoderInv'
      BY <3>1, <3>2, StartedInv
    <3>4. EstimatesInv'
      BY <3>2 DEF EstimatesInv, NoStats
    <3> QED
      BY <1>0, <2>1, <3>3, <3>4 DEF IInv
  <2>3. CASE ~Restarting(coded)
    <3>1. e' = e /\ estats' = estats
      BY <1>1, <2>3 DEF EncodeMCU
    <3>2. EncoderInv' /\ EstimatesInv'
      BY <1>0, <3>1 DEF EncoderInv, EstimatesInv
    <3> QED
      BY <1>0, <2>1, <3>1, <3>2 DEF IInv
  <2> QED
    BY <2>2, <2>3
<1>2. ASSUME Encode PROVE IInv'
  <2> DEFINE bin == Head(todo)[1]
             val == Head(todo)[2]
             s == Stat(estats, bin)
             t == Estimate(e, s, val)
  <2>1. /\ e' = Interval(e, s, val) /\ estats' = SetStat(estats, bin, t)
        /\ job' = job /\ coded' = coded /\ Half <= e.a
    <3>1. e.a >= Half /\ Half \in Int /\ e.a \in Int
      BY <1>2, <1>0, SMT DEF Encode, Half, Registers
    <3> QED
      BY <1>2, <3>1 DEF Encode
  <2>2. s \in States
    BY <1>0, StatIsState
  <2>3. t \in States
    BY <2>2, Estimates DEF Estimate
  <2> HIDE DEF bin, val, s, t
  <2>4. EstimatesInv'
    BY <1>0, <2>1, <2>3 DEF EstimatesInv, SetStat
  <2>5. /\ e' \in Registers /\ 0 < e'.a /\ e'.a <= Whole /\ e'.c + e'.a <= e.c + e.a
        /\ e'.ct = e.ct /\ e'.buffer = e.buffer /\ e'.out = e.out
    BY <1>0, <2>1, <2>2, IntervalKeeps, Zenon
  <2>6. e'.c \in Nat /\ e'.a \in Nat /\ e.c \in Nat /\ e.a \in Nat
    BY <1>0, <2>5 DEF Registers
  <2>7. e'.c + e'.a <= Cap[e'.ct]
    BY SMT, <1>0, <2>5, <2>6 DEF Cap
  <2>8. EncoderInv'
    BY <1>0, <2>5, <2>6, <2>7, Zenon DEF EncoderInv
  <2> QED
    BY <1>0, <2>1, <2>4, <2>5, <2>8, Zenon DEF IInv
<1>3. ASSUME Renormalize PROVE IInv'
  <2>1. /\ e' = Renormalized(e) /\ e.a < Half
        /\ job' = job /\ coded' = coded /\ estats' = estats
    BY <1>3 DEF Renormalize
  <2>2. /\ e' \in Registers /\ WellStuffed(e'.out)
        /\ 0 < e'.a /\ e'.a <= Whole /\ e'.ct \in 1..11 /\ e'.c + e'.a <= Cap[e'.ct]
        /\ -1 <= e'.buffer /\ e'.buffer < 255
    BY <1>0, <2>1, RenormalizedKeeps, Zenon
  <2>3. e'.c \in Nat
    BY <2>2 DEF Registers
  <2>4. EncoderInv'
    BY <2>2, <2>3, Zenon DEF EncoderInv
  <2>5. EstimatesInv'
    BY <1>0, <2>1 DEF EstimatesInv
  <2> QED
    BY <1>0, <2>1, <2>2, <2>4, <2>5, Zenon DEF IInv
<1>4. ASSUME FinishPass \/ Damage \/ DecodeMCU \/ Refill \/ Decode \/ UNCHANGED vars
      PROVE  IInv'
  <2>1. e' = e /\ job' = job /\ coded' = coded /\ estats' = estats
    BY <1>4, Zenon DEF FinishPass, Damage, DecodeMCU, Refill, Decode, vars
  <2> QED
    BY <1>0, <2>1, Zenon DEF IInv, EncoderInv, EstimatesInv
<1> QED
  BY <1>1, <1>2, <1>3, <1>4, Zenon DEF Next

\* The registers of the encoder stay within their width for every scan, whatever
\* decisions it makes, and no byte it writes makes a marker of its own.
THEOREM EncoderRegisters == Spec => []EncoderInv
<1>1. IInv => EncoderInv
  BY DEF IInv
<1> QED
  BY <1>1, InitInv, NextInv, PTL DEF Spec

-----------------------------------------------------------------------------
(* The decoder's place in an MCU.                                             *)

Fields == {"ph", "bin", "blk", "k", "kex", "m", "v", "sign", "blocks", "ctx"}
DCContexts == {0, 4, 8, 12, 16}

\* What every place x in an MCU has, whatever it asks for.
PlaceOK(x) ==
  /\ DOMAIN x = Fields
  /\ x.blk \in 1..Len(job.members) /\ x.k \in Nat /\ x.m \in Nat /\ x.sign \in {0, 1}
  /\ DOMAIN x.ctx = {"last_dc_val", "dc_context"}
  /\ x.ctx.dc_context \in [Comps -> DCContexts]

\* The bin x asks for, by the decision it is for.  A magnitude m is 2^n behind n
\* decisions "more", each with the bin behind the last.
Growing(x) ==
  \E n \in 0..14 :
    /\ x.m = 2^n
    /\ \/ x.bin[1] = "dc" /\ x.bin[3] = 20 + n
       \/ x.bin[1] = "ac" /\ n >= 1 /\ x.bin[3] \in {188 + n, 216 + n}
AskOK(x) ==
  CASE x.ph \in {"idle", "done", "error", "block"} -> TRUE
    [] x.ph \in {"dcbit", "sign", "newsign"} -> x.bin[1] = "fixed" /\ x.bin[3] = 0
    [] x.ph = "dc" -> x.bin[1] = "dc" /\ x.bin[3] \in DCContexts
    [] x.ph = "dcsign" -> x.bin[1] = "dc" /\ x.bin[3] \in Int /\ x.bin[3] - 1 \in DCContexts
    [] x.ph = "dcmag" ->
         x.bin[1] = "dc" /\ x.bin[3] \in Int /\ {x.bin[3] - 2, x.bin[3] - 3} \cap DCContexts # {}
    [] x.ph = "more" -> Growing(x)
    [] x.ph = "bits" -> x.bin[1] \in {"dc", "ac"} /\ x.bin[3] \in LowBits(x.bin[1])
    [] x.ph \in {"end", "zero", "acmag", "acmag2", "correct", "new"} ->
         x.bin[1] = "ac" /\ x.bin[3] \in 0..188
    [] OTHER -> FALSE

\* A band is decoded within its limits, and a refined DC coefficient has one bit.
BandOK(x) ==
  /\ (\/ x.ph \in {"sign", "newsign", "end", "zero", "acmag", "acmag2", "correct", "new"}
      \/ x.ph \in {"more", "bits"} /\ x.bin[1] = "ac") => x.k \in 1..job.Se
  /\ x.ph = "acmag2" => x.m = 1
  /\ DCRefine => x.ph \in {"idle", "done", "block", "dcbit"}
  /\ x.ph = "dcbit" => DCRefine

At(x) == PlaceOK(x) /\ AskOK(x) /\ BandOK(x)

LEMMA JobFacts ==
  ASSUME job \in Jobs
  PROVE  /\ job.restart_interval \in Nat /\ job.damages \subseteq 0..255
         /\ job.Ss \in 0..63 /\ job.Se \in job.Ss..63
         /\ job.members \in Seq(1..4) /\ Len(job.members) \in Nat \ {0}
         /\ \A b \in 1..Len(job.members) : job.members[b] \in Comps
<1>1. /\ job.restart_interval \in Nat /\ job.damages \subseteq 0..255
      /\ job.Ss \in 0..63 /\ job.Se \in job.Ss..63
      /\ job.members \in Seq(1..4) \ {<<>>}
  BY JobsAssumption, Zenon
<1>2. Len(job.members) \in Nat \ {0}
  BY <1>1
<1>3. \A b \in 1..Len(job.members) : job.members[b] \in Comps
  BY <1>1 DEF Comps, Range
<1> QED
  BY <1>1, <1>2, <1>3

LEMMA PlaceComp ==
  ASSUME job \in Jobs, NEW x, PlaceOK(x)
  PROVE  /\ Comp(x) \in Comps /\ x.ctx.dc_context[Comp(x)] \in DCContexts
         /\ x.k \in Nat /\ x.m \in Nat /\ job.Se \in Nat /\ job.Se < 64
<1>1. x.blk \in 1..Len(job.members) /\ x.ctx.dc_context \in [Comps -> DCContexts] /\ x.k \in Nat /\ x.m \in Nat
  BY DEF PlaceOK
<1>2. Comp(x) \in Comps
  BY <1>1, JobFacts DEF Comp
<1>3. job.Se \in Nat /\ job.Se < 64
  <2>1. job.Ss \in 0..63 /\ job.Se \in job.Ss..63
    BY JobFacts
  <2> QED
    BY <2>1
<1> QED
  BY <1>1, <1>2, <1>3

\* Asking leaves the place where it is.
LEMMA AskingAt ==
  ASSUME NEW x, PlaceOK(x), NEW ph, NEW bin
  PROVE  LET y == Asking(x, ph, bin)
         IN /\ PlaceOK(y) /\ y.ph = ph /\ y.bin = bin
            /\ y.k = x.k /\ y.m = x.m /\ y.sign = x.sign /\ y.blk = x.blk /\ y.ctx = x.ctx
  BY DEF Asking, PlaceOK, Fields

LEMMA EndBlockAt ==
  ASSUME job \in Jobs, NEW x, PlaceOK(x)
  PROVE  At(EndBlock(x))
<1> DEFINE y == EndBlock(x)
<1>1. DOMAIN x = Fields /\ x.blk \in 1..Len(job.members) /\ Len(job.members) \in Nat
  BY JobFacts DEF PlaceOK
<1>2. CASE x.blk = Len(job.members)
  <2>1. y = [x EXCEPT !.ph = "done"]
    BY <1>2 DEF EndBlock
  <2>2. PlaceOK(y) /\ y.ph = "done"
    BY <2>1 DEF PlaceOK, Fields
  <2> HIDE DEF y
  <2> QED
    BY <2>2 DEF At, AskOK, BandOK, y
<1>3. CASE x.blk # Len(job.members)
  <2>1. y = [x EXCEPT !.ph = "block", !.blk = @ + 1]
    BY <1>3 DEF EndBlock
  <2>2. x.blk + 1 \in 1..Len(job.members)
    BY <1>1, <1>3
  <2>3. PlaceOK(y) /\ y.ph = "block"
    BY <2>1, <2>2 DEF PlaceOK, Fields
  <2> HIDE DEF y
  <2> QED
    BY <2>3 DEF At, AskOK, BandOK, y
<1> QED
  BY <1>2, <1>3

LEMMA AtCoefAt ==
  ASSUME job \in Jobs, NEW x, PlaceOK(x), ~DCRefine, x.k \in 1..job.Se
  PROVE  At(AtCoef(x))
<1> DEFINE b(i) == ACBin(x, i)
<1>1. \A i \in 0..2 : b(i)[1] = "ac" /\ b(i)[3] \in 0..188
  <2>1. x.k \in Nat /\ job.Se \in Nat /\ job.Se < 64
    BY PlaceComp
  <2> QED
    BY <2>1 DEF ACBin
<1>2. PICK i \in 0..2, ph \in {"zero", "correct", "new"} : AtCoef(x) = Asking(x, ph, b(i))
  BY DEF AtCoef
<1> DEFINE a == b(i)
           y == Asking(x, ph, a)
<1>3. a[1] = "ac" /\ a[3] \in 0..188
  BY <1>1
<1> HIDE DEF a, b
<1>4. PlaceOK(y) /\ y.ph = ph /\ y.bin = a /\ y.k = x.k
  BY AskingAt
<1> HIDE DEF y
<1>5. AskOK(y) /\ BandOK(y)
  BY <1>3, <1>4 DEF AskOK, BandOK
<1> QED
  BY <1>2, <1>4, <1>5 DEF At, y, a

LEMMA SkipAt ==
  ASSUME job \in Jobs, NEW x, PlaceOK(x), ~DCRefine, x.k \in 1..job.Se
  PROVE  At(Skip(x))
<1>1. x.k \in Nat /\ job.Se \in Nat /\ DOMAIN x = Fields
  BY PlaceComp DEF PlaceOK
<1>2. CASE x.k + 1 > job.Se
  <2> DEFINE y == Failed(x)
  <2>1. Skip(x) = y
    BY <1>2 DEF Skip
  <2>2. PlaceOK(y) /\ y.ph = "error"
    BY DEF Failed, PlaceOK, Fields
  <2> HIDE DEF y
  <2>3. AskOK(y) /\ BandOK(y)
    BY <2>2 DEF AskOK, BandOK
  <2> QED
    BY <2>1, <2>2, <2>3 DEF At
<1>3. CASE ~(x.k + 1 > job.Se)
  <2> DEFINE y == [x EXCEPT !.k = @ + 1]
  <2>1. Skip(x) = AtCoef(y)
    BY <1>3 DEF Skip
  <2>2. PlaceOK(y) /\ y.k = x.k + 1
    BY <1>1 DEF PlaceOK, Fields
  <2> HIDE DEF y
  <2>3. y.k \in 1..job.Se
    BY <1>1, <1>3, <2>2
  <2>4. At(AtCoef(y))
    BY <2>2, <2>3, AtCoefAt
  <2> QED
    BY <2>1, <2>4
<1> QED
  BY <1>2, <1>3

LEMMA AtRunAt ==
  ASSUME job \in Jobs, NEW x, PlaceOK(x), ~DCRefine, x.k >= 1
  PROVE  At(AtRun(x))
<1>1. x.k \in Nat /\ job.Se \in Nat /\ job.Se < 64
  BY PlaceComp
<1>2. CASE x.k > job.Se
  BY <1>2, EndBlockAt DEF AtRun
<1>3. CASE ~(x.k > job.Se) /\ (~ACRefine \/ x.k > x.kex)
  <2> DEFINE b == ACBin(x, 0)
             y == Asking(x, "end", b)
  <2>1. b[1] = "ac" /\ b[3] \in 0..188
    BY <1>1, <1>3 DEF ACBin
  <2> HIDE DEF b
  <2>2. PlaceOK(y) /\ y.ph = "end" /\ y.bin = b /\ y.k = x.k
    BY AskingAt
  <2> HIDE DEF y
  <2>3. AskOK(y) /\ BandOK(y)
    BY <1>1, <1>3, <2>1, <2>2 DEF AskOK, BandOK
  <2>4. AtRun(x) = y
    BY <1>3 DEF AtRun, y, b
  <2> QED
    BY <2>2, <2>3, <2>4 DEF At
<1>4. CASE ~(x.k > job.Se) /\ ~(~ACRefine \/ x.k > x.kex)
  <2>1. x.k \in 1..job.Se
    BY <1>1, <1>4
  <2>2. AtRun(x) = AtCoef(x)
    BY <1>4 DEF AtRun
  <2> QED
    BY <2>1, <2>2, AtCoefAt
<1> QED
  BY <1>2, <1>3, <1>4

\* A block begins with its first decision, or ends the MCU where it has none.
LEMMA AtBlockAt ==
  ASSUME job \in Jobs, NEW x, At(x)
  PROVE  At(AtBlock(x))
<1>1. PlaceOK(x) /\ AskOK(x) /\ BandOK(x)
  BY DEF At
<1>2. CASE x.ph # "block"
  BY <1>2 DEF AtBlock
<1>3. CASE x.ph = "block" /\ DCRefine
  <2> DEFINE y == Asking(x, "dcbit", Fixed)
  <2>1. PlaceOK(y) /\ y.ph = "dcbit" /\ y.bin = Fixed
    BY <1>1, AskingAt
  <2>2. AtBlock(x) = y
    BY <1>3 DEF AtBlock
  <2> HIDE DEF y
  <2>3. AskOK(y) /\ BandOK(y)
    BY <1>3, <2>1 DEF AskOK, BandOK, Fixed
  <2> QED
    BY <2>1, <2>2, <2>3 DEF At
<1>4. CASE x.ph = "block" /\ ~DCRefine /\ HasDC
  <2> DEFINE b == DCBin(x, x.ctx.dc_context[Comp(x)])
             y == Asking(x, "dc", b)
  <2>1. b[1] = "dc" /\ b[3] \in DCContexts
    BY <1>1, PlaceComp DEF DCBin
  <2>2. AtBlock(x) = y
    BY <1>4 DEF AtBlock
  <2> HIDE DEF b
  <2>3. PlaceOK(y) /\ y.ph = "dc" /\ y.bin = b
    BY <1>1, AskingAt
  <2> HIDE DEF y
  <2>4. AskOK(y) /\ BandOK(y)
    BY <1>4, <2>1, <2>3 DEF AskOK, BandOK
  <2> QED
    BY <2>2, <2>3, <2>4 DEF At
<1>5. CASE x.ph = "block" /\ ~DCRefine /\ ~HasDC
  <2> DEFINE y == [x EXCEPT !.k = job.Ss, !.kex = EOBx(x)]
  <2>0. job.Ss \in 0..63
    BY JobFacts
  <2>1. job.Ss \in Nat /\ job.Ss >= 1
    BY <1>5, <2>0 DEF HasDC
  <2>2. PlaceOK(y) /\ y.k = job.Ss
    BY <1>1, <2>1 DEF PlaceOK, Fields
  <2>3. AtBlock(x) = AtRun(y)
    BY <1>5 DEF AtBlock
  <2> HIDE DEF y
  <2> QED
    BY <1>5, <2>1, <2>2, <2>3, AtRunAt
<1> QED
  BY <1>2, <1>3, <1>4, <1>5

\* What a coefficient is set to makes no difference to the place.
LEMMA SetCoefAt ==
  ASSUME NEW x, PlaceOK(x), NEW k, NEW value
  PROVE  LET y == SetCoef(x, k, value)
         IN PlaceOK(y) /\ y.k = x.k /\ y.kex = x.kex /\ y.ctx = x.ctx /\ y.blk = x.blk
  BY DEF SetCoef, PlaceOK, Fields

LEMMA StoreDCAt ==
  ASSUME job \in Jobs, NEW x, PlaceOK(x), ~DCRefine, NEW v
  PROVE  At(StoreDC(x, v))
<1> DEFINE dc == x.ctx.last_dc_val[Comp(x)] + v
           w == [x EXCEPT !.ctx.last_dc_val[Comp(x)] = dc]
           y == SetCoef(w, 0, dc*2^job.Al)
           z == [y EXCEPT !.k = 1, !.kex = 0]
<1>1. PlaceOK(w)
  BY DEF PlaceOK, Fields
<1> HIDE DEF w, dc
<1>2. PlaceOK(y)
  BY <1>1, SetCoefAt
<1> HIDE DEF y
<1>3. PlaceOK(z) /\ z.k = 1
  BY <1>2 DEF PlaceOK, Fields
<1> HIDE DEF z
<1>4. At(AtRun(z)) /\ At(EndBlock(y))
  BY <1>2, <1>3, AtRunAt, EndBlockAt
<1>5. StoreDC(x, v) = IF HasAC THEN AtRun(z) ELSE EndBlock(y)
  BY DEF StoreDC, dc, w, y, z
<1> QED
  BY <1>4, <1>5

LEMMA StoreACAt ==
  ASSUME job \in Jobs, NEW x, PlaceOK(x), ~DCRefine, NEW value
  PROVE  At(StoreAC(x, value))
<1> DEFINE y == SetCoef(x, x.k, value)
           z == [y EXCEPT !.k = @ + 1]
<1>1. PlaceOK(y)
  BY SetCoefAt
<1> HIDE DEF y
<1>2. PlaceOK(z) /\ z.k >= 1
  <2>1. y.k \in Nat /\ DOMAIN y = Fields
    BY <1>1 DEF PlaceOK
  <2> QED
    BY <1>1, <2>1 DEF PlaceOK, Fields
<1> HIDE DEF z
<1>3. At(AtRun(z))
  BY <1>2, AtRunAt
<1>4. StoreAC(x, value) = AtRun(z)
  BY DEF StoreAC, y, z
<1> QED
  BY <1>3, <1>4

Doubles(n) ==
  /\ 2^n \in Nat /\ 2^n >= 1 /\ (n >= 1 => 2^n > 1)
  /\ 2*2^n = 2^(n + 1) /\ (2*2^n # 32768 => n + 1 \in 0..14)

LEMMA Doubled == \A n \in 0..14 : Doubles(n)
<1>1. /\ 2^0 = 1 /\ 2^1 = 2 /\ 2^2 = 4 /\ 2^3 = 8 /\ 2^4 = 16 /\ 2^5 = 32 /\ 2^6 = 64 /\ 2^7 = 128
      /\ 2^8 = 256 /\ 2^9 = 512 /\ 2^10 = 1024 /\ 2^11 = 2048 /\ 2^12 = 4096 /\ 2^13 = 8192
      /\ 2^14 = 16384 /\ 2^15 = 32768
  OBVIOUS
<1> DEFINE p == [i \in 0..15 |-> 2^i]
<1>2. /\ p[0] = 1 /\ p[1] = 2 /\ p[2] = 4 /\ p[3] = 8 /\ p[4] = 16 /\ p[5] = 32 /\ p[6] = 64
      /\ p[7] = 128 /\ p[8] = 256 /\ p[9] = 512 /\ p[10] = 1024 /\ p[11] = 2048
      /\ p[12] = 4096 /\ p[13] = 8192 /\ p[14] = 16384 /\ p[15] = 32768
  BY <1>1
<1>3. \A n \in 0..14 : p[n] = 2^n /\ p[n + 1] = 2^(n + 1)
  OBVIOUS
<1> HIDE DEF p
<1>4. \A n \in 0..14 :
        /\ p[n] \in Nat /\ p[n] >= 1 /\ (n >= 1 => p[n] > 1)
        /\ 2*p[n] = p[n + 1] /\ (2*p[n] # 32768 => n + 1 \in 0..14)
  BY <1>2
<1>5. ASSUME NEW n \in 0..14 PROVE Doubles(n)
  <2> DEFINE u == 2^n
             w == 2^(n + 1)
  <2>1. p[n] = u /\ p[n + 1] = w
    BY <1>3
  <2> HIDE DEF u, w
  <2>2. u \in Nat /\ u >= 1 /\ (n >= 1 => u > 1) /\ 2*u = w /\ (2*u # 32768 => n + 1 \in 0..14)
    BY <1>4, <2>1
  <2> QED
    BY <2>2 DEF u, w, Doubles
<1> QED
  BY <1>5

\* The rest of a magnitude.
LEMMA BitsAt ==
  ASSUME job \in Jobs, NEW x, PlaceOK(x), ~DCRefine, x.bin[1] \in {"dc", "ac"},
         x.m > 1 => x.bin[3] \in LowBits(x.bin[1]),
         x.bin[1] = "ac" => x.k \in 1..job.Se
  PROVE  At(Bits(x))
<1>1. CASE x.m > 1
  <2> DEFINE y == [x EXCEPT !.ph = "bits", !.m = @ \div 2]
  <2>1. Bits(x) = y
    BY <1>1 DEF Bits
  <2>2. x.m \div 2 \in Nat /\ DOMAIN x = Fields
    BY DEF PlaceOK
  <2>3. PlaceOK(y) /\ y.ph = "bits" /\ y.bin = x.bin /\ y.k = x.k
    BY <2>2 DEF PlaceOK, Fields
  <2> HIDE DEF y
  <2>4. AskOK(y) /\ BandOK(y)
    BY <1>1, <2>3 DEF AskOK, BandOK
  <2> QED
    BY <2>1, <2>3, <2>4 DEF At
<1>2. CASE ~(x.m > 1)
  <2>1. CASE x.bin[1] = "dc"
    <3>1. Bits(x) = StoreDC(x, Minus(x.sign, x.v + 1))
      BY <1>2, <2>1 DEF Bits
    <3> QED
      BY <3>1, StoreDCAt
  <2>2. CASE x.bin[1] # "dc"
    <3>1. Bits(x) = StoreAC(x, Minus(x.sign, x.v + 1)*2^job.Al)
      BY <1>2, <2>2 DEF Bits
    <3> QED
      BY <3>1, StoreACAt
  <2> QED
    BY <2>1, <2>2
<1> QED
  BY <1>1, <1>2

LEMMA CategoryType ==
  ASSUME NEW L, NEW U, NEW m, NEW sign \in {0, 1}
  PROVE  Category(L, U, m, sign) \in DCContexts
  BY DEF Category, DCContexts

WithContext(x, c, cat) == [x EXCEPT !.ctx.dc_context[c] = cat]

LEMMA ContextSet ==
  ASSUME NEW x, PlaceOK(x), NEW c, NEW cat \in DCContexts
  PROVE  /\ PlaceOK(WithContext(x, c, cat)) /\ WithContext(x, c, cat).bin = x.bin
         /\ WithContext(x, c, cat).m = x.m /\ WithContext(x, c, cat).k = x.k
<1> DEFINE dc == [x.ctx.dc_context EXCEPT ![c] = cat]
           ctx == [x.ctx EXCEPT !.dc_context = dc]
           y == WithContext(x, c, cat)
<1>1. /\ DOMAIN x.ctx = {"last_dc_val", "dc_context"} /\ DOMAIN x = Fields
      /\ x.ctx.dc_context \in [Comps -> DCContexts]
  BY DEF PlaceOK
<1>2. dc \in [Comps -> DCContexts]
  BY <1>1
<1>3. y = [x EXCEPT !.ctx = ctx]
  BY DEF WithContext
<1> HIDE DEF dc
<1>4. ctx.dc_context = dc /\ DOMAIN ctx = {"last_dc_val", "dc_context"}
  BY <1>1
<1> HIDE DEF ctx, y
<1>5. PlaceOK(y) /\ y.bin = x.bin /\ y.m = x.m /\ y.k = x.k
  BY <1>1, <1>2, <1>3, <1>4 DEF PlaceOK, Fields
<1> QED
  BY <1>5 DEF y

LEMMA MagnitudeAt ==
  ASSUME job \in Jobs, NEW x, PlaceOK(x), ~DCRefine, x.bin[1] \in {"dc", "ac"},
         x.bin[3] \in Int, x.m > 1 => x.bin[3] + 14 \in LowBits(x.bin[1]),
         x.bin[1] = "ac" => x.k \in 1..job.Se
  PROVE  At(Magnitude(x))
<1> DEFINE b == Further(x.bin, 14)
           y == [x EXCEPT !.v = x.m, !.bin = b]
           cat == Category(ReceivedL(x.bin[2]), ReceivedU(x.bin[2]), x.m, x.sign)
           z == WithContext(y, Comp(x), cat)
<1>1. b[1] = x.bin[1] /\ b[3] = x.bin[3] + 14
  BY DEF Further
<1>2. Magnitude(x) = Bits(IF x.bin[1] = "ac" THEN y ELSE z)
  BY DEF Magnitude, WithContext
<1> HIDE DEF b
<1>3. PlaceOK(y) /\ y.bin = b /\ y.m = x.m /\ y.k = x.k
  BY DEF PlaceOK, Fields
<1>4. cat \in DCContexts
  BY CategoryType DEF PlaceOK
<1> HIDE DEF y, cat
<1>5. PlaceOK(z) /\ z.bin = b /\ z.m = x.m /\ z.k = x.k
  <2>1. PlaceOK(z) /\ z.bin = y.bin /\ z.m = y.m /\ z.k = y.k
    BY <1>3, <1>4, ContextSet
  <2> HIDE DEF z
  <2> QED
    BY <1>3, <2>1
<1> HIDE DEF z
<1>6. At(Bits(y))
  BY <1>1, <1>3, BitsAt
<1>7. At(Bits(z))
  BY <1>1, <1>5, BitsAt
<1> QED
  BY <1>2, <1>6, <1>7

\* What a growing magnitude has when it ends, and when it goes on.
LEMMA GrowingEnds ==
  ASSUME NEW x, Growing(x)
  PROVE  /\ x.bin[1] \in {"dc", "ac"} /\ x.bin[3] \in Int
         /\ x.m > 1 => x.bin[3] + 14 \in LowBits(x.bin[1])
<1>1. PICK n \in 0..14 :
        /\ x.m = 2^n
        /\ \/ x.bin[1] = "dc" /\ x.bin[3] = 20 + n
           \/ x.bin[1] = "ac" /\ n >= 1 /\ x.bin[3] \in {188 + n, 216 + n}
  BY DEF Growing
<1>2. x.m > 1 => n >= 1
  <2>1. 2^0 = 1
    OBVIOUS
  <2>2. n = 0 => x.m = 1
    BY <1>1, <2>1
  <2> QED
    BY <2>2
<1> QED
  BY <1>1, <1>2 DEF LowBits

LEMMA MoreAt ==
  ASSUME job \in Jobs, NEW x, At(x), x.ph = "more"
  PROVE  At(More(x))
<1>0. PlaceOK(x) /\ Growing(x) /\ BandOK(x) /\ DOMAIN x = Fields /\ x.m \in Nat
  BY DEF At, AskOK, PlaceOK
<1>1. PICK n \in 0..14 :
        /\ x.m = 2^n
        /\ \/ x.bin[1] = "dc" /\ x.bin[3] = 20 + n
           \/ x.bin[1] = "ac" /\ n >= 1 /\ x.bin[3] \in {188 + n, 216 + n}
  BY <1>0 DEF Growing
<1>2. CASE 2*x.m = 32768
  <2> DEFINE y == Failed(x)
  <2>1. More(x) = y
    BY <1>2 DEF More
  <2>2. PlaceOK(y) /\ y.ph = "error"
    BY <1>0 DEF Failed, PlaceOK, Fields
  <2> HIDE DEF y
  <2>3. ~DCRefine
    BY <1>0 DEF BandOK
  <2>4. AskOK(y) /\ BandOK(y)
    BY <2>2, <2>3 DEF AskOK, BandOK
  <2> QED
    BY <2>1, <2>2, <2>4 DEF At
<1>3. CASE 2*x.m # 32768
  <2> DEFINE b == Further(x.bin, 1)
             y == [x EXCEPT !.m = 2*@, !.bin = b]
             i == n + 1
  <2>1. More(x) = y
    BY <1>3 DEF More
  <2>2. b[1] = x.bin[1] /\ b[3] = x.bin[3] + 1
    BY DEF Further
  <2> HIDE DEF b
  <2>3. PlaceOK(y) /\ y.m = 2*x.m /\ y.ph = "more" /\ y.bin = b /\ y.k = x.k
    BY <1>0 DEF PlaceOK, Fields
  <2> HIDE DEF y
  <2>4. i \in 0..14 /\ y.m = 2^i
    <3>0. Doubles(n)
      BY <1>1, Doubled
    <3>1. 2*2^n = 2^(n + 1) /\ (2*2^n # 32768 => n + 1 \in 0..14)
      BY <3>0 DEF Doubles
    <3> QED
      BY <1>1, <1>3, <2>3, <3>1
  <2>5. \/ y.bin[1] = "dc" /\ y.bin[3] = 20 + i
        \/ y.bin[1] = "ac" /\ i >= 1 /\ y.bin[3] \in {188 + i, 216 + i}
    BY <1>1, <2>2, <2>3
  <2> HIDE DEF i
  <2>6. Growing(y)
    BY <2>4, <2>5 DEF Growing
  <2>7. AskOK(y) /\ BandOK(y)
    BY <1>0, <2>2, <2>3, <2>6 DEF AskOK, BandOK
  <2> QED
    BY <2>1, <2>3, <2>7 DEF At
<1> QED
  BY <1>2, <1>3

\* Every decision leads to a place from which the next one has its own bin.
LEMMA DecisionAt ==
  ASSUME job \in Jobs, NEW x, At(x), NEW val \in {0, 1},
         x.ph \notin {"idle", "done", "error", "block"}
  PROVE  At(Decision(x, val))
<1> DEFINE D == Decision(x, val)
<1>0. PlaceOK(x) /\ AskOK(x) /\ BandOK(x) /\ DOMAIN x = Fields
  BY DEF At, PlaceOK
<1>1. CASE x.ph = "dcbit"
  <2> DEFINE w == x.blocks[x.blk][0] + 2^job.Al
             y == SetCoef(x, 0, w)
  <2>1. PlaceOK(y)
    BY <1>0, SetCoefAt
  <2>2. At(EndBlock(y)) /\ At(EndBlock(x))
    BY <1>0, <2>1, EndBlockAt
  <2> HIDE DEF w
  <2>3. D = EndBlock(IF val = 1 THEN y ELSE x)
    BY <1>1 DEF Decision, w
  <2> QED
    BY <2>2, <2>3
<1>2. CASE x.ph # "dcbit"
  <2>0. ~DCRefine
    BY <1>0, <1>2 DEF BandOK
  <2>1. CASE x.ph = "dc"
    <3> DEFINE b == Further(x.bin, 1)
               y == Asking(x, "dcsign", b)
               z == WithContext(x, Comp(x), 0)
    <3>1. x.bin[1] = "dc" /\ x.bin[3] \in DCContexts
      BY <1>0, <2>1 DEF AskOK
    <3>2. b[1] = "dc" /\ b[3] \in Int /\ b[3] - 1 \in DCContexts
      <4>1. b[1] = "dc" /\ b[3] = x.bin[3] + 1
        BY <3>1 DEF Further
      <4> HIDE DEF b
      <4>2. x.bin[3] \in Int /\ b[3] - 1 = x.bin[3]
        BY <3>1, <4>1 DEF DCContexts
      <4> QED
        BY <3>1, <4>1, <4>2
    <3> HIDE DEF b
    <3>3. PlaceOK(y) /\ y.ph = "dcsign" /\ y.bin = b
      BY <1>0, AskingAt
    <3>4. D = IF val = 1 THEN y ELSE StoreDC(z, 0)
      BY <2>1 DEF Decision, b, WithContext
    <3> HIDE DEF y
    <3>5. AskOK(y) /\ BandOK(y)
      BY <2>0, <3>2, <3>3 DEF AskOK, BandOK
    <3>6. PlaceOK(z)
      BY <1>0, ContextSet DEF DCContexts
    <3> HIDE DEF z
    <3>7. At(StoreDC(z, 0))
      BY <2>0, <3>6, StoreDCAt
    <3> QED
      BY <3>3, <3>4, <3>5, <3>7 DEF At
  <2>2. CASE x.ph = "dcsign"
    <3> DEFINE b == Further(x.bin, 1 + val)
               w == [x EXCEPT !.sign = val]
               y == Asking(w, "dcmag", b)
    <3>1. x.bin[1] = "dc" /\ x.bin[3] \in Int /\ x.bin[3] - 1 \in DCContexts
      BY <1>0, <2>2 DEF AskOK
    <3>2. b[1] = "dc" /\ b[3] \in Int /\ {b[3] - 2, b[3] - 3} \cap DCContexts # {}
      <4>1. b[1] = "dc" /\ b[3] = x.bin[3] + (1 + val)
        BY <3>1 DEF Further
      <4> HIDE DEF b
      <4>2. b[3] \in Int /\ (b[3] - 2 = x.bin[3] - 1 \/ b[3] - 3 = x.bin[3] - 1)
        BY <3>1, <4>1
      <4> QED
        BY <3>1, <4>1, <4>2
    <3> HIDE DEF b
    <3>3. PlaceOK(w)
      BY <1>0 DEF PlaceOK, Fields
    <3>4. D = y
      BY <2>2 DEF Decision, b
    <3> HIDE DEF w
    <3>5. PlaceOK(y) /\ y.ph = "dcmag" /\ y.bin = b
      BY <3>3, AskingAt
    <3> HIDE DEF y
    <3>6. AskOK(y) /\ BandOK(y)
      BY <2>0, <3>2, <3>5 DEF AskOK, BandOK
    <3> QED
      BY <3>4, <3>5, <3>6 DEF At
  <2>3. CASE x.ph = "dcmag"
    <3> DEFINE b == DCBin(x, 20)
               w == [x EXCEPT !.m = 1]
               y == Asking(w, "more", b)
               z == [x EXCEPT !.m = 0]
    <3>1. x.bin[1] = "dc" /\ x.bin[3] \in Int
      BY <1>0, <2>3 DEF AskOK
    <3>2. b[1] = "dc" /\ b[3] = 20
      BY DEF DCBin
    <3> HIDE DEF b
    <3>3. PlaceOK(w) /\ w.m = 1 /\ PlaceOK(z) /\ z.m = 0 /\ z.bin = x.bin
      BY <1>0 DEF PlaceOK, Fields
    <3>4. D = IF val = 0 THEN Magnitude(z) ELSE y
      BY <2>3 DEF Decision, b
    <3> HIDE DEF w, z
    <3>5. PlaceOK(y) /\ y.ph = "more" /\ y.bin = b /\ y.m = 1
      BY <3>3, AskingAt
    <3> HIDE DEF y
    <3>6. Growing(y)
      <4>1. 0 \in 0..14 /\ y.m = 2^0 /\ y.bin[3] = 20 + 0
        BY <3>2, <3>5
      <4> QED
        BY <3>2, <3>5, <4>1 DEF Growing
    <3>7. AskOK(y) /\ BandOK(y)
      BY <2>0, <3>2, <3>5, <3>6 DEF AskOK, BandOK
    <3>8. At(Magnitude(z))
      BY <2>0, <3>1, <3>3, MagnitudeAt
    <3> QED
      BY <3>4, <3>5, <3>7, <3>8 DEF At
  <2>4. CASE x.ph = "more"
    <3>1. Growing(x) /\ (x.bin[1] = "ac" => x.k \in 1..job.Se)
      BY <1>0, <2>4 DEF AskOK, BandOK
    <3>2. At(Magnitude(x))
      BY <1>0, <2>0, <3>1, GrowingEnds, MagnitudeAt
    <3>3. At(More(x))
      BY <2>4, MoreAt
    <3>4. D = IF val = 1 THEN More(x) ELSE Magnitude(x)
      BY <2>4 DEF Decision
    <3> QED
      BY <3>2, <3>3, <3>4
  <2>5. CASE x.ph = "bits"
    <3> DEFINE y == [x EXCEPT !.v = @ + x.m]
    <3>1. /\ x.bin[1] \in {"dc", "ac"} /\ x.bin[3] \in LowBits(x.bin[1])
          /\ x.bin[1] = "ac" => x.k \in 1..job.Se
      BY <1>0, <2>5 DEF AskOK, BandOK
    <3>2. PlaceOK(y) /\ y.bin = x.bin /\ y.m = x.m /\ y.k = x.k
      BY <1>0 DEF PlaceOK, Fields
    <3>3. D = Bits(IF val = 1 THEN y ELSE x)
      BY <2>5 DEF Decision
    <3> HIDE DEF y
    <3>4. At(Bits(y)) /\ At(Bits(x))
      BY <1>0, <2>0, <3>1, <3>2, BitsAt
    <3> QED
      BY <3>3, <3>4
  <2>6. CASE x.ph \in {"end", "zero", "sign", "acmag", "acmag2", "correct", "new", "newsign"}
    <3>1. x.k \in 1..job.Se
      BY <1>0, <2>6 DEF BandOK
    <3>2. At(AtCoef(x)) /\ At(Skip(x)) /\ At(EndBlock(x))
      BY <1>0, <2>0, <3>1, AtCoefAt, SkipAt, EndBlockAt
    <3>3. \A value : At(StoreAC(x, value))
      BY <1>0, <2>0, StoreACAt
    <3>4. ASSUME NEW ph \in {"sign", "newsign"} PROVE At(Asking(x, ph, Fixed))
      <4> DEFINE y == Asking(x, ph, Fixed)
      <4>1. PlaceOK(y) /\ y.ph = ph /\ y.bin = Fixed /\ y.k = x.k
        BY <1>0, AskingAt
      <4> HIDE DEF y
      <4>2. AskOK(y) /\ BandOK(y)
        BY <2>0, <3>1, <3>4, <4>1 DEF AskOK, BandOK, Fixed
      <4> QED
        BY <4>1, <4>2 DEF At, y
    <3>5. CASE x.ph \in {"end", "zero", "new"}
      BY <3>2, <3>4, <3>5 DEF Decision
    <3>6. CASE x.ph = "correct"
      <4>1. PICK value : D = StoreAC(x, value)
        BY <3>6 DEF Decision
      <4> QED
        BY <3>3, <4>1
    <3>7. CASE x.ph = "newsign"
      <4>1. D = StoreAC(x, Minus(val, 2^job.Al))
        BY <3>7 DEF Decision
      <4> QED
        BY <3>3, <4>1
    <3>8. CASE x.ph = "sign"
      <4> DEFINE w == [x EXCEPT !.sign = val]
                 b == ACBin(x, 2)
                 y == Asking(w, "acmag", b)
      <4>1. b[1] = "ac" /\ b[3] \in 0..188
        <5>1. x.k \in Nat /\ job.Se \in Nat /\ job.Se < 64
          BY <1>0, PlaceComp
        <5> QED
          BY <3>1, <5>1 DEF ACBin
      <4>2. PlaceOK(w) /\ w.k = x.k
        BY <1>0 DEF PlaceOK, Fields
      <4>3. D = y
        BY <3>8 DEF Decision
      <4> HIDE DEF w, b
      <4>4. PlaceOK(y) /\ y.ph = "acmag" /\ y.bin = b /\ y.k = x.k
        BY <4>2, AskingAt
      <4> HIDE DEF y
      <4>5. AskOK(y) /\ BandOK(y)
        BY <2>0, <3>1, <4>1, <4>4 DEF AskOK, BandOK
      <4> QED
        BY <4>3, <4>4, <4>5 DEF At
    <3>9. CASE x.ph = "acmag"
      <4> DEFINE y == [x EXCEPT !.m = 1, !.ph = "acmag2"]
                 z == [x EXCEPT !.m = 0]
      <4>1. x.bin[1] = "ac" /\ x.bin[3] \in 0..188
        BY <1>0, <3>9 DEF AskOK
      <4>2. /\ PlaceOK(y) /\ y.ph = "acmag2" /\ y.m = 1 /\ y.bin = x.bin /\ y.k = x.k
            /\ PlaceOK(z) /\ z.m = 0 /\ z.bin = x.bin /\ z.k = x.k
        BY <1>0 DEF PlaceOK, Fields
      <4>3. D = IF val = 0 THEN Magnitude(z) ELSE y
        BY <3>9 DEF Decision
      <4> HIDE DEF y, z
      <4>4. AskOK(y) /\ BandOK(y)
        BY <2>0, <3>1, <4>1, <4>2 DEF AskOK, BandOK
      <4>5. At(Magnitude(z))
        BY <2>0, <3>1, <4>1, <4>2, MagnitudeAt
      <4> QED
        BY <4>2, <4>3, <4>4, <4>5 DEF At
    <3>10. CASE x.ph = "acmag2"
      <4> DEFINE b == <<"ac", x.bin[2], IF x.k <= job.ac_K[x.bin[2]] THEN 189 ELSE 217>>
                 w == [x EXCEPT !.m = 2]
                 y == Asking(w, "more", b)
      <4>1. x.bin[1] = "ac" /\ x.bin[3] \in 0..188 /\ x.m = 1
        BY <1>0, <3>10 DEF AskOK, BandOK
      <4>2. b[1] = "ac" /\ b[3] \in {189, 217}
        OBVIOUS
      <4>3. PlaceOK(w) /\ w.m = 2 /\ w.k = x.k
        BY <1>0 DEF PlaceOK, Fields
      <4>4. D = IF val = 0 THEN Magnitude(x) ELSE y
        BY <3>10 DEF Decision
      <4> HIDE DEF b, w
      <4>5. PlaceOK(y) /\ y.ph = "more" /\ y.bin = b /\ y.m = 2 /\ y.k = x.k
        BY <4>3, AskingAt
      <4> HIDE DEF y
      <4>6. Growing(y)
        <5>1. 1 \in 0..14 /\ y.m = 2^1 /\ y.bin[3] \in {188 + 1, 216 + 1}
          BY <4>2, <4>5
        <5> QED
          BY <4>2, <4>5, <5>1 DEF Growing
      <4>7. AskOK(y) /\ BandOK(y)
        BY <2>0, <3>1, <4>2, <4>5, <4>6 DEF AskOK, BandOK
      <4>8. At(Magnitude(x))
        BY <1>0, <2>0, <3>1, <4>1, MagnitudeAt
      <4> QED
        BY <4>4, <4>5, <4>7, <4>8 DEF At
    <3> QED
      BY <2>6, <3>5, <3>6, <3>7, <3>8, <3>9, <3>10
  <2>7. x.ph \in {"dc", "dcsign", "dcmag", "more", "bits", "end", "zero", "sign", "acmag",
                  "acmag2", "correct", "new", "newsign"}
    BY <1>0, <1>2 DEF AskOK
  <2> QED
    BY <2>1, <2>2, <2>3, <2>4, <2>5, <2>6, <2>7
<1> QED
  BY <1>1, <1>2

\* A block has a decision to make: AtBlock finds it.
LEMMA AtBlockAsks ==
  ASSUME job \in Jobs, NEW x, At(x)
  PROVE  AtBlock(x).ph # "block"
<1>0. /\ job.Ss \in Nat /\ job.Se \in Nat /\ job.Ss <= job.Se
  <2>1. job.Ss \in 0..63 /\ job.Se \in job.Ss..63
    BY JobFacts
  <2> QED
    BY <2>1
<1>1. \A y, ph, b : ph # "block" /\ DOMAIN y = Fields => Asking(y, ph, b).ph # "block"
  BY DEF Asking, Fields
<1>2. DOMAIN x = Fields
  BY DEF At, PlaceOK
<1>3. CASE x.ph # "block" \/ DCRefine \/ HasDC
  BY <1>1, <1>2, <1>3 DEF AtBlock
<1>4. CASE x.ph = "block" /\ ~DCRefine /\ ~HasDC
  <2> DEFINE y == [x EXCEPT !.k = job.Ss, !.kex = EOBx(x)]
  <2>1. DOMAIN y = Fields /\ y.k = job.Ss
    BY <1>2 DEF Fields
  <2>2. AtBlock(x) = AtRun(y)
    BY <1>4 DEF AtBlock
  <2> HIDE DEF y
  <2>3. ~(y.k > job.Se)
    BY <1>0, <2>1
  <2>4. AtCoef(y).ph # "block"
    BY <1>1, <2>1 DEF AtCoef
  <2>5. AtRun(y).ph # "block"
    BY <1>1, <2>1, <2>3, <2>4 DEF AtRun
  <2> QED
    BY <2>2, <2>5
<1> QED
  BY <1>3, <1>4

-----------------------------------------------------------------------------
(* The decoder's place in the bytes, and its registers.                       *)

\* The bytes of a scan end with a marker EOI, and the decoder is before it, or has
\* met it (or one that was made of a byte).
EOI == 217
BytesOK(bytes) ==
  /\ bytes \in Seq(0..255) /\ Len(bytes) >= 2
  /\ bytes[Len(bytes) - 1] = 255 /\ bytes[Len(bytes)] = EOI
Placed(next, marker, bytes) ==
  /\ next \in Nat /\ next >= 1 /\ marker \in 0..255
  /\ marker = EOI \/ next <= Len(bytes) - 1

RFields == {"c", "a", "ct", "next", "unread_marker"}
Below(r) == r.c < r.a*2^r.ct
RegsOK(r) ==
  /\ DOMAIN r = RFields
  /\ \/ r.ct = -16 /\ r.c = 0 /\ r.a = 0
     \/ r.ct = -8 /\ r.c \in 0..255 /\ r.a = 0
     \/ r.ct \in 0..7 /\ r.a \in 1..Whole /\ r.c \in Nat /\ Below(r)
     \/ r.ct = -1

LEMMA BytesAt ==
  ASSUME NEW bytes, BytesOK(bytes)
  PROVE  Len(bytes) \in Nat /\ \A i \in 1..Len(bytes) : bytes[i] \in 0..255
<1> DEFINE B == 0..255
<1>1. bytes \in Seq(B)
  BY DEF BytesOK
<1> HIDE DEF B
<1>2. Len(bytes) \in Nat /\ \A i \in 1..Len(bytes) : bytes[i] \in B
  BY <1>1
<1> QED
  BY <1>2 DEF B

\* Of the places where P holds there is a first one.
LEMMA FirstPlace ==
  ASSUME NEW lo \in Int, NEW hi \in Int, NEW P, NEW k \in lo..hi, k \in P
  PROVE  \E i \in lo..hi : i \in P /\ \A j \in lo..(i - 1) : j \notin P
<1> DEFINE T == (lo..hi) \cap P
<1>1. IsFiniteSet(lo..hi) /\ lo..hi \subseteq Int
  BY FS_Interval
<1>2. T \in SUBSET (lo..hi) /\ T # {}
  OBVIOUS
<1> HIDE DEF T
<1>3. Min(T) \in T /\ \A y \in T : Min(T) <= y
  BY <1>1, <1>2, MinMember
<1> DEFINE i == Min(T)
<1>4. i \in lo..hi /\ i \in P
  BY <1>3 DEF T
<1>5. \A y \in lo..hi : y \in P => i <= y
  BY <1>3 DEF T
<1> HIDE DEF i
<1>6. \A j \in lo..(i - 1) : j \notin P
  BY <1>4, <1>5
<1> QED
  BY <1>4, <1>6

LEMMA PastFFAt ==
  ASSUME NEW bytes, BytesOK(bytes), NEW i \in 1..Len(bytes)
  PROVE  PastFF(bytes, i) \in i..Len(bytes) /\ bytes[PastFF(bytes, i)] # 255
<1> DEFINE P == {j \in i..Len(bytes) : bytes[j] # 255}
           Q(j) == bytes[j] # 255 /\ \A k \in i..(j - 1) : bytes[k] = 255
<1>1. i \in Int /\ Len(bytes) \in Int /\ Len(bytes) \in i..Len(bytes) /\ Len(bytes) \in P
  BY BytesAt DEF BytesOK, EOI
<1> HIDE DEF P
<1>2. PICK j \in i..Len(bytes) : j \in P /\ \A k \in i..(j - 1) : k \notin P
  BY <1>1, FirstPlace
<1>3. Q(j)
  BY <1>1, <1>2 DEF P
<1>4. PastFF(bytes, i) = CHOOSE k \in i..Len(bytes) : Q(k)
  BY DEF PastFF
<1> DEFINE f == CHOOSE k \in i..Len(bytes) : Q(k)
<1> HIDE DEF Q
<1>5. f \in i..Len(bytes) /\ Q(f)
  BY <1>2, <1>3
<1> HIDE DEF f
<1>6. bytes[f] # 255
  BY <1>5 DEF Q
<1> QED
  BY <1>4, <1>5, <1>6 DEF f

\* get_byte: a byte of the data or a zero, and the place behind it.
LEMMA FetchedAt ==
  ASSUME NEW bytes, BytesOK(bytes), NEW r, DOMAIN r = RFields, r.c \in Nat,
         Placed(r.next, r.unread_marker, bytes)
  PROVE  LET f == Fetched(r, bytes)
         IN /\ DOMAIN f = RFields /\ f.a = r.a /\ f.ct = r.ct
            /\ Placed(f.next, f.unread_marker, bytes)
            /\ f.c \in Nat /\ 256*r.c <= f.c /\ f.c <= 256*r.c + 255
<1> DEFINE f == Fetched(r, bytes)
           j == PastFF(bytes, r.next + 1)
           n == Len(bytes)
<1>1. /\ n \in Nat /\ n >= 2 /\ bytes[n - 1] = 255 /\ bytes[n] = 217
      /\ \A i \in 1..n : bytes[i] \in 0..255
  <2>1. n \in Nat /\ \A i \in 1..n : bytes[i] \in 0..255
    BY BytesAt
  <2> QED
    BY <2>1 DEF BytesOK, EOI
<1>2. r.next \in Nat /\ r.next >= 1 /\ r.unread_marker \in 0..255
      /\ (r.unread_marker = 217 \/ r.next <= n - 1)
  BY DEF Placed, EOI
<1>3. CASE r.unread_marker # 0
  <2>1. f = [r EXCEPT !.c = @*256]
    BY <1>3 DEF Fetched
  <2> HIDE DEF f
  <2>2. /\ DOMAIN f = RFields /\ f.a = r.a /\ f.ct = r.ct /\ f.c = r.c*256
        /\ f.next = r.next /\ f.unread_marker = r.unread_marker
    BY <2>1 DEF RFields
  <2> QED
    BY <2>2 DEF f
<1>4. CASE r.unread_marker = 0 /\ bytes[r.next] # 255
  <2>0. r.next \in 1..n /\ r.next # n - 1
    BY <1>1, <1>2, <1>4
  <2> DEFINE b == bytes[r.next]
  <2>1. b \in 0..255
    BY <1>1, <2>0
  <2>2. f = [r EXCEPT !.c = @*256 + b, !.next = @ + 1]
    BY <1>4 DEF Fetched
  <2> HIDE DEF f, b
  <2>3. /\ DOMAIN f = RFields /\ f.a = r.a /\ f.ct = r.ct /\ f.c = r.c*256 + b
        /\ f.next = r.next + 1 /\ f.unread_marker = r.unread_marker
    BY <2>2 DEF RFields
  <2>4. Placed(f.next, f.unread_marker, bytes)
    BY <1>1, <1>2, <1>4, <2>0, <2>3 DEF Placed
  <2> QED
    BY <2>1, <2>3, <2>4 DEF f
<1>5. CASE r.unread_marker = 0 /\ bytes[r.next] = 255
  <2>1. r.next + 1 \in 1..n /\ r.next \in Nat
    BY <1>1, <1>2, <1>5
  <2>2. j \in (r.next + 1)..n /\ bytes[j] # 255
    BY <2>1, PastFFAt
  <2>3. j \in 1..n /\ j # n - 1 /\ bytes[j] \in 0..255
    <3> HIDE DEF j
    <3>1. j \in 1..n
      BY <1>1, <2>1, <2>2
    <3> QED
      BY <1>1, <2>2, <3>1
  <2>4. CASE bytes[j] = 0
    <3>1. f = [r EXCEPT !.c = @*256 + 255, !.next = j + 1]
      BY <1>5, <2>4 DEF Fetched
    <3> HIDE DEF f, j
    <3>2. /\ DOMAIN f = RFields /\ f.a = r.a /\ f.ct = r.ct /\ f.c = r.c*256 + 255
          /\ f.next = j + 1 /\ f.unread_marker = r.unread_marker
      BY <3>1 DEF RFields
    <3>3. j <= n - 2
      BY <1>1, <2>3, <2>4
    <3>4. Placed(f.next, f.unread_marker, bytes)
      BY <1>1, <1>5, <2>3, <3>2, <3>3 DEF Placed
    <3> QED
      BY <3>2, <3>4 DEF f
  <2>5. CASE bytes[j] # 0
    <3> DEFINE m == bytes[j]
    <3>1. f = [r EXCEPT !.c = @*256, !.next = j + 1, !.unread_marker = m]
      BY <1>5, <2>5 DEF Fetched
    <3> HIDE DEF f
    <3>2. j = n => m = 217
      BY <1>1
    <3> HIDE DEF j, m
    <3>3. /\ DOMAIN f = RFields /\ f.a = r.a /\ f.ct = r.ct /\ f.c = r.c*256
          /\ f.next = j + 1 /\ f.unread_marker = m
      BY <3>1 DEF RFields
    <3>4. m \in 0..255
      BY <2>3 DEF m
    <3>5. Placed(f.next, f.unread_marker, bytes)
      BY <1>1, <2>3, <3>2, <3>3, <3>4 DEF Placed, EOI
    <3> QED
      BY <3>3, <3>5 DEF f
  <2> QED
    BY <2>4, <2>5
<1> QED
  BY <1>2, <1>3, <1>4, <1>5

LEMMA Widths ==
  /\ Half \in Nat /\ Whole \in Nat /\ Whole = 2*Half /\ Half >= 1
  BY SMT DEF Half, Whole

\* The width of the interval as ct shifts it.
LEMMA Shifted ==
  ASSUME NEW n \in 0..7
  PROVE  /\ 2^n \in Nat /\ 2^n >= 1
         /\ n >= 1 => 2^n = 2*2^(n - 1)
         /\ n = 0 => 2^n = 1
         /\ n = 7 => 2^n = 128
<1>1. /\ 2^0 = 1 /\ 2^1 = 2 /\ 2^2 = 4 /\ 2^3 = 8 /\ 2^4 = 16 /\ 2^5 = 32 /\ 2^6 = 64 /\ 2^7 = 128
  BY SMT
<1> DEFINE p == [i \in 0..7 |-> 2^i]
<1>2. /\ p[0] = 1 /\ p[1] = 2 /\ p[2] = 4 /\ p[3] = 8 /\ p[4] = 16 /\ p[5] = 32 /\ p[6] = 64
      /\ p[7] = 128
  BY SMT, <1>1
<1>3. p[n] = 2^n /\ (n >= 1 => p[n - 1] = 2^(n - 1))
  BY SMT
<1> HIDE DEF p
<1>4. /\ p[n] \in Nat /\ p[n] >= 1 /\ (n >= 1 => p[n] = 2*p[n - 1])
      /\ (n = 0 => p[n] = 1) /\ (n = 7 => p[n] = 128)
  BY SMT, <1>2
<1> DEFINE u == 2^n
           w == 2^(n - 1)
<1>5. p[n] = u /\ (n >= 1 => p[n - 1] = w)
  BY <1>3
<1> HIDE DEF u, w
<1>6. u \in Nat /\ u >= 1 /\ (n >= 1 => u = 2*w) /\ (n = 0 => u = 1) /\ (n = 7 => u = 128)
  BY SMT, <1>4, <1>5
<1> QED
  BY <1>6, Zenon DEF u, w

LEMMA BelowShifted ==
  ASSUME NEW r, NEW n, r.ct = n, NEW p, p = 2^n
  PROVE  Below(r) <=> r.c < r.a*p
  BY Zenon DEF Below

\* What RegsOK says for each ct.
LEMMA RegsCases ==
  ASSUME NEW r, RegsOK(r), r.ct # -1
  PROVE  /\ DOMAIN r = RFields /\ r.c \in Nat /\ r.a \in Nat
         /\ r.ct \in 0..7 \/ r.ct = -8 \/ r.ct = -16
         /\ r.ct = -16 => r.c = 0 /\ r.a = 0
         /\ r.ct = -8 => r.c \in 0..255 /\ r.a = 0
         /\ r.ct \in 0..7 => r.a \in 1..Whole /\ Below(r)
<1>1. CASE r.ct = -16
  BY <1>1, SMT DEF RegsOK
<1>2. CASE r.ct = -8
  BY <1>2, SMT DEF RegsOK
<1>3. CASE r.ct \in 0..7 /\ r.a \in 1..Whole /\ r.c \in Nat /\ Below(r)
  BY <1>3, Widths, SMT DEF RegsOK
<1> QED
  BY <1>1, <1>2, <1>3 DEF RegsOK

LEMMA RegsCoding ==
  ASSUME NEW r, DOMAIN r = RFields, r.ct \in 0..7, r.a \in 1..Whole, r.c \in Nat, Below(r)
  PROVE  RegsOK(r) /\ r.ct # -1
<1>1. r.ct # -1
  BY SMT
<1> QED
  BY <1>1, Zenon DEF RegsOK

\* A turn of the loop that renormalizes keeps c below the interval.
LEMMA RefilledAt ==
  ASSUME NEW bytes, BytesOK(bytes), NEW r, RegsOK(r), r.ct # -1, r.a < Half,
         Placed(r.next, r.unread_marker, bytes)
  PROVE  LET f == Refilled(r, bytes)
         IN RegsOK(f) /\ f.ct # -1 /\ Placed(f.next, f.unread_marker, bytes)
<1> DEFINE f == Refilled(r, bytes)
           g == Fetched(r, bytes)
<1>1. /\ DOMAIN r = RFields /\ r.c \in Nat /\ r.a \in Nat /\ 2*r.a <= Whole
      /\ Half \in Nat /\ Whole \in Nat
  <2>1. r.a \in Nat /\ r.c \in Nat /\ DOMAIN r = RFields
    BY RegsCases
  <2> QED
    BY <2>1, Widths
<1>2. CASE r.ct \in 1..7
  <2> DEFINE p == 2^r.ct
             q == 2^(r.ct - 1)
  <2>0. r.ct \in 0..7 /\ r.ct >= 1 /\ r.ct - 1 \in 0..7
    BY <1>2, SMT
  <2>1. p = 2*q /\ p \in Nat /\ q \in Nat
    BY <2>0, Shifted
  <2>2. r.a \in 1..Whole /\ Below(r)
    BY <2>0, RegsCases
  <2>3. f = [r EXCEPT !.a = 2*@, !.ct = @ - 1]
    BY <1>2, SMT DEF Refilled
  <2>4. Below(r) <=> r.c < r.a*p
    BY BelowShifted
  <2> HIDE DEF f
  <2>5. /\ DOMAIN f = RFields /\ f.a = 2*r.a /\ f.ct = r.ct - 1 /\ f.c = r.c
        /\ f.next = r.next /\ f.unread_marker = r.unread_marker
    BY <1>1, <2>3, SMT DEF RFields
  <2>6. Below(f) <=> f.c < f.a*q
    BY <2>5, BelowShifted
  <2> HIDE DEF p, q
  <2>7. f.a \in 1..Whole
    BY <1>1, <2>2, <2>5, SMT
  <2>8. r.a*p = (2*r.a)*q
    BY <1>1, <2>1, SMT
  <2>9. f.c < f.a*q
    BY <2>2, <2>4, <2>5, <2>8
  <2>10. RegsOK(f) /\ f.ct # -1
    BY <1>1, <2>0, <2>5, <2>6, <2>7, <2>9, RegsCoding
  <2> QED
    BY <2>5, <2>10 DEF f
<1>3. CASE r.ct \in {-16, -8, 0}
  <2> DEFINE ct == r.ct + 7
             z == IF ct < 0 THEN ct + 1 ELSE ct
             y == IF ct = -1 THEN Whole ELSE 2*r.a
  <2>1. /\ DOMAIN g = RFields /\ g.a = r.a /\ g.ct = r.ct
        /\ Placed(g.next, g.unread_marker, bytes)
        /\ g.c \in Nat /\ 256*r.c <= g.c /\ g.c <= 256*r.c + 255
    BY <1>1, FetchedAt
  <2>2. f = [g EXCEPT !.ct = z, !.a = y]
    <3>1. ~(r.ct > 0)
      BY <1>3, SMT
    <3>2. f = [g EXCEPT !.ct = IF ct < 0 THEN ct + 1 ELSE ct, !.a = IF ct = -1 THEN Whole ELSE 2*g.a]
      BY <3>1, Zenon DEF Refilled
    <3> HIDE DEF f, g
    <3> QED
      BY <2>1, <3>2
  <2> HIDE DEF f, g, z, y
  <2>3. /\ DOMAIN f = RFields /\ f.a = y /\ f.ct = z /\ f.c = g.c
        /\ f.next = g.next /\ f.unread_marker = g.unread_marker
    BY <2>1, <2>2, SMT DEF RFields
  <2>4. CASE r.ct = -16
    <3>1. z = -8 /\ y = 2*r.a
      BY <2>4, SMT DEF z, y
    <3>2. r.a = 0 /\ r.c = 0
      BY <2>4, RegsCases
    <3>3. f.ct = -8 /\ f.a = 0 /\ f.c \in 0..255 /\ f.ct # -1
      BY <2>1, <2>3, <3>1, <3>2, SMT
    <3>4. RegsOK(f)
      BY <2>3, <3>3, Zenon DEF RegsOK
    <3> QED
      BY <2>1, <2>3, <3>3, <3>4 DEF f
  <2>5. CASE r.ct = -8
    <3>1. z = 0 /\ y = Whole
      BY <2>5, SMT DEF z, y
    <3>2. r.c \in 0..255 /\ Whole \in Nat /\ Whole >= 65536
      <4>1. Whole >= 65536
        BY SMT DEF Whole
      <4>2. r.c \in 0..255
        BY <2>5, RegsCases
      <4> QED
        BY <1>1, <4>1, <4>2
    <3>3. f.ct \in 0..7 /\ f.a \in 1..Whole /\ f.c \in Nat /\ f.c < f.a*1 /\ f.ct = 0
      BY <2>1, <2>3, <3>1, <3>2, SMT
    <3>4. Below(f)
      <4>1. 1 = 2^0
        BY SMT
      <4> QED
        BY <3>3, <4>1, BelowShifted
    <3>5. RegsOK(f) /\ f.ct # -1
      BY <2>3, <3>3, <3>4, RegsCoding
    <3> QED
      BY <2>1, <2>3, <3>5 DEF f
  <2>6. CASE r.ct = 0
    <3>1. z = 7 /\ y = 2*r.a
      BY <2>6, SMT DEF z, y
    <3>2. r.a \in 1..Whole /\ r.c < r.a*1
      <4>1. r.ct \in 0..7
        BY <2>6, SMT
      <4>2. r.a \in 1..Whole /\ Below(r)
        BY <4>1, RegsCases
      <4>3. 1 = 2^0
        BY SMT
      <4> QED
        BY <2>6, <4>2, <4>3, BelowShifted
    <3>3. f.ct \in 0..7 /\ f.a \in 1..Whole /\ f.c \in Nat /\ f.c < f.a*128 /\ f.ct = 7
      BY <1>1, <2>1, <2>3, <3>1, <3>2, SMT
    <3>4. Below(f)
      <4>1. 128 = 2^7
        BY SMT
      <4> QED
        BY <3>3, <4>1, BelowShifted
    <3>5. RegsOK(f) /\ f.ct # -1
      BY <2>3, <3>3, <3>4, RegsCoding
    <3> QED
      BY <2>1, <2>3, <3>5 DEF f
  <2> QED
    BY <1>3, <2>4, <2>5, <2>6
<1>4. r.ct \in 1..7 \/ r.ct \in {-16, -8, 0}
  <2>1. r.ct \in 0..7 \/ r.ct = -8 \/ r.ct = -16
    BY RegsCases
  <2> QED
    BY <2>1, SMT
<1> QED
  BY <1>2, <1>3, <1>4

\* A decision is one of two, and c is below the part of the interval it names.
LEMMA DecodedAt ==
  ASSUME NEW bytes, NEW r, RegsOK(r), r.ct # -1, r.a >= Half, NEW s \in States,
         Placed(r.next, r.unread_marker, bytes)
  PROVE  LET got == Decoded(r, s)
         IN /\ got.val \in {0, 1} /\ got.s \in States
            /\ RegsOK(got.d) /\ got.d.ct # -1 /\ Placed(got.d.next, got.d.unread_marker, bytes)
<1> DEFINE q == Qe(s)
           a == r.a - q
           p == 2^r.ct
           upper == r.c >= a*p
           lps == IF upper THEN a >= q ELSE a < Half /\ a < q
           next == IF lps THEN AfterLPS(s) ELSE IF ~upper /\ a >= Half THEN s ELSE AfterMPS(s)
           val == IF lps THEN 1 - s[2] ELSE s[2]
           f == IF upper THEN [r EXCEPT !.c = @ - a*p, !.a = q] ELSE [r EXCEPT !.a = a]
           got == Decoded(r, s)
<1>0. /\ q \in Nat /\ 0 < q /\ q < Half /\ AfterLPS(s) \in States
      /\ AfterMPS(s) \in States /\ s[2] \in {0, 1}
  <2>1. s[2] \in {0, 1}
    BY DEF States
  <2> QED
    BY <2>1, Estimates
<1>1. got = [val |-> val, s |-> next, d |-> f]
  BY Zenon DEF Decoded
<1>2. val \in {0, 1} /\ next \in States
  <2> HIDE DEF lps, upper, a
  <2> QED
    BY <1>0
<1>3. got.val = val /\ got.s = next /\ got.d = f
  <2> HIDE DEF val, next, f, got
  <2> QED
    BY <1>1
<1>4. DOMAIN r = RFields /\ r.c \in Nat /\ r.a \in Nat /\ r.ct \in 0..7
      /\ r.a \in 1..Whole /\ Below(r) /\ Half \in Nat /\ Half >= 1 /\ Whole \in Nat
  <2>1. /\ DOMAIN r = RFields /\ r.c \in Nat /\ r.a \in Nat /\ r.a # 0
        /\ r.ct \in 0..7 \/ r.ct = -8 \/ r.ct = -16
        /\ Half \in Nat /\ Half >= 1 /\ Whole \in Nat
    BY RegsCases, Widths
  <2>2. r.ct \in 0..7
    BY <2>1, RegsCases
  <2> QED
    BY <2>1, <2>2, RegsCases
<1>5. p \in Nat /\ p >= 1
  BY <1>4, Shifted
<1>6. Below(r) <=> r.c < r.a*p
  BY BelowShifted
<1>7. a \in 1..Whole /\ q \in 1..Whole /\ r.a = a + q /\ a \in Int /\ q \in Int
  BY <1>0, <1>4
<1> HIDE DEF q, a, p, val, next, lps, got
<1>8. CASE upper
  <2> DEFINE c == r.c - a*p
  <2>1. f = [r EXCEPT !.c = c, !.a = q]
    BY <1>8
  <2>2. c \in Nat /\ c < q*p
    <3>1. r.c < (a + q)*p /\ r.c \in Nat /\ r.c >= a*p
      BY <1>4, <1>6, <1>7, <1>8
    <3>2. (a + q)*p = a*p + q*p /\ a*p \in Int /\ q*p \in Int
      BY <1>5, <1>7, SMT
    <3> QED
      BY <3>1, <3>2
  <2> HIDE DEF c, f
  <2>3. /\ DOMAIN f = RFields /\ f.c = c /\ f.a = q /\ f.ct = r.ct
        /\ f.next = r.next /\ f.unread_marker = r.unread_marker
    BY <1>4, <2>1, SMT DEF RFields
  <2>4. Below(f) <=> f.c < f.a*p
    BY <2>3, BelowShifted DEF p
  <2>5. RegsOK(f) /\ f.ct # -1
    BY <1>4, <1>7, <2>2, <2>3, <2>4, RegsCoding
  <2> QED
    BY <1>2, <1>3, <2>3, <2>5 DEF got, f
<1>9. CASE ~upper
  <2>1. f = [r EXCEPT !.a = a]
    BY <1>9
  <2>2. r.c < a*p
    BY <1>4, <1>5, <1>7, <1>9, SMT
  <2> HIDE DEF f
  <2>3. /\ DOMAIN f = RFields /\ f.c = r.c /\ f.a = a /\ f.ct = r.ct
        /\ f.next = r.next /\ f.unread_marker = r.unread_marker
    BY <1>4, <2>1, SMT DEF RFields
  <2>4. Below(f) <=> f.c < f.a*p
    BY <2>3, BelowShifted DEF p
  <2>5. RegsOK(f) /\ f.ct # -1
    BY <1>4, <1>7, <2>2, <2>3, <2>4, RegsCoding
  <2> QED
    BY <1>2, <1>3, <2>3, <2>5 DEF got, f
<1> QED
  BY <1>8, <1>9

\* A restart leads to a place behind a marker, before the end or at EOI.
LEMMA RestartAt ==
  ASSUME NEW bytes, BytesOK(bytes), NEW r, DOMAIN r = RFields, NEW desired \in Int,
         Placed(r.next, r.unread_marker, bytes)
  PROVE  LET at == ReadRestartMarker(r, bytes, desired)
         IN Placed(at.next, at.unread_marker, bytes)
<1> DEFINE n == Len(bytes)
           Q(i) == /\ IsMarker(bytes, i) /\ ~Passed(bytes[i + 1], desired)
                   /\ \A k \in r.next..(i - 1) : IsMarker(bytes, k) => Passed(bytes[k + 1], desired)
           i == CHOOSE i \in r.next..(n - 1) : Q(i)
           found == IF r.unread_marker # 0 /\ ~Passed(r.unread_marker, desired) THEN r
                    ELSE [r EXCEPT !.next = i + 2, !.unread_marker = bytes[i + 1]]
           at == ReadRestartMarker(r, bytes, desired)
<1>1. /\ n \in Nat /\ n >= 2 /\ bytes[n - 1] = 255 /\ bytes[n] = EOI
      /\ \A k \in 1..n : bytes[k] \in 0..255
  <2>1. n \in Nat /\ \A k \in 1..n : bytes[k] \in 0..255
    BY BytesAt
  <2> QED
    BY <2>1 DEF BytesOK
<1>2. ~Passed(EOI, desired) /\ Left(EOI, desired)
  <2>1. \A k \in Int : RST(k) \in 208..215
    <3>1. \A k \in Int : k % 8 \in 0..7
      OBVIOUS
    <3> QED
      BY <3>1 DEF RST
  <2>2. EOI # RST(desired + 7) /\ EOI # RST(desired + 6) /\ EOI \notin 208..215 /\ ~(EOI < 192)
    BY <2>1 DEF EOI
  <2> QED
    BY <2>2 DEF Passed, Left
<1>3. at = [found EXCEPT !.unread_marker = IF Left(@, desired) THEN @ ELSE 0]
  BY Zenon DEF ReadRestartMarker
<1>4. /\ r.next \in Nat /\ r.next >= 1 /\ r.unread_marker \in 0..255
      /\ r.unread_marker = EOI \/ r.next <= n - 1
  BY DEF Placed
<1>5. CASE r.unread_marker # 0 /\ ~Passed(r.unread_marker, desired)
  <2>1. at = [r EXCEPT !.unread_marker = IF Left(@, desired) THEN @ ELSE 0]
    BY <1>3, <1>5
  <2> HIDE DEF at
  <2>2. at.next = r.next /\ at.unread_marker = IF Left(r.unread_marker, desired) THEN r.unread_marker ELSE 0
    BY <2>1 DEF RFields
  <2>3. Placed(at.next, at.unread_marker, bytes)
    BY <1>2, <1>4, <2>2 DEF Placed
  <2> QED
    BY <2>3 DEF at
<1>6. CASE ~(r.unread_marker # 0 /\ ~Passed(r.unread_marker, desired))
  <2>1. r.unread_marker # EOI /\ r.next \in 1..(n - 1)
    <3>1. r.unread_marker # EOI
      BY <1>2, <1>6 DEF EOI
    <3> QED
      BY <1>1, <1>4, <3>1
  <2> DEFINE P == {k \in r.next..(n - 1) : IsMarker(bytes, k) /\ ~Passed(bytes[k + 1], desired)}
  <2>2. r.next \in Int /\ n - 1 \in Int /\ n - 1 \in r.next..(n - 1) /\ (n - 1) + 1 = n
    BY <1>1, <2>1
  <2>3. n - 1 \in P
    <3>1. IsMarker(bytes, n - 1)
      BY <1>1, <2>2 DEF IsMarker, EOI
    <3> QED
      BY <1>1, <1>2, <2>2, <3>1
  <2> HIDE DEF P
  <2>4. PICK j \in r.next..(n - 1) : j \in P /\ \A k \in r.next..(j - 1) : k \notin P
    <3> DEFINE lo == r.next
               hi == n - 1
    <3>1. lo \in Int /\ hi \in Int /\ hi \in lo..hi /\ hi \in P
      BY <2>2, <2>3
    <3> HIDE DEF lo, hi
    <3>2. \E j \in lo..hi : j \in P /\ \A k \in lo..(j - 1) : k \notin P
      BY <3>1, FirstPlace
    <3> QED
      BY <3>2 DEF lo, hi
  <2>5. Q(j)
    <3>1. \A k \in r.next..(j - 1) : k \in r.next..(n - 1)
      BY <2>2, <2>4
    <3> QED
      BY <2>4, <3>1 DEF P
  <2> HIDE DEF Q
  <2>6. i \in r.next..(n - 1) /\ Q(i)
    BY <2>4, <2>5
  <2> HIDE DEF i
  <2>7. IsMarker(bytes, i)
    BY <2>6 DEF Q
  <2> DEFINE m == bytes[i + 1]
  <2>8. m \in 0..255 /\ m \notin {0, 255} /\ i \in 1..(n - 1)
    <3>1. i \in 1..(n - 1) /\ i + 1 \in 1..n
      BY <1>1, <2>1, <2>6
    <3> QED
      BY <1>1, <2>7, <3>1 DEF IsMarker
  <2>9. i = n - 1 => m = EOI
    BY <1>1, <2>2
  <2>10. i # n - 2
    <3>1. i = n - 2 => m = bytes[n - 1]
      BY <1>1, <2>8
    <3> HIDE DEF m
    <3> QED
      BY <1>1, <2>8, <3>1
  <2> HIDE DEF m
  <2>11. at = [[r EXCEPT !.next = i + 2, !.unread_marker = m]
                  EXCEPT !.unread_marker = IF Left(@, desired) THEN @ ELSE 0]
    BY <1>3, <1>6 DEF m
  <2> HIDE DEF at
  <2>12. at.next = i + 2 /\ at.unread_marker = IF Left(m, desired) THEN m ELSE 0
    BY <2>11 DEF RFields
  <2>13. Placed(at.next, at.unread_marker, bytes)
    <3>1. CASE i = n - 1
      BY <1>1, <1>2, <2>8, <2>9, <2>12, <3>1 DEF Placed, EOI
    <3>2. CASE i # n - 1
      <4>1. i + 2 <= n - 1 /\ i + 2 \in Nat /\ i + 2 >= 1
        BY <1>1, <2>8, <2>10, <3>2
      <4> QED
        BY <2>8, <2>12, <4>1 DEF Placed
    <3> QED
      BY <3>1, <3>2
  <2> QED
    BY <2>13 DEF at
<1> QED
  BY <1>5, <1>6

-----------------------------------------------------------------------------
(* The invariant of the decoder.                                             *)

\* The decoder begins at the first byte when the scan is complete; behind an error,
\* which the scans that refine DC cannot meet, it decodes nothing.
Decoding ==
  /\ scan = <<>> => d = StartDecoder(1, 0) /\ mcu.ph = "idle"
  /\ scan # <<>> => BytesOK(scan) /\ Placed(d.next, d.unread_marker, scan)
  /\ RegsOK(d) /\ (d.ct = -1 => ~InMCU /\ ~DCRefine)
  /\ At(mcu) /\ mcu.ph # "block"
DecodedOK ==
  /\ \A b \in DOMAIN dstats : dstats[b] \in States
  /\ \E S : MCUs \in Seq(S)
DInv == IInv /\ Decoding /\ DecodedOK

LEMMA StartedDecoder ==
  ASSUME NEW next, NEW marker
  PROVE  LET r == StartDecoder(next, marker)
         IN RegsOK(r) /\ r.ct = -16 /\ r.next = next /\ r.unread_marker = marker
<1> DEFINE r == StartDecoder(next, marker)
<1>1. /\ DOMAIN r = RFields /\ r.ct = -16 /\ r.c = 0 /\ r.a = 0
      /\ r.next = next /\ r.unread_marker = marker
  BY SMT DEF StartDecoder, RFields
<1> HIDE DEF r
<1>2. RegsOK(r)
  BY <1>1, Zenon DEF RegsOK
<1> QED
  BY <1>1, <1>2 DEF r

\* The place is the decoder's next one: the scan's parameters stay.
LEMMA NextPlace ==
  ASSUME NEW y, At(y), job' = job, mcu' = y
  PROVE  At(mcu)'
<1>1. PlaceOK(y) /\ AskOK(y) /\ BandOK(y)
  BY DEF At
<1>2. PlaceOK(mcu)'
  BY <1>1 DEF PlaceOK, Comps
<1>3. AskOK(mcu)'
  <2>1. Growing(y) => Growing(mcu)'
    BY DEF Growing
  <2> QED
    BY <1>1, <2>1, Zenon DEF AskOK
<1>4. BandOK(mcu)'
  BY <1>1, Zenon DEF BandOK, DCRefine
<1> QED
  BY <1>2, <1>3, <1>4 DEF At

LEMMA EncoderSteps ==
  ASSUME DInv, job' = job, scan' = scan, d' = d, dstats' = dstats, mcu' = mcu, MCUs' = MCUs
  PROVE  Decoding' /\ DecodedOK'
<1>1. Decoding /\ DecodedOK
  BY DEF DInv
<1>2. At(mcu)' /\ mcu'.ph # "block"
  BY <1>1, NextPlace DEF Decoding
<1>3. d.ct = -1 => ~InMCU' /\ ~DCRefine'
  BY <1>1, Zenon DEF Decoding, InMCU, DCRefine
<1>4. RegsOK(d')
  BY <1>1, Zenon DEF Decoding
<1>5. Decoding'
  BY <1>1, <1>2, <1>3, <1>4, Zenon DEF Decoding
<1>6. DecodedOK'
  BY <1>1, Zenon DEF DecodedOK
<1> QED
  BY <1>5, <1>6

\* The scan is complete: its bytes, and a marker.
LEMMA ScanComplete ==
  ASSUME NEW s, s \in Seq(Int), WellStuffed(s)
  PROVE  BytesOK(s \o <<255, 217>>)
<1> DEFINE t == s \o <<255, 217>>
           n == Len(s)
<1>1. n \in Nat /\ Len(t) = n + 2 /\ t[n + 1] = 255 /\ t[n + 2] = 217
      /\ \A i \in 1..n : t[i] = s[i] /\ s[i] \in Int /\ i \in DOMAIN s
  OBVIOUS
<1>2. DOMAIN t = 1..(n + 2) /\ t \in Seq(Int)
  BY <1>1
<1>3. ASSUME NEW i \in 1..n PROVE t[i] \in 0..255
  <2>1. s[i] \in Int /\ i \in DOMAIN s /\ t[i] = s[i]
    BY <1>1
  <2> DEFINE x == s[i]
  <2>2. 0 <= x /\ x < 256
    BY <2>1, Zenon DEF WellStuffed
  <2>3. x \in Int /\ t[i] = x
    BY <2>1
  <2> HIDE DEF t, x
  <2>4. x \in 0..255
    BY <2>2, <2>3, SMT
  <2> QED
    BY <2>3, <2>4
<1> HIDE DEF t, n
<1>4. ASSUME NEW i \in 1..(n + 2) PROVE t[i] \in 0..255
  <2>1. i \in 1..n \/ i = n + 1 \/ i = n + 2
    BY <1>1
  <2>2. t[n + 1] \in 0..255 /\ t[n + 2] \in 0..255
    BY <1>1
  <2> QED
    BY <1>3, <2>1, <2>2
<1> DEFINE B == 0..255
<1>5. \A i \in 1..(n + 2) : t[i] \in B
  BY <1>4
<1> HIDE DEF B
<1>6. t \in Seq(B)
  BY <1>1, <1>2, <1>5
<1>7. Len(t) >= 2 /\ t[Len(t) - 1] = 255 /\ t[Len(t)] = EOI
  BY <1>1 DEF EOI
<1> QED
  BY <1>6, <1>7 DEF BytesOK, B, t

\* A damaged byte is not one of the last two.
LEMMA ScanDamaged ==
  ASSUME NEW bytes, BytesOK(bytes), NEW i \in 1..(Len(bytes) - 2), NEW byte \in 0..255
  PROVE  LET t == [bytes EXCEPT ![i] = byte] IN BytesOK(t) /\ Len(t) = Len(bytes)
<1> DEFINE t == [bytes EXCEPT ![i] = byte]
           B == 0..255
           n == Len(bytes)
<1>1. bytes \in Seq(B) /\ n >= 2 /\ bytes[n - 1] = 255 /\ bytes[n] = EOI
  BY DEF BytesOK
<1>2. byte \in B
  OBVIOUS
<1> HIDE DEF B
<1>3. n \in Nat /\ t \in Seq(B) /\ Len(t) = n
  BY <1>1, <1>2
<1>4. i # n /\ i # n - 1 /\ n \in DOMAIN bytes /\ n - 1 \in DOMAIN bytes
  <2>1. DOMAIN bytes = 1..n
    BY <1>1
  <2> HIDE DEF n, t
  <2>2. i \in 1..(n - 2)
    BY DEF n
  <2>3. i # n /\ i # n - 1 /\ n \in 1..n /\ n - 1 \in 1..n
    BY <1>1, <1>3, <2>2
  <2> QED
    BY <2>1, <2>3
<1>5. t[n] = bytes[n] /\ t[n - 1] = bytes[n - 1]
  BY <1>4
<1> HIDE DEF t
<1> QED
  BY <1>1, <1>3, <1>5 DEF BytesOK, B, t

LEMMA InitDecoding == Init => DInv
<1> SUFFICES ASSUME Init PROVE DInv
  OBVIOUS
<1>1. /\ job \in Jobs /\ scan = <<>> /\ d = StartDecoder(1, 0) /\ dstats = NoStats /\ MCUs = <<>>
      /\ mcu = [ph |-> "idle", bin |-> Fixed, blk |-> 1, k |-> 0, kex |-> 0, m |-> 0, v |-> 0,
                sign |-> 0, blocks |-> <<>>, ctx |-> Fresh]
  BY DEF Init
<1>2. /\ DOMAIN mcu = Fields /\ mcu.ph = "idle" /\ mcu.blk = 1 /\ mcu.k = 0 /\ mcu.m = 0
      /\ mcu.sign = 0 /\ mcu.ctx = Fresh
  BY <1>1 DEF Fields
<1>3. DOMAIN Fresh = {"last_dc_val", "dc_context"} /\ Fresh.dc_context \in [Comps -> DCContexts]
  BY DEF Fresh, DCContexts
<1>4. 1 \in 1..Len(job.members)
  <2>1. Len(job.members) \in Nat \ {0}
    BY <1>1, JobFacts
  <2> QED
    BY <2>1
<1>5. PlaceOK(mcu)
  BY <1>2, <1>3, <1>4 DEF PlaceOK
<1>6. AskOK(mcu) /\ BandOK(mcu)
  BY <1>2 DEF AskOK, BandOK
<1>7. RegsOK(d) /\ d.ct = -16
  BY <1>1, StartedDecoder
<1>8. d.ct # -1
  BY <1>7
<1>9. Decoding
  BY <1>1, <1>2, <1>5, <1>6, <1>7, <1>8 DEF Decoding, At
<1>10. DecodedOK
  <2>1. MCUs \in Seq({})
    BY <1>1
  <2>2. \A b \in DOMAIN dstats : dstats[b] \in States
    BY <1>1 DEF NoStats
  <2> QED
    BY <2>1, <2>2 DEF DecodedOK
<1> QED
  BY <1>9, <1>10, InitInv DEF DInv

\* A new MCU: what the actions of the decoder begin and end one with.
LEMMA Appended ==
  ASSUME NEW s, NEW S, s \in Seq(S), NEW x
  PROVE  \E T : Append(s, x) \in Seq(T)
<1>1. s \in Seq(S \cup {x}) /\ x \in S \cup {x}
  OBVIOUS
<1>2. Append(s, x) \in Seq(S \cup {x})
  BY <1>1
<1> QED
  BY <1>2

LEMMA CompleteKeeps ==
  ASSUME DInv, FinishPass
  PROVE  Decoding' /\ DecodedOK'
<1>0. Decoding /\ DecodedOK /\ job \in Jobs
  BY DEF DInv, IInv
<1>1. /\ scan = <<>> /\ scan' = Finished(e) \o <<255, 217>>
      /\ job' = job /\ d' = d /\ dstats' = dstats /\ mcu' = mcu /\ MCUs' = MCUs
  BY DEF FinishPass
<1>2. Finished(e) \in Seq(Int) /\ WellStuffed(Finished(e))
  BY FinishedStuffed, Zenon DEF DInv, IInv, EncoderInv
<1>3. BytesOK(scan')
  BY <1>1, <1>2, ScanComplete
<1>4. Placed(d'.next, d'.unread_marker, scan')
  <2>1. d.next = 1 /\ d.unread_marker = 0
    BY <1>0, <1>1, StartedDecoder DEF Decoding
  <2>2. Len(scan') \in Nat /\ Len(scan') >= 2
    BY <1>3, BytesAt DEF BytesOK
  <2> QED
    BY <1>1, <2>1, <2>2 DEF Placed
<1>5. scan' # <<>>
  <2>1. Len(scan') >= 2
    BY <1>3 DEF BytesOK
  <2> QED
    BY <2>1
<1>6. At(mcu)' /\ mcu'.ph # "block"
  BY <1>0, <1>1, NextPlace DEF Decoding
<1>7. d.ct = -1 => ~InMCU' /\ ~DCRefine'
  BY <1>0, <1>1, Zenon DEF Decoding, InMCU, DCRefine
<1>8. Decoding'
  BY <1>0, <1>1, <1>3, <1>4, <1>5, <1>6, <1>7, Zenon DEF Decoding
<1>9. DecodedOK'
  BY <1>0, <1>1, Zenon DEF DecodedOK
<1> QED
  BY <1>8, <1>9

LEMMA DamageKeeps ==
  ASSUME DInv, Damage
  PROVE  Decoding' /\ DecodedOK'
<1>0. Decoding /\ DecodedOK /\ job \in Jobs
  BY DEF DInv, IInv
<1>1. /\ scan # <<>> /\ job' = job /\ d' = d /\ dstats' = dstats /\ mcu' = mcu /\ MCUs' = MCUs
  BY DEF Damage
<1>2. PICK i \in 1..(Len(scan) - 2), byte \in job.damages : scan' = [scan EXCEPT ![i] = byte]
  BY DEF Damage
<1>3. byte \in 0..255
  BY <1>0, <1>2, JobFacts
<1>4. BytesOK(scan) /\ Placed(d.next, d.unread_marker, scan)
  BY <1>0, <1>1 DEF Decoding
<1>5. BytesOK(scan') /\ Len(scan') = Len(scan)
  BY <1>2, <1>3, <1>4, ScanDamaged
<1>6. Placed(d'.next, d'.unread_marker, scan')
  BY <1>1, <1>4, <1>5 DEF Placed
<1>7. scan' # <<>>
  <2>1. Len(scan') >= 2
    BY <1>5 DEF BytesOK
  <2> QED
    BY <2>1
<1>8. At(mcu)' /\ mcu'.ph # "block"
  BY <1>0, <1>1, NextPlace DEF Decoding
<1>9. d.ct = -1 => ~InMCU' /\ ~DCRefine'
  BY <1>0, <1>1, Zenon DEF Decoding, InMCU, DCRefine
<1>10. Decoding'
  BY <1>0, <1>1, <1>5, <1>6, <1>7, <1>8, <1>9, Zenon DEF Decoding
<1>11. DecodedOK'
  BY <1>0, <1>1, Zenon DEF DecodedOK
<1> QED
  BY <1>10, <1>11

LEMMA RefillKeeps ==
  ASSUME DInv, Refill
  PROVE  Decoding' /\ DecodedOK'
<1>0. Decoding /\ DecodedOK /\ job \in Jobs
  BY DEF DInv, IInv
<1>1. /\ InMCU /\ d.a < Half /\ d' = Refilled(d, scan)
      /\ job' = job /\ scan' = scan /\ dstats' = dstats /\ mcu' = mcu /\ MCUs' = MCUs
  BY DEF Refill
<1>2. scan # <<>> /\ d.ct # -1
  BY <1>0, <1>1, Zenon DEF Decoding, InMCU
<1>3. BytesOK(scan) /\ Placed(d.next, d.unread_marker, scan) /\ RegsOK(d)
  BY <1>0, <1>2 DEF Decoding
<1>4. RegsOK(d') /\ d'.ct # -1 /\ Placed(d'.next, d'.unread_marker, scan)
  BY <1>1, <1>2, <1>3, RefilledAt
<1>5. At(mcu)' /\ mcu'.ph # "block"
  BY <1>0, <1>1, NextPlace DEF Decoding
<1>6. Decoding'
  BY <1>1, <1>2, <1>3, <1>4, <1>5, Zenon DEF Decoding
<1>7. DecodedOK'
  BY <1>0, <1>1, Zenon DEF DecodedOK
<1> QED
  BY <1>6, <1>7

LEMMA DecodeMCUKeeps ==
  ASSUME DInv, DecodeMCU
  PROVE  Decoding' /\ DecodedOK'
<1> DEFINE restart == Restarting(Len(MCUs))
           blocks == [b \in DOMAIN job.members |-> Before(job.MCUs[Len(MCUs) + 1][b])]
           ctx == IF restart THEN Fresh ELSE mcu.ctx
           x == [mcu EXCEPT !.ph = "block", !.blk = 1, !.blocks = blocks, !.ctx = ctx]
           z == [x EXCEPT !.ph = "done"]
           at == ReadRestartMarker(d, scan, Restart(Len(MCUs)))
<1>0. Decoding /\ DecodedOK /\ job \in Jobs
  BY DEF DInv, IInv
<1>1. /\ scan # <<>> /\ job' = job /\ scan' = scan
      /\ d' = IF restart THEN StartDecoder(at.next, at.unread_marker) ELSE d
      /\ dstats' = IF restart THEN NoStats ELSE dstats
      /\ IF d'.ct = -1 /\ ~DCRefine THEN mcu' = z /\ MCUs' = Append(MCUs, blocks)
         ELSE mcu' = AtBlock(x) /\ MCUs' = MCUs
  BY Zenon DEF DecodeMCU
<1>2. BytesOK(scan) /\ Placed(d.next, d.unread_marker, scan) /\ RegsOK(d) /\ PlaceOK(mcu)
  BY <1>0, <1>1 DEF Decoding, At
<1>3. Len(MCUs) \in Nat
  <2>1. PICK S : MCUs \in Seq(S)
    BY <1>0, Zenon DEF DecodedOK
  <2> QED
    BY <2>1
<1>4. restart => Restart(Len(MCUs)) \in Int
  <2>1. job.restart_interval \in Nat
    BY <1>0, JobFacts
  <2> DEFINE q == Len(MCUs) \div job.restart_interval
  <2>2. restart => q \in Int
    BY <1>3, <2>1 DEF Restarting
  <2> HIDE DEF q
  <2>3. q \in Int => (q - 1) % 8 \in Int
    OBVIOUS
  <2>4. Restart(Len(MCUs)) = (q - 1) % 8
    BY Zenon DEF Restart, q
  <2> QED
    BY <2>2, <2>3, <2>4
<1>5. restart => Placed(at.next, at.unread_marker, scan)
  <2>1. DOMAIN d = RFields
    BY <1>2 DEF RegsOK
  <2> QED
    BY <1>2, <1>4, <2>1, RestartAt
<1>6. DOMAIN Fresh = {"last_dc_val", "dc_context"} /\ Fresh.dc_context \in [Comps -> DCContexts]
  BY DEF Fresh, DCContexts
<1>7. 1 \in 1..Len(job.members)
  <2>1. Len(job.members) \in Nat \ {0}
    BY <1>0, JobFacts
  <2> QED
    BY <2>1
<1>8. DOMAIN ctx = {"last_dc_val", "dc_context"} /\ ctx.dc_context \in [Comps -> DCContexts]
  BY <1>2, <1>6 DEF PlaceOK
<1> HIDE DEF restart, blocks, ctx, at
<1>9. PlaceOK(x) /\ x.ph = "block" /\ DOMAIN x = Fields
  BY <1>2, <1>7, <1>8 DEF PlaceOK, Fields
<1> HIDE DEF x
<1>10. At(x)
  BY <1>9 DEF At, AskOK, BandOK
<1>11. At(AtBlock(x)) /\ AtBlock(x).ph # "block"
  BY <1>0, <1>10, AtBlockAt, AtBlockAsks
<1>12. PlaceOK(z) /\ z.ph = "done"
  BY <1>9 DEF PlaceOK, Fields
<1> HIDE DEF z
<1>13. At(z) /\ z.ph # "block"
  BY <1>12 DEF At, AskOK, BandOK
<1>14. /\ RegsOK(d') /\ Placed(d'.next, d'.unread_marker, scan)
       /\ d'.ct = -1 => ~DCRefine
  <2>1. CASE restart
    <3> DEFINE r == StartDecoder(at.next, at.unread_marker)
    <3>1. d' = r
      BY <1>1, <2>1
    <3>2. RegsOK(r) /\ r.ct = -16 /\ r.next = at.next /\ r.unread_marker = at.unread_marker
      BY StartedDecoder
    <3> HIDE DEF r
    <3>3. r.ct # -1
      BY <3>2
    <3> QED
      BY <1>5, <2>1, <3>1, <3>2, <3>3
  <2>2. CASE ~restart
    <3>1. d' = d
      BY <1>1, <2>2
    <3>2. d.ct = -1 => ~DCRefine
      BY <1>0, Zenon DEF Decoding
    <3> QED
      BY <1>2, <3>1, <3>2
  <2> QED
    BY <2>1, <2>2
<1>15. At(mcu)' /\ mcu'.ph # "block"
  BY <1>1, <1>11, <1>13, NextPlace
<1>16. d'.ct = -1 => ~InMCU' /\ ~DCRefine'
  <2>1. d'.ct = -1 => mcu' = z
    BY <1>1, <1>14
  <2>2. d'.ct = -1 => mcu'.ph = "done"
    BY <1>12, <2>1
  <2> QED
    BY <1>1, <1>14, <2>2, Zenon DEF InMCU, DCRefine
<1>17. Decoding'
  BY <1>1, <1>2, <1>14, <1>15, <1>16, Zenon DEF Decoding
<1>18. DecodedOK'
  <2>1. PICK S : MCUs \in Seq(S)
    BY <1>0, Zenon DEF DecodedOK
  <2>2. \E T : Append(MCUs, blocks) \in Seq(T)
    BY <2>1, Appended
  <2>3. \E T : MCUs' \in Seq(T)
    BY <1>1, <2>1, <2>2, Zenon
  <2>4. \A b \in DOMAIN dstats' : dstats'[b] \in States
    <3>1. \A b \in DOMAIN NoStats : NoStats[b] \in States
      BY DEF NoStats
    <3>2. \A b \in DOMAIN dstats : dstats[b] \in States
      BY <1>0, Zenon DEF DecodedOK
    <3>3. dstats' = NoStats \/ dstats' = dstats
      BY <1>1
    <3> QED
      BY <3>1, <3>2, <3>3, Zenon
  <2> QED
    BY <2>3, <2>4, Zenon DEF DecodedOK
<1> QED
  BY <1>17, <1>18

LEMMA StatOf ==
  ASSUME NEW stats, \A b \in DOMAIN stats : stats[b] \in States, NEW bin
  PROVE  Stat(stats, bin) \in States
  BY DEF Stat, States, FixedBin

LEMMA DecodeKeeps ==
  ASSUME DInv, Decode
  PROVE  Decoding' /\ DecodedOK'
<1> DEFINE s == Stat(dstats, mcu.bin)
           got == Decoded(d, s)
           w == Decision(mcu, got.val)
           x == AtBlock(w)
           r == [got.d EXCEPT !.ct = -1]
<1>0. Decoding /\ DecodedOK /\ job \in Jobs
  BY DEF DInv, IInv
<1>1. /\ InMCU /\ d.a >= Half /\ job' = job /\ scan' = scan
      /\ mcu' = x /\ dstats' = SetStat(dstats, mcu.bin, got.s)
      /\ d' = IF x.ph = "error" THEN r ELSE got.d
      /\ MCUs' = IF x.ph \in {"done", "error"} THEN Append(MCUs, x.blocks) ELSE MCUs
  BY Zenon DEF Decode
<1>2. scan # <<>> /\ d.ct # -1
  BY <1>0, <1>1, Zenon DEF Decoding, InMCU
<1>3. BytesOK(scan) /\ Placed(d.next, d.unread_marker, scan) /\ RegsOK(d) /\ At(mcu)
  BY <1>0, <1>2 DEF Decoding
<1>4. \A b \in DOMAIN dstats : dstats[b] \in States
  BY <1>0, Zenon DEF DecodedOK
<1>5. s \in States
  BY <1>4, StatOf
<1> HIDE DEF s
<1>6. /\ got.val \in {0, 1} /\ got.s \in States /\ RegsOK(got.d) /\ got.d.ct # -1
      /\ Placed(got.d.next, got.d.unread_marker, scan)
  BY <1>1, <1>2, <1>3, <1>5, DecodedAt
<1>7. mcu.ph \notin {"idle", "done", "error", "block"}
  BY <1>0, <1>1 DEF Decoding, InMCU
<1> HIDE DEF got
<1>8. At(w)
  BY <1>0, <1>3, <1>6, <1>7, DecisionAt
<1> HIDE DEF w
<1>9. At(x) /\ x.ph # "block"
  BY <1>0, <1>8, AtBlockAt, AtBlockAsks
<1> HIDE DEF x
<1>10. At(mcu)' /\ mcu'.ph # "block"
  BY <1>1, <1>9, NextPlace
<1>11. RegsOK(r) /\ r.ct = -1 /\ r.next = got.d.next /\ r.unread_marker = got.d.unread_marker
  <2>1. DOMAIN got.d = RFields
    BY <1>6 DEF RegsOK
  <2>2. /\ DOMAIN r = RFields /\ r.ct = -1 /\ r.next = got.d.next
        /\ r.unread_marker = got.d.unread_marker
    BY <2>1, SMT DEF RFields
  <2> HIDE DEF r
  <2> QED
    BY <2>2, Zenon DEF RegsOK
<1> HIDE DEF r
<1>12. RegsOK(d') /\ Placed(d'.next, d'.unread_marker, scan)
  BY <1>1, <1>6, <1>11
<1>13. d'.ct = -1 => ~InMCU' /\ ~DCRefine'
  <2>1. d'.ct = -1 => x.ph = "error"
    BY <1>1, <1>6
  <2>2. x.ph = "error" => ~DCRefine
    BY <1>9 DEF At, BandOK
  <2> QED
    BY <1>1, <2>1, <2>2, Zenon DEF InMCU, DCRefine
<1>14. Decoding'
  BY <1>1, <1>2, <1>3, <1>10, <1>12, <1>13, Zenon DEF Decoding
<1>15. DecodedOK'
  <2>1. PICK S : MCUs \in Seq(S)
    BY <1>0, Zenon DEF DecodedOK
  <2>2. \E T : Append(MCUs, x.blocks) \in Seq(T)
    BY <2>1, Appended
  <2>3. \E T : MCUs' \in Seq(T)
    BY <1>1, <2>1, <2>2, Zenon
  <2>4. \A b \in DOMAIN dstats' : dstats'[b] \in States
    BY <1>1, <1>4, <1>6 DEF SetStat
  <2> QED
    BY <2>3, <2>4, Zenon DEF DecodedOK
<1> QED
  BY <1>14, <1>15

LEMMA NextDecoding == DInv /\ [Next]_vars => DInv'
<1> SUFFICES ASSUME DInv, [Next]_vars PROVE DInv'
  OBVIOUS
<1>1. IInv'
  BY NextInv DEF DInv
<1>2. CASE EncodeMCU \/ Encode \/ Renormalize \/ UNCHANGED vars
  <2>1. job' = job /\ scan' = scan /\ d' = d /\ dstats' = dstats /\ mcu' = mcu /\ MCUs' = MCUs
    BY <1>2, Zenon DEF EncodeMCU, Encode, Renormalize, vars
  <2> QED
    BY <1>1, <2>1, EncoderSteps, Zenon DEF DInv
<1>3. CASE FinishPass
  BY <1>1, <1>3, CompleteKeeps, Zenon DEF DInv
<1>4. CASE Damage
  BY <1>1, <1>4, DamageKeeps, Zenon DEF DInv
<1>5. CASE DecodeMCU
  BY <1>1, <1>5, DecodeMCUKeeps, Zenon DEF DInv
<1>6. CASE Refill
  BY <1>1, <1>6, RefillKeeps, Zenon DEF DInv
<1>7. CASE Decode
  BY <1>1, <1>7, DecodeKeeps, Zenon DEF DInv
<1> QED
  BY <1>2, <1>3, <1>4, <1>5, <1>6, <1>7, Zenon DEF Next

\* What the place says of the bin, and the registers of the interval.
LEMMA DecodingHolds == DInv => DecoderInv
<1> SUFFICES ASSUME DInv PROVE DecoderInv
  OBVIOUS
<1>0. RegsOK(d) /\ (d.ct = -1 => ~InMCU) /\ At(mcu) /\ mcu.ph # "block"
  BY Zenon DEF DInv, Decoding
<1>1. \/ d.ct = -16 /\ d.c = 0 /\ d.a = 0
      \/ d.ct = -8 /\ d.c \in 0..255 /\ d.a = 0
      \/ d.ct \in 0..7 /\ d.a \in 1..Whole /\ d.c \in Nat /\ d.c < d.a*2^d.ct
      \/ d.ct = -1 /\ ~InMCU
  BY <1>0, Zenon DEF RegsOK, Below
<1>2. ASSUME InMCU
      PROVE  mcu.bin[3] \in CASE mcu.ph = "more" -> Lengths(mcu.bin[1])
                               [] mcu.ph = "bits" -> LowBits(mcu.bin[1])
                               [] OTHER -> Contexts(mcu.bin[1])
  <2>0. AskOK(mcu) /\ mcu.ph \notin {"idle", "done", "error", "block"}
    BY <1>0, <1>2 DEF At, InMCU
  <2>1. CASE mcu.ph = "more"
    <3>1. Growing(mcu)
      BY <2>0, <2>1 DEF AskOK
    <3>2. mcu.bin[3] \in Lengths(mcu.bin[1])
      BY <3>1 DEF Growing, Lengths
    <3> QED
      BY <2>1, <3>2
  <2>2. CASE mcu.ph = "bits"
    BY <2>0, <2>2 DEF AskOK
  <2>3. CASE mcu.ph \notin {"more", "bits"}
    <3>1. mcu.bin[3] \in Contexts(mcu.bin[1])
      <4>1. CASE mcu.ph \in {"dcbit", "sign", "newsign"}
        BY <4>1, <2>0 DEF AskOK, Contexts
      <4>2. CASE mcu.ph = "dc"
        BY <4>2, <2>0 DEF AskOK, Contexts, DCContexts
      <4>3. CASE mcu.ph = "dcsign"
        <5>1. mcu.bin[1] = "dc" /\ mcu.bin[3] \in Int /\ mcu.bin[3] - 1 \in DCContexts
          BY <4>3, <2>0 DEF AskOK
        <5>2. mcu.bin[3] \in 0..19
          BY <5>1 DEF DCContexts
        <5> QED
          BY <5>1, <5>2 DEF Contexts
      <4>4. CASE mcu.ph = "dcmag"
        <5>1. /\ mcu.bin[1] = "dc" /\ mcu.bin[3] \in Int
              /\ mcu.bin[3] - 2 \in DCContexts \/ mcu.bin[3] - 3 \in DCContexts
          BY <4>4, <2>0 DEF AskOK
        <5>2. mcu.bin[3] \in 0..19
          BY <5>1 DEF DCContexts
        <5> QED
          BY <5>1, <5>2 DEF Contexts
      <4>5. CASE mcu.ph \in {"end", "zero", "acmag", "acmag2", "correct", "new"}
        BY <4>5, <2>0 DEF AskOK, Contexts
      <4> QED
        BY <2>0, <2>3, <4>1, <4>2, <4>3, <4>4, <4>5 DEF AskOK
    <3> QED
      BY <2>3, <3>1
  <2> QED
    BY <2>1, <2>2, <2>3
<1>3. scan # <<>> /\ d.unread_marker = 0 => d.next \in DOMAIN scan
  <2> SUFFICES ASSUME scan # <<>>, d.unread_marker = 0 PROVE d.next \in DOMAIN scan
    OBVIOUS
  <2>1. BytesOK(scan) /\ Placed(d.next, d.unread_marker, scan)
    BY Zenon DEF DInv, Decoding
  <2>2. d.next \in Nat /\ d.next >= 1 /\ d.next <= Len(scan) - 1
    BY <2>1 DEF Placed, EOI
  <2>3. DOMAIN scan = 1..Len(scan) /\ Len(scan) \in Nat
    BY <2>1 DEF BytesOK
  <2> QED
    BY <2>2, <2>3
<1> QED
  BY <1>1, <1>2, <1>3, Zenon DEF DecoderInv

\* However the data are damaged, c stays below the interval, get_byte finds a byte until
\* it met a marker, nothing is decoded behind an error, and every decision of an MCU is
\* asked for with a bin in its own part of a statistics area.
THEOREM DecoderRegisters == Spec => []DecoderInv
<1> QED
  BY InitDecoding, NextDecoding, DecodingHolds, PTL DEF Spec
=============================================================================
