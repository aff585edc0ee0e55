--------------------------- MODULE ArithmeticCoder ---------------------------
(***************************************************************************)
(* The binary arithmetic coder of jpeg8d: the table of jaricom.c, the core    *)
(* of jcarith.c (arith_encode, finish_pass) and that of jdarith.c             *)
(* (arith_decode, get_byte), with the registers and the bytes they have.      *)
(*                                                                          *)
(* A decision is coded with an adaptive estimate, a pair <<index, MPS>> that  *)
(* the code packs in one byte.  The encoder holds back the bytes that a carry  *)
(* may still change: buffer, sc bytes 0xFF behind it and zc bytes 0x00 before. *)
(* The operators map the registers, with the bytes written so far.            *)
(***************************************************************************)
EXTENDS Integers, Sequences

\* The interval is renormalized below Half, and begins at Whole; the byte that
\* goes out next is in c from 2^19 on, the one behind it from 2^11.
Half == 32768
Whole == 65536
ByteUnit == 524288
NextUnit == 2048

\* Qe_Value, Next_Index_LPS, Next_Index_MPS and Switch_MPS of each state.
jpeg_aritab == <<
  <<23069, 1, 1, 1>>, <<9606, 14, 2, 0>>, <<4372, 16, 3, 0>>, <<2059, 18, 4, 0>>, <<984, 20, 5, 0>>,
  <<474, 23, 6, 0>>, <<229, 25, 7, 0>>, <<111, 28, 8, 0>>, <<54, 30, 9, 0>>, <<26, 33, 10, 0>>,
  <<13, 35, 11, 0>>, <<6, 9, 12, 0>>, <<3, 10, 13, 0>>, <<1, 12, 13, 0>>, <<23167, 15, 15, 1>>,
  <<16165, 36, 16, 0>>, <<11506, 38, 17, 0>>, <<8316, 39, 18, 0>>, <<6073, 40, 19, 0>>, <<4482, 42, 20, 0>>,
  <<3311, 43, 21, 0>>, <<2465, 45, 22, 0>>, <<1839, 46, 23, 0>>, <<1372, 48, 24, 0>>, <<1030, 49, 25, 0>>,
  <<771, 51, 26, 0>>, <<576, 52, 27, 0>>, <<433, 54, 28, 0>>, <<324, 56, 29, 0>>, <<245, 57, 30, 0>>,
  <<183, 59, 31, 0>>, <<138, 60, 32, 0>>, <<104, 62, 33, 0>>, <<78, 63, 34, 0>>, <<59, 32, 35, 0>>,
  <<44, 33, 9, 0>>, <<23265, 37, 37, 1>>, <<18508, 64, 38, 0>>, <<14861, 65, 39, 0>>, <<12017, 67, 40, 0>>,
  <<9759, 68, 41, 0>>, <<7987, 69, 42, 0>>, <<6568, 70, 43, 0>>, <<5400, 72, 44, 0>>, <<4471, 73, 45, 0>>,
  <<3700, 74, 46, 0>>, <<3067, 75, 47, 0>>, <<2552, 77, 48, 0>>, <<2145, 78, 49, 0>>, <<1798, 79, 50, 0>>,
  <<1485, 48, 51, 0>>, <<1246, 50, 52, 0>>, <<1039, 50, 53, 0>>, <<867, 51, 54, 0>>, <<724, 52, 55, 0>>,
  <<604, 53, 56, 0>>, <<504, 54, 57, 0>>, <<420, 55, 58, 0>>, <<352, 56, 59, 0>>, <<293, 57, 60, 0>>,
  <<246, 58, 61, 0>>, <<203, 59, 62, 0>>, <<171, 61, 63, 0>>, <<143, 61, 32, 0>>, <<23314, 65, 65, 1>>,
  <<19716, 80, 66, 0>>, <<16684, 81, 67, 0>>, <<14296, 82, 68, 0>>, <<12264, 83, 69, 0>>, <<10556, 84, 70, 0>>,
  <<9081, 86, 71, 0>>, <<7903, 87, 72, 0>>, <<6825, 87, 73, 0>>, <<5966, 72, 74, 0>>, <<5156, 72, 75, 0>>,
  <<4508, 74, 76, 0>>, <<3947, 74, 77, 0>>, <<3409, 75, 78, 0>>, <<2998, 77, 79, 0>>, <<2624, 77, 48, 0>>,
  <<22578, 80, 81, 1>>, <<19740, 88, 82, 0>>, <<17294, 89, 83, 0>>, <<15325, 90, 84, 0>>, <<13550, 91, 85, 0>>,
  <<11950, 92, 86, 0>>, <<10650, 93, 87, 0>>, <<9494, 86, 71, 0>>, <<21872, 88, 89, 1>>, <<19625, 95, 90, 0>>,
  <<17625, 96, 91, 0>>, <<15906, 97, 92, 0>>, <<14372, 99, 93, 0>>, <<12980, 99, 94, 0>>, <<11799, 93, 86, 0>>,
  <<22184, 95, 96, 1>>, <<20294, 101, 97, 0>>, <<18405, 102, 98, 0>>, <<16847, 103, 99, 0>>, <<15421, 104, 100, 0>>,
  <<14174, 99, 93, 0>>, <<21041, 105, 102, 0>>, <<19471, 106, 103, 0>>, <<17977, 107, 104, 0>>, <<16734, 103, 99, 0>>,
  <<22055, 105, 106, 1>>, <<20711, 108, 107, 0>>, <<19333, 109, 103, 0>>, <<21911, 110, 109, 0>>, <<20559, 111, 107, 0>>,
  <<23056, 110, 111, 1>>, <<21794, 112, 109, 0>>, <<23019, 112, 111, 1>>, <<23069, 113, 113, 0>>>>

Qe(s) == jpeg_aritab[s[1] + 1][1]
FixedBin == 113

\* Estimate_after_LPS and Estimate_after_MPS.
AfterLPS(s) ==
  LET row == jpeg_aritab[s[1] + 1] IN <<row[2], IF row[4] = 1 THEN 1 - s[2] ELSE s[2]>>
AfterMPS(s) == <<jpeg_aritab[s[1] + 1][3], s[2]>>

States == (0..113) \X (0..1)

\* What is used of the table: no estimate is half of the smallest interval or
\* more, and every state leads to another.
ASSUME TableAssumption ==
  \A s \in States : /\ Qe(s) \in Nat /\ 0 < Qe(s) /\ Qe(s) < Half
                    /\ AfterLPS(s) \in States /\ AfterMPS(s) \in States

-----------------------------------------------------------------------------
(* The encoder.                                                            *)

StartEncoder(bytes) ==
  [c |-> 0, a |-> Whole, sc |-> 0, zc |-> 0, ct |-> 11, buffer |-> -1, out |-> bytes]

Zeros(n) == [i \in 1..n |-> 0]
Stacked(n) == [i \in 1..(2*n) |-> IF i % 2 = 1 THEN 255 ELSE 0]
Stuffed(byte) == IF byte = 255 THEN <<255, 0>> ELSE <<byte>>

\* Mutant of Carried: the stacked bytes are forgotten.
CarriedOnce(e) ==
  [e EXCEPT !.out = IF e.buffer >= 0 THEN @ \o Zeros(e.zc) \o Stuffed(e.buffer + 1) ELSE @,
            !.zc = IF e.buffer >= 0 THEN 0 ELSE @, !.sc = 0]

\* A carry: it goes through the stacked bytes, which become 0x00.
Carried(e) ==
  [e EXCEPT !.out = IF e.buffer >= 0 THEN @ \o Zeros(e.zc) \o Stuffed(e.buffer + 1) ELSE @,
            !.zc = e.sc + IF e.buffer >= 0 THEN 0 ELSE @, !.sc = 0]

\* No carry can reach the bytes held back any more.  A zero stays behind.
Settled(e) ==
  LET zc == e.zc + IF e.buffer = 0 THEN 1 ELSE 0
      byte == IF e.buffer > 0 THEN Zeros(zc) \o <<e.buffer>> ELSE <<>>
      left == IF e.buffer > 0 THEN 0 ELSE zc
  IN [e EXCEPT !.out = @ \o byte \o IF e.sc > 0 THEN Zeros(left) \o Stacked(e.sc) ELSE <<>>,
               !.zc = IF e.sc > 0 THEN 0 ELSE left, !.sc = 0]

\* Mutant of ByteReady: the bits of the byte stay in the register.
ByteReadyKept(e) ==
  LET temp == e.c \div ByteUnit
      settled == IF temp > 255 THEN [Carried(e) EXCEPT !.buffer = temp % 256]
                 ELSE IF temp = 255 THEN [e EXCEPT !.sc = @ + 1]
                 ELSE [Settled(e) EXCEPT !.buffer = temp]
  IN [settled EXCEPT !.ct = 8]

\* Another byte is ready for output: the bits of c from 19 on.
ByteReady(e) ==
  LET temp == e.c \div ByteUnit
      settled == IF temp > 255 THEN [Carried(e) EXCEPT !.buffer = temp % 256]
                 ELSE IF temp = 255 THEN [e EXCEPT !.sc = @ + 1]
                 ELSE [Settled(e) EXCEPT !.buffer = temp]
  IN [settled EXCEPT !.c = @ % ByteUnit, !.ct = 8]

\* One turn of the loop that renormalizes.
Renormalized(e) ==
  LET shifted == [e EXCEPT !.a = 2*@, !.c = 2*@, !.ct = @ - 1]
  IN IF shifted.ct = 0 THEN ByteReady(shifted) ELSE shifted

\* The interval for one decision, and the estimate: the larger part is always
\* given to the more probable symbol.
Interval(e, s, val) ==
  LET a == e.a - Qe(s)
      upper == IF val # s[2] THEN a >= Qe(s) ELSE a < Half /\ a < Qe(s)
  IN IF upper THEN [e EXCEPT !.c = @ + a, !.a = Qe(s)] ELSE [e EXCEPT !.a = a]
Estimate(e, s, val) ==
  IF val # s[2] THEN AfterLPS(s)
  ELSE IF e.a - Qe(s) >= Half THEN s ELSE AfterMPS(s)

\* The value in the interval with the most trailing zero bits.
Shortest(e) ==
  LET temp == ((e.a - 1 + e.c) \div Whole)*Whole
  IN IF temp < e.c THEN temp + Half ELSE temp

\* Mutant of Trimmed: the last bytes are written whatever they are.
TrimmedNot(e) ==
  LET high == (e.c \div ByteUnit) % 256
      low == (e.c \div NextUnit) % 256
  IN e.out \o Zeros(e.zc) \o Stuffed(high) \o Stuffed(low)

\* The last two bytes, as far as they are needed.
Trimmed(e) ==
  LET high == (e.c \div ByteUnit) % 256
      low == (e.c \div NextUnit) % 256
  IN IF high = 0 /\ low = 0 THEN e.out
     ELSE e.out \o Zeros(e.zc) \o Stuffed(high) \o IF low = 0 THEN <<>> ELSE Stuffed(low)

\* finish_pass: the bytes of the whole segment.  ct is between 1 and 11.
PowersOf2 == <<2, 4, 8, 16, 32, 64, 128, 256, 512, 1024, 2048>>
Finished(e) ==
  LET last == [e EXCEPT !.c = Shortest(e)*PowersOf2[e.ct]]
  IN Trimmed(IF last.c >= 134217728 THEN Carried(last) ELSE Settled(last))

-----------------------------------------------------------------------------
(* The decoder.  A scan's data is a sequence of bytes that ends with a marker. *)

StartDecoder(next_input_byte, marker) ==
  [c |-> 0, a |-> 0, ct |-> -16, next |-> next_input_byte, unread_marker |-> marker]

\* The first byte at i or later that is not 0xFF.
PastFF(bytes, i) ==
  CHOOSE j \in i..Len(bytes) : bytes[j] # 255 /\ \A k \in i..(j - 1) : bytes[k] = 255

\* get_byte, and what arith_decode makes of a 0xFF: a byte of the data, or zero
\* from the marker on.
Fetched(d, bytes) ==
  LET j == PastFF(bytes, d.next + 1)
  IN IF d.unread_marker # 0 THEN [d EXCEPT !.c = @*256]
     ELSE IF bytes[d.next] # 255 THEN [d EXCEPT !.c = @*256 + bytes[d.next], !.next = @ + 1]
     ELSE IF bytes[j] = 0 THEN [d EXCEPT !.c = @*256 + 255, !.next = j + 1]
     ELSE [d EXCEPT !.c = @*256, !.next = j + 1, !.unread_marker = bytes[j]]

\* One turn of the loop that renormalizes.  At the start two bytes are read.
Refilled(d, bytes) ==
  IF d.ct > 0 THEN [d EXCEPT !.a = 2*@, !.ct = @ - 1]
  ELSE LET ct == d.ct + 7
       IN [Fetched(d, bytes) EXCEPT
             !.ct = IF ct < 0 THEN ct + 1 ELSE ct,
             !.a = IF ct = -1 THEN Whole ELSE 2*@]

\* The decision, and what is left of the interval and of the value in it.
Decoded(d, s) ==
  LET a == d.a - Qe(s)
      upper == d.c >= a*2^d.ct
      lps == IF upper THEN a >= Qe(s) ELSE a < Half /\ a < Qe(s)
  IN [val |-> IF lps THEN 1 - s[2] ELSE s[2],
      s |-> IF lps THEN AfterLPS(s) ELSE IF ~upper /\ a >= Half THEN s ELSE AfterMPS(s),
      d |-> IF upper THEN [d EXCEPT !.c = @ - a*2^d.ct, !.a = Qe(s)] ELSE [d EXCEPT !.a = a]]

\* next_marker skips what is left of the segment.
IsMarker(bytes, i) == bytes[i] = 255 /\ bytes[i + 1] \notin {0, 255}

\* jpeg_resync_to_restart: it passes a marker that is invalid or one of the last
\* two restarts, and leaves one that is no restart or one of the next two.
RST(n) == 208 + (n % 8)
Passed(marker, desired) == marker < 192 \/ marker \in {RST(desired + 7), RST(desired + 6)}
Left(marker, desired) ==
  ~Passed(marker, desired)
  /\ (marker \notin 208..215 \/ marker \in {RST(desired + 1), RST(desired + 2)})

\* read_restart_marker: on to the marker behind which the decoder goes on, or to
\* one that is left for later, behind which it gets zeros.
ReadRestartMarker(d, bytes, desired) ==
  LET i == CHOOSE i \in d.next..(Len(bytes) - 1) :
             /\ IsMarker(bytes, i) /\ ~Passed(bytes[i + 1], desired)
             /\ \A k \in d.next..(i - 1) : IsMarker(bytes, k) => Passed(bytes[k + 1], desired)
      found == IF d.unread_marker # 0 /\ ~Passed(d.unread_marker, desired) THEN d
               ELSE [d EXCEPT !.next = i + 2, !.unread_marker = bytes[i + 1]]
  IN [found EXCEPT !.unread_marker = IF Left(@, desired) THEN @ ELSE 0]
=============================================================================
