---------------------------- MODULE IdctKernels ----------------------------
(***************************************************************************)
(* The inverse DCTs of jpeg8d/jidctint.c (the default JDCT_ISLOW method):   *)
(* every block size from 1x1 to 16x16, the ones that scale an image while   *)
(* decoding it included, in the fixed point of the code.                    *)
(*                                                                          *)
(* A kernel is a pair of one-dimensional transforms.  Pass 1 takes a column *)
(* of dequantised coefficients to a column of the workspace, pass 2 a row   *)
(* of the workspace to a row of samples.  Both are the same butterfly, and  *)
(* IdctN is that butterfly for N points, before any rounding: constants are *)
(* the source's FIX(), that is 2^13 times a real, rounded.  The shifts, the *)
(* fudge factor before each of them and the final range limiting are the    *)
(* arguments of Inverse.  The shortcut the code takes for a column whose AC *)
(* terms are all zero gives what the butterfly gives and has no definition  *)
(* of its own.  Intermediate names are the source's; a letter is added where *)
(* the source assigns a name again.                                         *)
(***************************************************************************)
EXTENDS DctScaling

\* prepare_range_limit_table, seen through IDCT_range_limit and RANGE_MASK:
\* ten bits of the level-shifted result are looked up, so a result outside
\* -512..511 wraps around instead of saturating.
RANGE_MASK == 1024
range_limit(x) ==
  LET m == x % RANGE_MASK
  IN CASE m < 128 -> m + 128
       [] m \in 128..511 -> 255
       [] m \in 512..895 -> 0
       [] m > 895 -> m - 896

\* Output k and output N-1-k of an inverse transform share their even part
\* and have opposite odd parts; the middle output of an odd N has no odd part.
Mirror(N, even, odd) ==
  [k \in 0..(N - 1) |-> CASE 2*k + 1 < N -> even[k + 1] + odd[k + 1]
                          [] 2*k + 1 = N -> even[k + 1]
                          [] 2*k + 1 > N -> even[N - k] - odd[N - k]]

Idct1(x) == Mirror(1, <<x[0]>>, <<>>)

Idct2(x) == Mirror(2, <<x[0]>>, <<x[1]>>)

Idct3(x) ==
  LET tmp0 == x[0]*8192  tmp12 == x[2]*5793
  IN Mirror(3, <<tmp0 + tmp12, tmp0 - tmp12 - tmp12>>,
                <<x[1]*10033>>)

Idct4(x) ==
  LET z1 == (x[1] + x[3])*4433
  IN Mirror(4, <<(x[0] + x[2])*8192, (x[0] - x[2])*8192>>,
                <<z1 + x[1]*6270, z1 - x[3]*15137>>)

Idct5(x) ==
  LET tmp12 == x[0]*8192  z1 == (x[2] + x[4])*6476  z2 == (x[2] - x[4])*2896
      z3 == tmp12 + z2  z1b == (x[1] + x[3])*6810
  IN Mirror(5, <<z3 + z1, z3 - z1, tmp12 - z2*4>>,
                <<z1b + x[1]*4209, z1b - x[3]*17828>>)

Idct6(x) ==
  LET tmp0 == x[0]*8192  tmp10 == x[4]*5793  tmp1 == tmp0 + tmp10  tmp0b == x[2]*10033
      tmp1b == (x[1] + x[5])*2998
  IN Mirror(6, <<tmp1 + tmp0b, tmp0 - tmp10 - tmp10, tmp1 - tmp0b>>,
                <<tmp1b + (x[1] + x[3])*8192, (x[1] - x[3] - x[5])*8192,
                  tmp1b + (x[5] - x[3])*8192>>)

Idct7(x) ==
  LET tmp13 == x[0]*8192  tmp10 == (x[4] - x[6])*7223  tmp12 == (x[2] - x[4])*2578
      tmp0 == x[2] + x[6]  tmp0b == tmp0*10438 + tmp13  tmp1 == (x[1] + x[3])*7663
      tmp2 == (x[1] - x[3])*1395  tmp2b == -(x[3] + x[5])*11295  z2 == (x[1] + x[5])*5027
  IN Mirror(7, <<tmp10 + tmp0b - x[6]*637, tmp10 + tmp12 + tmp13 - x[4]*15083,
                 tmp12 + tmp0b - x[2]*20239, tmp13 + (x[4] - tmp0)*11585>>,
                <<tmp1 + z2 - tmp2, tmp1 + tmp2 + tmp2b, tmp2b + z2 + x[5]*15326>>)

Idct8(x) ==
  LET z1 == (x[2] + x[6])*4433  tmp2 == z1 + x[2]*6270  tmp3 == z1 - x[6]*15137
      tmp0 == (x[0] + x[4])*8192  tmp1 == (x[0] - x[4])*8192  z2 == x[7] + x[3]
      z3 == x[5] + x[1]  z1b == (z2 + z3)*9633  z2b == z1b - z2*16069  z3b == z1b - z3*3196
      z1c == -(x[7] + x[1])*7373  z1d == -(x[5] + x[3])*20995
  IN Mirror(8, <<tmp0 + tmp2, tmp1 + tmp3, tmp1 - tmp3, tmp0 - tmp2>>,
                <<x[1]*12299 + z1c + z3b, x[3]*25172 + z1d + z2b, x[5]*16819 + z1d + z3b,
                  x[7]*2446 + z1c + z2b>>)

Idct9(x) ==
  LET tmp0 == x[0]*8192  tmp3 == x[6]*5793  tmp1 == tmp0 + tmp3  tmp2 == tmp0 - tmp3 - tmp3
      tmp0b == (x[2] - x[4])*5793  tmp0c == (x[2] + x[4])*10887  tmp2b == x[2]*8875
      tmp3b == x[4]*2012  z2 == -x[3]*10033  tmp2c == (x[1] + x[5])*7447
      tmp3c == (x[1] + x[7])*3962  tmp1b == (x[5] - x[7])*11409
  IN Mirror(9, <<tmp1 + tmp0c - tmp3b, tmp2 + tmp0b, tmp1 + tmp2b - tmp0c,
                 tmp1 + tmp3b - tmp2b, tmp2 - tmp0b - tmp0b>>,
                <<tmp2c + tmp3c - z2, (x[1] - x[5] - x[7])*10033, tmp2c + z2 - tmp1b,
                  tmp3c + z2 + tmp1b>>)

Idct10(x) ==
  LET z3 == x[0]*8192  z1 == x[4]*9373  z2 == x[4]*3580  tmp10 == z3 + z1  tmp11 == z3 - z2
      z1b == (x[2] + x[6])*6810  tmp12 == z1b + x[2]*4209  tmp13 == z1b - x[6]*17828
      z3b == x[5]*8192  tmp11b == x[3] + x[7]  tmp13b == x[3] - x[7]  tmp12b == tmp13b*2531
      z2b == tmp11b*7791  z4 == z3b + tmp12b  z2c == tmp11b*4815
      z4b == z3b - tmp12b - tmp13b*4096
  IN Mirror(10, <<tmp10 + tmp12, tmp11 + tmp13, z3 - (z1 - z2)*2, tmp11 - tmp13,
                 tmp10 - tmp12>>,
                <<x[1]*11443 + z2b + z4, x[1]*10323 - z2c - z4b, (x[1] - tmp13b)*8192 - z3b,
                  x[1]*5260 + z4b - z2c, x[1]*1812 + z4 - z2b>>)

Idct11(x) ==
  LET tmp10 == x[0]*8192  tmp20 == (x[4] - x[6])*20862  tmp23 == (x[4] - x[2])*3529
      z4 == x[2] + x[6]  z4b == z4 - x[4]  tmp25 == tmp10 + z4b*11116
      tmp24 == tmp25 - z4*9467  tmp11 == x[1] + x[3]  tmp14 == (tmp11 + x[5] + x[7])*3264
      tmp11b == tmp11*7274  tmp12 == (x[1] + x[5])*5492  tmp13 == tmp14 + (x[1] + x[7])*3000
      z1 == tmp14 - (x[3] + x[5])*9527  z1b == -(x[3] + x[7])*14731
  IN Mirror(11, <<tmp20 + tmp25 + x[6]*17333, tmp20 + tmp23 + tmp25 - x[4]*14924,
                 tmp24 - x[6]*6461, tmp23 + tmp25 - x[2]*12399,
                 tmp24 + x[4]*15929 - x[2]*11395, tmp10 - z4b*11585>>,
                <<tmp11b + tmp12 + tmp13 - x[1]*7562, tmp11b + z1 + x[3]*16984 + z1b,
                  tmp12 + z1 - x[5]*9766, tmp13 + z1b + x[7]*17223,
                  tmp14 + x[5]*8203 - x[3]*12019 - x[7]*13802>>)

Idct12(x) ==
  LET z3 == x[0]*8192  z4 == x[4]*10033  tmp10 == z3 + z4  tmp11 == z3 - z4
      z4b == x[2]*11190  z1 == x[2]*8192  z2 == x[6]*8192  tmp12 == z1 - z2
      tmp12b == z4b + z2  tmp12c == z4b - z1 - z2  tmp11b == x[3]*10703  tmp14 == -x[3]*4433
      tmp10b == x[1] + x[5]  tmp15 == (tmp10b + x[7])*7053  tmp12d == tmp15 + tmp10b*2139
      tmp13 == -(x[5] + x[7])*8565  z1b == x[1] - x[7]  z2b == x[3] - x[5]
      z3b == (z1b + z2b)*4433
  IN Mirror(12, <<tmp10 + tmp12b, z3 + tmp12, tmp11 + tmp12c, tmp11 - tmp12c, z3 - tmp12,
                 tmp10 - tmp12b>>,
                <<tmp12d + tmp11b + x[1]*2295, z3b + z1b*6270,
                  tmp12d + tmp13 + tmp14 - x[5]*12112, tmp13 + tmp15 + x[7]*12998 - tmp11b,
                  z3b - z2b*15137, tmp15 + tmp14 - x[1]*5540 - x[7]*16244>>)

Idct13(x) ==
  LET z1 == x[0]*8192  tmp10 == x[4] + x[6]  tmp11 == x[4] - x[6]  tmp12 == tmp10*9465
      tmp13 == tmp11*793 + z1  tmp12b == tmp10*2592  tmp13b == tmp11*3989 + z1
      tmp12c == tmp10*3570  tmp13c == tmp11*7678 - z1  tmp11b == (x[1] + x[3])*10832
      tmp12d == (x[1] + x[5])*9534  tmp15 == x[1] + x[7]  tmp13d == tmp15*7682
      tmp14 == -(x[3] + x[5])*2773  tmp14b == -(x[3] + x[7])*9534
      tmp14c == -(x[5] + x[7])*5384  tmp15b == tmp15*2773  z1b == (x[5] - x[3])*7682
  IN Mirror(13, <<x[2]*11249 + tmp12 + tmp13, x[2]*8672 + tmp13b - tmp12b,
                 x[2]*4108 + tmp13 - tmp12, -x[2]*1396 - tmp12c - tmp13c,
                 tmp12c - x[2]*6581 - tmp13c, tmp12b + tmp13b - x[2]*10258,
                 (tmp11 - x[2])*11585 + z1>>,
                <<tmp11b + tmp12d + tmp13d - x[1]*16549,
                  tmp11b + tmp14 + x[3]*6859 + tmp14b, tmp12d + tmp14 + tmp14c - x[5]*12879,
                  tmp13d + tmp14b + x[7]*18068 + tmp14c,
                  tmp15b + x[1]*2611 + z1b - x[3]*3818,
                  tmp15b + z1b + x[5]*3150 - x[7]*14273>>)

Idct14(x) ==
  LET z1 == x[0]*8192  z2 == x[4]*10438  z3 == x[4]*2578  z4 == x[4]*7223  tmp10 == z1 + z2
      tmp11 == z1 + z3  tmp12 == z1 - z4  z3b == (x[2] + x[6])*9058
      tmp13 == z3b + x[2]*2237  tmp14 == z3b - x[6]*14084  tmp15 == x[2]*5027 - x[6]*11295
      z4b == x[7]*8192  tmp14b == x[1] + x[5]  tmp11b == (x[1] + x[3])*10935
      tmp12b == tmp14b*9810  tmp14c == tmp14b*6164  z1b == x[1] - x[3]
      tmp15b == z1b*3826 - z4b  tmp13b == -(x[3] + x[5])*1297 - z4b
      tmp13c == (x[5] - x[3])*11512
  IN Mirror(14, <<tmp10 + tmp13, tmp11 + tmp14, tmp12 + tmp15, z1 - (z2 + z3 - z4)*2,
                 tmp12 - tmp15, tmp11 - tmp14, tmp10 - tmp13>>,
                <<tmp11b + tmp12b + z4b - x[1]*9232, tmp11b + tmp13b - x[3]*3474,
                  tmp12b + tmp13b - x[5]*19447, (z1b - x[5])*8192 + z4b,
                  tmp14c + tmp13c + z4b - x[5]*13850, tmp15b + tmp13c + x[3]*5529,
                  tmp14c + tmp15b - x[1]*8693>>)

Idct15(x) ==
  LET z1 == x[0]*8192  tmp10 == x[6]*3580  tmp11 == x[6]*9373  tmp12 == z1 - tmp10
      tmp13 == z1 + tmp11  z1b == z1 - (tmp11 - tmp10)*2  z4 == x[2] - x[4]
      z3 == x[4] + x[2]  tmp10b == z3*10958  tmp11b == z4*374  z2 == x[2]*11795
      tmp10c == z3*4482  tmp11c == z4*3271  tmp10d == z3*6476  tmp11d == z4*2896
      tmp11e == tmp11d + tmp11d  z3b == x[5]*10033  tmp13b == x[3] - x[7]
      tmp15 == (x[1] + tmp13b)*6810  tmp13c == -x[3]*6810  tmp15b == -x[3]*11018
      z2b == x[1] - x[7]  tmp12b == z3b + z2b*11522  z2c == (x[1] + x[7])*4712
  IN Mirror(15, <<tmp13 + tmp10b + tmp11b, tmp12 + tmp10d + tmp11d, z1b + tmp11e,
                 tmp12 + tmp11b + z2 - tmp10b, tmp13 + tmp11d - tmp10d,
                 tmp13 - tmp10c - tmp11c, tmp12 + tmp10c - tmp11c - z2,
                 z1b - tmp11e - tmp11e>>,
                <<tmp12b + x[7]*20131 - tmp15b, tmp15 + x[1]*4209, z2b*10033 - z3b,
                  tmp13c + z2c + x[1]*3897 - z3b, tmp15 - tmp13b*17828,
                  tmp15b + z2c + z3b - x[7]*7121, tmp12b + tmp13c - x[1]*9113>>)

Idct16(x) ==
  LET tmp0 == x[0]*8192  tmp1 == x[4]*10703  tmp2 == x[4]*4433  tmp10 == tmp0 + tmp1
      tmp11 == tmp0 - tmp1  tmp12 == tmp0 + tmp2  tmp13 == tmp0 - tmp2  z3 == x[2] - x[6]
      z4 == z3*2260  z3b == z3*11363  tmp0b == z3b + x[6]*20995  tmp1b == z4 + x[2]*7373
      tmp2b == z3b - x[2]*4926  tmp3 == z4 - x[6]*4176  tmp11b == x[1] + x[5]
      tmp1c == (x[1] + x[3])*11086  tmp2c == tmp11b*10217  tmp3b == (x[1] + x[7])*8956
      tmp10b == (x[1] - x[7])*7350  tmp11c == tmp11b*5461  tmp12b == (x[1] - x[3])*3363
      z1 == (x[3] + x[5])*1136  z1b == (x[5] - x[3])*11529  z2 == x[3] + x[7]
      z1c == -z2*5461  z2b == -z2*10217  z2c == -(x[5] + x[7])*11086
      z2d == (x[7] - x[5])*3363
  IN Mirror(16, <<tmp10 + tmp0b, tmp12 + tmp1b, tmp13 + tmp2b, tmp11 + tmp3, tmp11 - tmp3,
                 tmp13 - tmp2b, tmp12 - tmp1b, tmp10 - tmp0b>>,
                <<tmp1c + tmp2c + tmp3b - x[1]*18730, tmp1c + z1 + x[3]*589 + z1c,
                  tmp2c + z1 + z2c - x[5]*9222, tmp3b + z1c + x[7]*8728 + z2c,
                  tmp10b + z2b + x[7]*25733 + z2d, tmp11c + z1b + z2d - x[5]*6278,
                  tmp12b + z1b + x[3]*16154 + z2b, tmp10b + tmp11c + tmp12b - x[1]*15038>>)

\* The column pass of the kernels with four rows rounds the even and the odd
\* part apart, so that its even part is exact.
Idct4Columns(x) ==
  LET z1 == (x[1] + x[3])*4433
  IN Mirror(4, <<(x[0] + x[2])*4, (x[0] - x[2])*4>>,
               <<Descale(z1 + x[1]*6270, CONST_BITS - PASS1_BITS),
                 Descale(z1 - x[3]*15137, CONST_BITS - PASS1_BITS)>>)

\* w x h samples of the coefficient block b: the columns the row transform
\* reads go through Column and are shifted by s1, then each of the h rows
\* goes through Row, is shifted by s2 and range limited.
Inverse(Column(_), Row(_), s1, s2, w, h, b) ==
  LET used == 0..((IF w < 8 THEN w ELSE 8) - 1)
      col == Table([u \in used |-> Table(Column([v \in 0..7 |-> b[v][u]]))])
      Samples(y) == LET row == Table(Row(Table([u \in used |-> Descale(col[u][y], s1)])))
                    IN Table([x \in 0..(w - 1) |-> range_limit(Descale(row[x], s2))])
  IN Table([y \in 0..(h - 1) |-> Samples(y)])

\* The shifts of the two passes: 2^13 of the constants and, in the workspace,
\* PASS1_BITS of extra precision; 3 for the factor 8 of the coefficients.
P1 == CONST_BITS - PASS1_BITS
P2 == CONST_BITS + PASS1_BITS + 3

jpeg_idct_1x1(b) == Inverse(Idct1, Idct1, 0, 3, 1, 1, b)
jpeg_idct_2x2(b) == Inverse(Idct2, Idct2, 0, 3, 2, 2, b)
jpeg_idct_3x3(b) == Inverse(Idct3, Idct3, P1, P2, 3, 3, b)
jpeg_idct_4x4(b) == Inverse(Idct4Columns, Idct4, 0, P2, 4, 4, b)
jpeg_idct_5x5(b) == Inverse(Idct5, Idct5, P1, P2, 5, 5, b)
jpeg_idct_6x6(b) == Inverse(Idct6, Idct6, P1, P2, 6, 6, b)
jpeg_idct_7x7(b) == Inverse(Idct7, Idct7, P1, P2, 7, 7, b)
jpeg_idct_islow(b) == Inverse(Idct8, Idct8, P1, P2, 8, 8, b)
jpeg_idct_9x9(b) == Inverse(Idct9, Idct9, P1, P2, 9, 9, b)
jpeg_idct_10x10(b) == Inverse(Idct10, Idct10, P1, P2, 10, 10, b)
jpeg_idct_11x11(b) == Inverse(Idct11, Idct11, P1, P2, 11, 11, b)
jpeg_idct_12x12(b) == Inverse(Idct12, Idct12, P1, P2, 12, 12, b)
jpeg_idct_13x13(b) == Inverse(Idct13, Idct13, P1, P2, 13, 13, b)
jpeg_idct_14x14(b) == Inverse(Idct14, Idct14, P1, P2, 14, 14, b)
jpeg_idct_15x15(b) == Inverse(Idct15, Idct15, P1, P2, 15, 15, b)
jpeg_idct_16x16(b) == Inverse(Idct16, Idct16, P1, P2, 16, 16, b)
jpeg_idct_16x8(b) == Inverse(Idct8, Idct16, P1, P2, 16, 8, b)
jpeg_idct_14x7(b) == Inverse(Idct7, Idct14, P1, P2, 14, 7, b)
jpeg_idct_12x6(b) == Inverse(Idct6, Idct12, P1, P2, 12, 6, b)
jpeg_idct_10x5(b) == Inverse(Idct5, Idct10, P1, P2, 10, 5, b)
jpeg_idct_8x4(b) == Inverse(Idct4Columns, Idct8, 0, P2, 8, 4, b)
jpeg_idct_6x3(b) == Inverse(Idct3, Idct6, P1, P2, 6, 3, b)
jpeg_idct_4x2(b) == Inverse(Idct2, Idct4, 0, CONST_BITS + 3, 4, 2, b)
jpeg_idct_2x1(b) == Inverse(Idct1, Idct2, 0, 3, 2, 1, b)
jpeg_idct_8x16(b) == Inverse(Idct16, Idct8, P1, P2, 8, 16, b)
jpeg_idct_7x14(b) == Inverse(Idct14, Idct7, P1, P2, 7, 14, b)
jpeg_idct_6x12(b) == Inverse(Idct12, Idct6, P1, P2, 6, 12, b)
jpeg_idct_5x10(b) == Inverse(Idct10, Idct5, P1, P2, 5, 10, b)
jpeg_idct_4x8(b) == Inverse(Idct8, Idct4, P1, P2, 4, 8, b)
jpeg_idct_3x6(b) == Inverse(Idct6, Idct3, P1, P2, 3, 6, b)
jpeg_idct_2x4(b) == Inverse(Idct4, Idct2, 0, CONST_BITS + 3, 2, 4, b)
jpeg_idct_1x2(b) == Inverse(Idct2, Idct1, 0, 3, 1, 2, b)

\* The kernel start_pass selects for a component whose blocks are w x h samples.
IdctSizes == {<<n, n>> : n \in 1..16} \cup {<<2*n, n>> : n \in 1..8}
               \cup {<<n, 2*n>> : n \in 1..8}
islow_kernel(w, h, b) ==
  CASE <<w, h>> = <<1, 1>> -> jpeg_idct_1x1(b)
    [] <<w, h>> = <<2, 2>> -> jpeg_idct_2x2(b)
    [] <<w, h>> = <<3, 3>> -> jpeg_idct_3x3(b)
    [] <<w, h>> = <<4, 4>> -> jpeg_idct_4x4(b)
    [] <<w, h>> = <<5, 5>> -> jpeg_idct_5x5(b)
    [] <<w, h>> = <<6, 6>> -> jpeg_idct_6x6(b)
    [] <<w, h>> = <<7, 7>> -> jpeg_idct_7x7(b)
    [] <<w, h>> = <<8, 8>> -> jpeg_idct_islow(b)
    [] <<w, h>> = <<9, 9>> -> jpeg_idct_9x9(b)
    [] <<w, h>> = <<10, 10>> -> jpeg_idct_10x10(b)
    [] <<w, h>> = <<11, 11>> -> jpeg_idct_11x11(b)
    [] <<w, h>> = <<12, 12>> -> jpeg_idct_12x12(b)
    [] <<w, h>> = <<13, 13>> -> jpeg_idct_13x13(b)
    [] <<w, h>> = <<14, 14>> -> jpeg_idct_14x14(b)
    [] <<w, h>> = <<15, 15>> -> jpeg_idct_15x15(b)
    [] <<w, h>> = <<16, 16>> -> jpeg_idct_16x16(b)
    [] <<w, h>> = <<16, 8>> -> jpeg_idct_16x8(b)
    [] <<w, h>> = <<14, 7>> -> jpeg_idct_14x7(b)
    [] <<w, h>> = <<12, 6>> -> jpeg_idct_12x6(b)
    [] <<w, h>> = <<10, 5>> -> jpeg_idct_10x5(b)
    [] <<w, h>> = <<8, 4>> -> jpeg_idct_8x4(b)
    [] <<w, h>> = <<6, 3>> -> jpeg_idct_6x3(b)
    [] <<w, h>> = <<4, 2>> -> jpeg_idct_4x2(b)
    [] <<w, h>> = <<2, 1>> -> jpeg_idct_2x1(b)
    [] <<w, h>> = <<8, 16>> -> jpeg_idct_8x16(b)
    [] <<w, h>> = <<7, 14>> -> jpeg_idct_7x14(b)
    [] <<w, h>> = <<6, 12>> -> jpeg_idct_6x12(b)
    [] <<w, h>> = <<5, 10>> -> jpeg_idct_5x10(b)
    [] <<w, h>> = <<4, 8>> -> jpeg_idct_4x8(b)
    [] <<w, h>> = <<3, 6>> -> jpeg_idct_3x6(b)
    [] <<w, h>> = <<2, 4>> -> jpeg_idct_2x4(b)
    [] <<w, h>> = <<1, 2>> -> jpeg_idct_1x2(b)

\* jpeg_idct_ifast (jidctfst.c): the AA&N transform.  Its inputs have been
\* scaled by the multiplier table (jddctmgr.c), its products have 8 bits of
\* fraction and are truncated, and so is the result.
Multiply(x, c) == (x*c) \div 256

IdctFast(x) ==
  LET tmp10 == x[0] + x[4]  tmp11 == x[0] - x[4]  tmp13 == x[2] + x[6]
      tmp12 == Multiply(x[2] - x[6], 362) - tmp13
      z13 == x[5] + x[3]  z10 == x[5] - x[3]  z11 == x[1] + x[7]  z12 == x[1] - x[7]
      tmp7 == z11 + z13  z5 == Multiply(z10 + z12, 473)
      tmp6 == Multiply(z10, -669) + z5 - tmp7
      tmp5 == Multiply(z11 - z13, 362) - tmp6
      tmp4 == Multiply(z12, 277) - z5 + tmp5
  IN Mirror(8, <<tmp10 + tmp13, tmp11 + tmp12, tmp11 - tmp12, tmp10 - tmp13>>,
               <<tmp7, tmp6, tmp5, -tmp4>>)

jpeg_idct_ifast(b) ==
  LET col == Table([u \in 0..7 |-> Table(IdctFast([v \in 0..7 |-> b[v][u]]))])
      Samples(y) == LET row == Table(IdctFast([u \in 0..7 |-> col[u][y]]))
                    IN Table([x \in 0..7 |-> range_limit(row[x] \div 2^(PASS1_BITS + 3))])
  IN Table([y \in 0..7 |-> Samples(y)])
============================================================================
