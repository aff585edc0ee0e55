---------------------------- MODULE FdctKernels ----------------------------
(***************************************************************************)
(* The forward DCTs of jpeg8d/jfdctint.c (the default JDCT_ISLOW method):   *)
(* every block size from 1x1 to 16x16, in the fixed point of the code.      *)
(*                                                                          *)
(* FdctN is the butterfly of an N-point transform before rounding.  Every   *)
(* one of them starts by adding and subtracting the inputs that mirror each *)
(* other, so it takes the sums s and the differences d (Sums, Differences). *)
(* Pass 1 takes a row of samples to the workspace, pass 2 a column of the   *)
(* workspace to coefficients; pass 2 of a kernel that is not 4, 8 or 16     *)
(* points long uses the same butterfly with constants that hold the scale   *)
(* (8/w)(8/h) as well: c is UnitN in pass 1 and ScaledN in pass 2, both     *)
(* the source's FIX() values, 2^13 times a real, rounded.  A coefficient    *)
(* beyond the eighth of a row or column is not computed, and one beyond the *)
(* block's size is zero.  Intermediate names are the source's; a letter is  *)
(* added where the source assigns a name again.                             *)
(***************************************************************************)
EXTENDS DctScaling

Sums(N, x) == [i \in 0..((N - 1) \div 2) |-> IF 2*i = N - 1 THEN x[i] ELSE x[i] + x[N - 1 - i]]
Differences(N, x) == [i \in 0..(N \div 2 - 1) |-> x[i] - x[N - 1 - i]]

\* A row or column of eight coefficients, the ones that were not computed zero.
Coefs(t) == [k \in 0..7 |-> IF k < Len(t) THEN t[k + 1] ELSE 0]

Fdct1(s, d) == Coefs(<<s[0]*8192>>)

Fdct2(s, d) == Coefs(<<s[0]*8192, d[0]*8192>>)

Unit3 == <<8192, 5793, 10033>>
Scaled3 == <<14564, 10298, 17837>>
Fdct3(c, s, d) ==
  Coefs(<<(s[0] + s[1])*c[1], d[0]*c[3], (s[0] - s[1] - s[1])*c[2]>>)

Fdct4(s, d) ==
  LET tmp0 == (d[0] + d[1])*4433
  IN Coefs(<<(s[0] + s[1])*8192, tmp0 + d[0]*6270, (s[0] - s[1])*8192, tmp0 - d[1]*15137>>)

Unit5 == <<8192, 6476, 2896, 6810, 4209, 17828>>
Scaled5 == <<10486, 8290, 3707, 8716, 5387, 22820>>
Fdct5(c, s, d) ==
  LET tmp10 == s[0] + s[1]  tmp11 == (s[0] - s[1])*c[2]  tmp10b == (tmp10 - s[2]*4)*c[3]
      tmp10c == (d[0] + d[1])*c[4]
  IN Coefs(<<(tmp10 + s[2])*c[1], tmp10c + d[0]*c[5], tmp11 + tmp10b, tmp10c - d[1]*c[6],
             tmp11 - tmp10b>>)

Unit6 == <<8192, 10033, 5793, 2998>>
Scaled6 == <<14564, 17837, 10298, 5331>>
Fdct6(c, s, d) ==
  LET tmp10 == s[0] + s[2]  tmp10b == (d[0] + d[2])*c[4]
  IN Coefs(<<(tmp10 + s[1])*c[1], tmp10b + (d[0] + d[1])*c[1], (s[0] - s[2])*c[2],
             (d[0] - d[1] - d[2])*c[1], (tmp10 - s[1] - s[1])*c[3],
             tmp10b + (d[2] - d[1])*c[1]>>)

Unit7 == <<8192, 2896, 7542, 2578, 7223, 5793, 7663, 1395, 11295, 5027, 15326>>
Scaled7 == <<10700, 3783, 9850, 3367, 9434, 7566, 10009, 1822, 14752, 6565, 20017>>
Fdct7(c, s, d) ==
  LET z1 == s[0] + s[2]  tmp3 == s[3] + s[3]  z1b == (z1 - tmp3 - tmp3)*c[2]
      z2 == (s[0] - s[2])*c[3]  z3 == (s[1] - s[2])*c[4]  z2b == (s[0] - s[1])*c[5]
      tmp1 == (d[0] + d[1])*c[7]  tmp2 == (d[0] - d[1])*c[8]  tmp2b == -(d[1] + d[2])*c[9]
      tmp3b == (d[0] + d[2])*c[10]
  IN Coefs(<<(z1 + s[1] + s[3])*c[1], tmp1 + tmp3b - tmp2, z1b + z2 + z3,
             tmp1 + tmp2 + tmp2b, z2b + z3 - (s[1] - tmp3)*c[6], tmp2b + tmp3b + d[2]*c[11],
             z1b + z2b - z2>>)

Fdct8(s, d) ==
  LET tmp10 == s[0] + s[3]  tmp12 == s[0] - s[3]  tmp11 == s[1] + s[2]  tmp13 == s[1] - s[2]
      z1 == (tmp12 + tmp13)*4433  tmp12b == d[0] + d[2]  tmp13b == d[1] + d[3]
      z1b == (tmp12b + tmp13b)*9633  tmp10b == -(d[0] + d[3])*7373
      tmp11b == -(d[1] + d[2])*20995  tmp12c == z1b - tmp12b*3196
      tmp13c == z1b - tmp13b*16069
  IN Coefs(<<(tmp10 + tmp11)*8192, d[0]*12299 + tmp10b + tmp12c, z1 + tmp12*6270,
             d[1]*25172 + tmp11b + tmp13c, (tmp10 - tmp11)*8192,
             d[2]*16819 + tmp11b + tmp12c, z1 - tmp13*15137, d[3]*2446 + tmp10b + tmp13c>>)

Unit9 == <<8192, 5793, 10887, 8875, 2012, 10033, 7447, 3962, 11409>>
Scaled9 == <<12945, 9154, 17203, 14024, 3179, 15855, 11768, 6262, 18029>>
Fdct9(c, s, d) ==
  LET z1 == s[0] + s[2] + s[3]  z2 == s[1] + s[4]  z1b == (s[0] - s[2])*c[3]
      z2b == (s[1] - s[4] - s[4])*c[2]  tmp11 == d[1]*c[6]  tmp0 == (d[0] + d[2])*c[7]
      tmp1 == (d[0] + d[3])*c[8]  tmp2 == (d[2] - d[3])*c[9]
  IN Coefs(<<(z1 + z2)*c[1], tmp11 + tmp0 + tmp1, (s[2] - s[3])*c[4] + z1b + z2b,
             (d[0] - d[2] - d[3])*c[6], (s[3] - s[0])*c[5] + z1b - z2b, tmp0 - tmp11 - tmp2,
             (z1 - z2 - z2)*c[2], tmp1 + tmp2 - tmp11>>)

Unit10 == <<8192, 9373, 3580, 6810, 4209, 17828, 11443, 10323, 5260, 1812,
              7791, 4815, 2531, 4096>>
Scaled10 == <<10486, 11997, 4582, 8716, 5387, 22820, 14647, 13213, 6732, 2320,
              9973, 6163, 3240, 5243>>
Fdct10(c, s, d) ==
  LET tmp10 == s[0] + s[4]  tmp13 == s[0] - s[4]  tmp11 == s[1] + s[3]  tmp14 == s[1] - s[3]
      tmp12 == s[2] + s[2]  tmp10b == (tmp13 + tmp14)*c[4]  tmp10c == d[0] + d[4]
      tmp11b == d[1] - d[3]  tmp2 == d[2]*c[1]
      tmp12b == (d[0] - d[4])*c[11] - (d[1] + d[3])*c[12]
      tmp13b == (tmp10c + tmp11b)*c[13] + tmp11b*c[14] - tmp2
  IN Coefs(<<(tmp10 + tmp11 + s[2])*c[1],
             d[0]*c[7] + d[1]*c[8] + tmp2 + d[3]*c[9] + d[4]*c[10], tmp10b + tmp13*c[5],
             tmp12b + tmp13b, (tmp10 - tmp12)*c[2] - (tmp11 - tmp12)*c[3],
             (tmp10c - tmp11b - d[2])*c[1], tmp10b - tmp14*c[6], tmp12b - tmp13b>>)

Unit11 == <<8192, 11116, 1649, 7587, 9746, 8342, 11395, 511, 4813, 13275,
              6461, 10538, 8756, 6263, 14090, 3264, 11467, 10456, 16294, 10695>>
Scaled11 == <<8666, 11759, 1744, 8026, 10310, 8825, 12054, 540, 5091, 14043,
              6835, 11148, 9262, 6626, 14905, 3453, 12131, 11061, 17237, 11314>>
Fdct11(c, s, d) ==
  LET tmp5 == s[5] + s[5]  tmp0 == s[0] - tmp5  tmp1 == s[1] - tmp5  tmp2 == s[2] - tmp5
      tmp3 == s[3] - tmp5  tmp4 == s[4] - tmp5
      z1 == (tmp0 + tmp3)*c[2] + (tmp2 + tmp4)*c[3]  z2 == (tmp1 - tmp3)*c[4]
      z3 == (tmp0 - tmp1)*c[5]  tmp1b == (d[0] + d[1])*c[12]  tmp2b == (d[0] + d[2])*c[13]
      tmp3b == (d[0] + d[3])*c[14]  tmp4b == -(d[1] + d[2])*c[14]
      tmp5b == -(d[1] + d[3])*c[17]  tmp10 == (d[2] + d[3])*c[16]
  IN Coefs(<<(s[0] + s[1] + s[2] + s[3] + s[4] + s[5])*c[1],
             tmp1b + tmp2b + tmp3b + d[4]*c[16] - d[0]*c[15],
             z1 + z2 - tmp3*c[6] - tmp4*c[7],
             tmp1b + tmp4b + tmp5b + d[1]*c[18] - d[4]*c[13],
             z2 + z3 + tmp1*c[8] + tmp4*c[9] - tmp2*c[2],
             tmp2b + tmp4b + tmp10 + d[4]*c[17] - d[2]*c[19],
             z1 + z3 - tmp0*c[10] - tmp2*c[11],
             tmp3b + tmp5b + tmp10 + d[3]*c[20] - d[4]*c[12]>>)

Unit12 == <<8192, 10033, 1, 11190, 4433, 6270, 15137, 9191, 7053, 4758, 1512,
              19165, 5946, 10703>>
Scaled12 == <<7282, 8918, 7282, 9947, 3941, 5573, 13455, 8170, 6269, 4229,
              1344, 17036, 5285, 9514>>
Fdct12(c, s, d) ==
  LET tmp10 == s[0] + s[5]  tmp13 == s[0] - s[5]  tmp14 == s[1] - s[4]  tmp12 == s[2] + s[3]
      tmp15 == s[2] - s[3]  tmp10b == (d[1] + d[4])*c[5]  tmp14b == tmp10b + d[1]*c[6]
      tmp15b == tmp10b - d[4]*c[7]  tmp12b == (d[0] + d[2])*c[8]
      tmp13b == (d[0] + d[3])*c[9]  tmp11 == -(d[2] + d[3])*c[11]
  IN Coefs(<<(tmp10 + s[1] + s[4] + tmp12)*c[1],
             tmp12b + tmp13b + tmp14b + d[5]*c[11] - d[0]*c[10],
             (tmp14 - tmp15)*c[3] + (tmp13 + tmp15)*c[4],
             tmp15b + (d[0] - d[3])*c[14] - (d[2] + d[5])*c[5], (tmp10 - tmp12)*c[2],
             tmp12b + tmp11 + d[5]*c[9] - tmp15b - d[2]*c[12], (tmp13 - tmp14 - tmp15)*c[1],
             tmp13b + tmp11 + d[3]*c[13] - tmp14b - d[5]*c[8]>>)

Unit13 == <<8192, 11249, 8672, 4108, 1396, 6581, 10258, 9465, 3570, 2592, 793,
              7678, 3989, 10832, 9534, 7682, 2773, 16549, 2611, 6859, 19183, 5384, 12879,
              18515, 18068, 14273>>
Scaled13 == <<6205, 8520, 6568, 3112, 1058, 4985, 7770, 7169, 2704, 1963, 601,
              5816, 3021, 8204, 7221, 5819, 2100, 12534, 1978, 5195, 14529, 4078, 9754,
              14023, 13685, 10811>>
Fdct13(c, s, d) ==
  LET tmp6 == s[6] + s[6]  tmp0 == s[0] - tmp6  tmp1 == s[1] - tmp6  tmp2 == s[2] - tmp6
      tmp3 == s[3] - tmp6  tmp4 == s[4] - tmp6  tmp5 == s[5] - tmp6
      z1 == (tmp0 - tmp2)*c[8] - (tmp3 - tmp4)*c[9] - (tmp1 - tmp5)*c[10]
      z2 == (tmp0 + tmp2)*c[11] + (tmp1 + tmp5)*c[13] - (tmp3 + tmp4)*c[12]
      tmp1b == (d[0] + d[1])*c[14]  tmp2b == (d[0] + d[2])*c[15]
      tmp3b == (d[0] + d[3])*c[16] + (d[4] + d[5])*c[17]
      tmp4b == (d[4] - d[5])*c[16] - (d[1] + d[2])*c[17]  tmp5b == -(d[1] + d[3])*c[15]
      tmp6b == -(d[2] + d[3])*c[22]
  IN Coefs(<<(s[0] + s[1] + s[2] + s[3] + s[4] + s[5] + s[6])*c[1],
             tmp1b + tmp2b + tmp3b + d[4]*c[19] - d[0]*c[18],
             tmp0*c[2] + tmp1*c[3] + tmp2*c[4] - tmp3*c[5] - tmp4*c[6] - tmp5*c[7],
             tmp1b + tmp4b + tmp5b + d[1]*c[20] - d[4]*c[21], z1 + z2,
             tmp2b + tmp4b + tmp6b + d[5]*c[24] - d[2]*c[23], z1 - z2,
             tmp3b + tmp5b + tmp6b + d[3]*c[25] - d[5]*c[26]>>)

Unit14 == <<8192, 10438, 2578, 7223, 9058, 2237, 5027, 14084, 11295, 1297,
              11512, 9810, 6164, 19447, 9175, 10935, 3826, 3474, 25148, 9232, 9231>>
Scaled14 == <<5350, 6817, 1684, 4717, 5915, 1461, 3283, 9198, 7376, 847, 7518,
              6406, 4025, 12700, 5992, 7141, 2499, 2269, 16423, 6029, 679>>
Fdct14(c, s, d) ==
  LET tmp10 == s[0] + s[6]  tmp14 == s[0] - s[6]  tmp11 == s[1] + s[5]  tmp15 == s[1] - s[5]
      tmp12 == s[2] + s[4]  tmp16 == s[2] - s[4]  tmp13 == s[3] + s[3]
      tmp10b == (tmp14 + tmp15)*c[5]  tmp10c == d[1] + d[2]  tmp11b == d[5] - d[4]
      tmp3 == d[3]*c[1]  tmp10d == tmp11b*c[11] - tmp10c*c[10] - tmp3
      tmp11c == (d[0] + d[2])*c[12] + (d[4] + d[6])*c[13]
      tmp12b == (d[0] + d[1])*c[16] + (d[5] - d[6])*c[17]
  IN Coefs(<<(tmp10 + tmp11 + tmp12 + s[3])*c[1],
             tmp11c + tmp12b + tmp3 - d[0]*c[20] - d[6]*c[21],
             tmp10b + tmp14*c[6] + tmp16*c[7], tmp10d + tmp12b - d[1]*c[18] - d[5]*c[19],
             (tmp10 - tmp13)*c[2] + (tmp11 - tmp13)*c[3] - (tmp12 - tmp13)*c[4],
             tmp10d + tmp11c + d[4]*c[15] - d[2]*c[14], tmp10b - tmp15*c[8] - tmp16*c[9],
             (d[0] + d[3] - tmp10c - tmp11b - d[6])*c[1]>>)

Unit15 == <<8192, 9373, 3580, 12543, 18336, 6541, 748, 11332, 7752, 6476,
              10033, 11018, 6810, 11522, 4712, 3897, 4209, 13930, 2912, 17828, 7121>>
Scaled15 == <<9321, 10664, 4073, 14271, 20862, 7442, 852, 12893, 8820, 7369,
              11415, 12536, 7748, 13109, 5361, 4434, 4788, 15850, 3314, 20284, 8102>>
Fdct15(c, s, d) ==
  LET z1 == s[0] + s[4] + s[5]  z2 == s[1] + s[3] + s[6]  z3 == s[2] + s[7]  z3b == z3 + z3
      tmp2 == s[2] + (s[1] + s[4]) \div 2 - s[7] - s[7]
      z3c == (s[0] - s[3])*c[8] + (s[6] - s[5])*c[9] + (s[1] - s[4])*c[10]
      tmp12 == d[2]*c[11]
      tmp4 == (d[0] - d[6])*c[14] + (d[1] + d[4])*c[12] + (d[3] + d[5])*c[15]
  IN Coefs(<<(z1 + z2 + z3)*c[1], d[3]*c[16] + d[6]*c[18] + tmp4 + tmp12 - d[4]*c[17],
             (s[3] - tmp2)*c[4] + z3c - (s[6] - tmp2)*c[5],
             (d[0] - d[4] - d[5])*c[12] + (d[1] - d[3] - d[6])*c[13],
             (s[5] - tmp2)*c[6] + z3c - (s[0] - tmp2)*c[7],
             (d[0] + d[5] + d[6] - d[2] - d[3])*c[11], (z1 - z3b)*c[2] - (z2 - z3b)*c[3],
             tmp4 - d[0]*c[19] - d[1]*c[20] - d[5]*c[21] - tmp12>>)

Fdct16(s, d) ==
  LET tmp10 == s[0] + s[7]  tmp14 == s[0] - s[7]  tmp11 == s[1] + s[6]  tmp15 == s[1] - s[6]
      tmp12 == s[2] + s[5]  tmp16 == s[2] - s[5]  tmp13 == s[3] + s[4]  tmp17 == s[3] - s[4]
      tmp10b == (tmp17 - tmp15)*2260 + (tmp14 - tmp16)*11363
      tmp11b == (d[0] + d[1])*11086 + (d[6] - d[7])*3363
      tmp12b == (d[0] + d[2])*10217 + (d[5] + d[7])*5461
      tmp13b == (d[0] + d[3])*8956 + (d[4] - d[7])*7350
      tmp14b == (d[1] + d[2])*1136 + (d[6] - d[5])*11529
      tmp15b == -(d[1] + d[3])*5461 - (d[4] + d[6])*10217
      tmp16b == (d[5] - d[4])*3363 - (d[2] + d[3])*11086
  IN Coefs(<<(tmp10 + tmp11 + tmp12 + tmp13)*8192,
             tmp11b + tmp12b + tmp13b + d[7]*6387 - d[0]*18730,
             tmp10b + tmp15*11893 + tmp16*17799,
             tmp11b + tmp14b + tmp15b + d[1]*589 - d[6]*13631,
             (tmp10 - tmp13)*10703 + (tmp11 - tmp12)*4433,
             tmp12b + tmp14b + tmp16b + d[5]*10055 - d[2]*9222,
             tmp10b - tmp14*1730 - tmp17*8697,
             tmp13b + tmp15b + tmp16b + d[3]*8728 + d[4]*17760>>)

\* The coefficients of the w x h samples b.  Pass 1 level-shifts the samples:
\* only its DC output changes.
Forward(Row(_, _), Column(_, _), s1, s2, w, h, b) ==
  LET dc == w*CENTERJSAMPLE*8192
      Pass1(s, d) == LET r == Row(s, d)
                     IN [u \in 0..7 |-> Descale(IF u = 0 THEN r[0] - dc ELSE r[u], s1)]
      Pass2(s, d) == LET c == Column(s, d) IN [v \in 0..7 |-> Descale(c[v], s2)]
      ws == Table([y \in 0..(h - 1) |->
                      Pass1(Table(Sums(w, b[y])), Table(Differences(w, b[y])))])
      x == [u \in 0..7 |-> [y \in 0..(h - 1) |-> ws[y][u]]]
      col == Table([u \in 0..7 |->
                       Pass2(Table(Sums(h, x[u])), Table(Differences(h, x[u])))])
  IN [v \in 0..7 |-> [u \in 0..7 |-> col[u][v]]]

\* The shifts of the two passes of the 8x8 kernel; the others move a power of
\* two of their scale into these.
P1 == CONST_BITS - PASS1_BITS
P2 == CONST_BITS + PASS1_BITS

jpeg_fdct_1x1(b) == Forward(Fdct1, Fdct1, P1 + 2, P2 - 8, 1, 1, b)
jpeg_fdct_2x2(b) == Forward(Fdct2, Fdct2, P1 + 2, P2 - 6, 2, 2, b)
jpeg_fdct_3x3(b) ==
  Forward(LAMBDA s, d : Fdct3(Unit3, s, d), LAMBDA s, d : Fdct3(Scaled3, s, d),
          P1 - 2, P2, 3, 3, b)
jpeg_fdct_4x4(b) == Forward(Fdct4, Fdct4, P1 - 2, P2, 4, 4, b)
jpeg_fdct_5x5(b) ==
  Forward(LAMBDA s, d : Fdct5(Unit5, s, d), LAMBDA s, d : Fdct5(Scaled5, s, d),
          P1 - 1, P2, 5, 5, b)
jpeg_fdct_6x6(b) ==
  Forward(LAMBDA s, d : Fdct6(Unit6, s, d), LAMBDA s, d : Fdct6(Scaled6, s, d),
          P1, P2, 6, 6, b)
jpeg_fdct_7x7(b) ==
  Forward(LAMBDA s, d : Fdct7(Unit7, s, d), LAMBDA s, d : Fdct7(Scaled7, s, d),
          P1, P2, 7, 7, b)
jpeg_fdct_islow(b) == Forward(Fdct8, Fdct8, P1, P2, 8, 8, b)
jpeg_fdct_9x9(b) ==
  Forward(LAMBDA s, d : Fdct9(Unit9, s, d), LAMBDA s, d : Fdct9(Scaled9, s, d),
          P1 + 1, P2, 9, 9, b)
jpeg_fdct_10x10(b) ==
  Forward(LAMBDA s, d : Fdct10(Unit10, s, d), LAMBDA s, d : Fdct10(Scaled10, s, d),
          P1 + 1, P2, 10, 10, b)
jpeg_fdct_11x11(b) ==
  Forward(LAMBDA s, d : Fdct11(Unit11, s, d), LAMBDA s, d : Fdct11(Scaled11, s, d),
          P1 + 1, P2, 11, 11, b)
jpeg_fdct_12x12(b) ==
  Forward(LAMBDA s, d : Fdct12(Unit12, s, d), LAMBDA s, d : Fdct12(Scaled12, s, d),
          P1 + 2, P2 - 1, 12, 12, b)
jpeg_fdct_13x13(b) ==
  Forward(LAMBDA s, d : Fdct13(Unit13, s, d), LAMBDA s, d : Fdct13(Scaled13, s, d),
          P1 + 2, P2 - 1, 13, 13, b)
jpeg_fdct_14x14(b) ==
  Forward(LAMBDA s, d : Fdct14(Unit14, s, d), LAMBDA s, d : Fdct14(Scaled14, s, d),
          P1 + 2, P2 - 1, 14, 14, b)
jpeg_fdct_15x15(b) ==
  Forward(LAMBDA s, d : Fdct15(Unit15, s, d), LAMBDA s, d : Fdct15(Scaled15, s, d),
          P1 + 2, P2, 15, 15, b)
jpeg_fdct_16x16(b) == Forward(Fdct16, Fdct16, P1, P2 + 2, 16, 16, b)
jpeg_fdct_16x8(b) == Forward(Fdct16, Fdct8, P1, P2 + 1, 16, 8, b)
jpeg_fdct_14x7(b) ==
  Forward(LAMBDA s, d : Fdct14(Unit14, s, d), LAMBDA s, d : Fdct7(Scaled7, s, d),
          P1, P2 + 1, 14, 7, b)
jpeg_fdct_12x6(b) ==
  Forward(LAMBDA s, d : Fdct12(Unit12, s, d), LAMBDA s, d : Fdct6(Scaled6, s, d),
          P1, P2 + 1, 12, 6, b)
jpeg_fdct_10x5(b) ==
  Forward(LAMBDA s, d : Fdct10(Unit10, s, d), LAMBDA s, d : Fdct5(Scaled5, s, d),
          P1, P2, 10, 5, b)
jpeg_fdct_8x4(b) == Forward(Fdct8, Fdct4, P1 - 1, P2, 8, 4, b)
jpeg_fdct_6x3(b) ==
  Forward(LAMBDA s, d : Fdct6(Unit6, s, d), LAMBDA s, d : Fdct3(Scaled3, s, d),
          P1 - 1, P2, 6, 3, b)
jpeg_fdct_4x2(b) == Forward(Fdct4, Fdct2, P1 - 3, P2, 4, 2, b)
jpeg_fdct_2x1(b) == Forward(Fdct2, Fdct1, P1 + 2, P2 - 7, 2, 1, b)
jpeg_fdct_8x16(b) == Forward(Fdct8, Fdct16, P1, P2 + 1, 8, 16, b)
jpeg_fdct_7x14(b) ==
  Forward(LAMBDA s, d : Fdct7(Unit7, s, d), LAMBDA s, d : Fdct14(Scaled14, s, d),
          P1, P2, 7, 14, b)
jpeg_fdct_6x12(b) ==
  Forward(LAMBDA s, d : Fdct6(Unit6, s, d), LAMBDA s, d : Fdct12(Scaled12, s, d),
          P1, P2, 6, 12, b)
jpeg_fdct_5x10(b) ==
  Forward(LAMBDA s, d : Fdct5(Unit5, s, d), LAMBDA s, d : Fdct10(Scaled10, s, d),
          P1, P2, 5, 10, b)
jpeg_fdct_4x8(b) == Forward(Fdct4, Fdct8, P1 - 1, P2, 4, 8, b)
jpeg_fdct_3x6(b) ==
  Forward(LAMBDA s, d : Fdct3(Unit3, s, d), LAMBDA s, d : Fdct6(Scaled6, s, d),
          P1 - 1, P2, 3, 6, b)
jpeg_fdct_2x4(b) == Forward(Fdct2, Fdct4, P1 - 1, P2 - 2, 2, 4, b)
jpeg_fdct_1x2(b) == Forward(Fdct1, Fdct2, P1 + 2, P2 - 7, 1, 2, b)

\* The kernel start_pass_fdctmgr selects for a component with w x h blocks.
islow_kernel(w, h, b) ==
  CASE <<w, h>> = <<1, 1>> -> jpeg_fdct_1x1(b)
    [] <<w, h>> = <<2, 2>> -> jpeg_fdct_2x2(b)
    [] <<w, h>> = <<3, 3>> -> jpeg_fdct_3x3(b)
    [] <<w, h>> = <<4, 4>> -> jpeg_fdct_4x4(b)
    [] <<w, h>> = <<5, 5>> -> jpeg_fdct_5x5(b)
    [] <<w, h>> = <<6, 6>> -> jpeg_fdct_6x6(b)
    [] <<w, h>> = <<7, 7>> -> jpeg_fdct_7x7(b)
    [] <<w, h>> = <<8, 8>> -> jpeg_fdct_islow(b)
    [] <<w, h>> = <<9, 9>> -> jpeg_fdct_9x9(b)
    [] <<w, h>> = <<10, 10>> -> jpeg_fdct_10x10(b)
    [] <<w, h>> = <<11, 11>> -> jpeg_fdct_11x11(b)
    [] <<w, h>> = <<12, 12>> -> jpeg_fdct_12x12(b)
    [] <<w, h>> = <<13, 13>> -> jpeg_fdct_13x13(b)
    [] <<w, h>> = <<14, 14>> -> jpeg_fdct_14x14(b)
    [] <<w, h>> = <<15, 15>> -> jpeg_fdct_15x15(b)
    [] <<w, h>> = <<16, 16>> -> jpeg_fdct_16x16(b)
    [] <<w, h>> = <<16, 8>> -> jpeg_fdct_16x8(b)
    [] <<w, h>> = <<14, 7>> -> jpeg_fdct_14x7(b)
    [] <<w, h>> = <<12, 6>> -> jpeg_fdct_12x6(b)
    [] <<w, h>> = <<10, 5>> -> jpeg_fdct_10x5(b)
    [] <<w, h>> = <<8, 4>> -> jpeg_fdct_8x4(b)
    [] <<w, h>> = <<6, 3>> -> jpeg_fdct_6x3(b)
    [] <<w, h>> = <<4, 2>> -> jpeg_fdct_4x2(b)
    [] <<w, h>> = <<2, 1>> -> jpeg_fdct_2x1(b)
    [] <<w, h>> = <<8, 16>> -> jpeg_fdct_8x16(b)
    [] <<w, h>> = <<7, 14>> -> jpeg_fdct_7x14(b)
    [] <<w, h>> = <<6, 12>> -> jpeg_fdct_6x12(b)
    [] <<w, h>> = <<5, 10>> -> jpeg_fdct_5x10(b)
    [] <<w, h>> = <<4, 8>> -> jpeg_fdct_4x8(b)
    [] <<w, h>> = <<3, 6>> -> jpeg_fdct_3x6(b)
    [] <<w, h>> = <<2, 4>> -> jpeg_fdct_2x4(b)
    [] <<w, h>> = <<1, 2>> -> jpeg_fdct_1x2(b)

\* jpeg_fdct_ifast (jfdctfst.c): the AA&N transform, its products truncated.
\* The coefficients still hold the AA&N scale factors, which the divisors undo.
Multiply(x, c) == (x*c) \div 256

FdctFast(s, d) ==
  LET tmp10 == s[0] + s[3]  tmp13 == s[0] - s[3]  tmp11 == s[1] + s[2]  tmp12 == s[1] - s[2]
      z1 == Multiply(tmp12 + tmp13, 181)
      tmp10b == d[3] + d[2]  tmp11b == d[2] + d[1]  tmp12b == d[1] + d[0]
      z5 == Multiply(tmp10b - tmp12b, 98)
      z2 == Multiply(tmp10b, 139) + z5  z4 == Multiply(tmp12b, 334) + z5
      z3 == Multiply(tmp11b, 181)  z11 == d[0] + z3  z13 == d[0] - z3
  IN Coefs(<<tmp10 + tmp11, z11 + z4, tmp13 + z1, z13 - z2, tmp10 - tmp11, z13 + z2,
             tmp13 - z1, z11 - z4>>)

jpeg_fdct_ifast(b) ==
  LET ws == Table([y \in 0..7 |-> Table(FdctFast(Sums(8, b[y]), Differences(8, b[y])))])
      x == [u \in 0..7 |-> [y \in 0..7 |-> ws[y][u] - IF u = 0 THEN 8*CENTERJSAMPLE ELSE 0]]
      Column(u) == FdctFast(Table(Sums(8, x[u])), Table(Differences(8, x[u])))
      col == Table([u \in 0..7 |-> Table(Column(u))])
  IN [v \in 0..7 |-> [u \in 0..7 |-> col[u][v]]]
============================================================================
