-------------------------- MODULE MCArithmeticScans --------------------------
(* Instances of ArithmeticScans for TLC. *)
EXTENDS ArithmeticScans

\* A block from its coefficients 0, 1, ...; the MCUs of a scan.
Blocks(mcus) ==
  [n \in DOMAIN mcus |->
     [b \in DOMAIN mcus[n] |-> [k \in 0..(Len(mcus[n][b]) - 1) |-> mcus[n][b][k + 1]]]]

\* Tables 0 and 1, with the bounds L and U of the DC conditioning and K of AC.
Job(progressive, Ss, Se, Ah, Al, members, tbl_no, L, U, K, interval, mcus, damages) ==
  [progressive |-> progressive, Ss |-> Ss, Se |-> Se, Ah |-> Ah, Al |-> Al,
   members |-> members, dc_tbl_no |-> tbl_no, ac_tbl_no |-> tbl_no,
   dc_L |-> [t \in 0..1 |-> L], dc_U |-> [t \in 0..1 |-> U], ac_K |-> [t \in 0..1 |-> K],
   restart_interval |-> interval, MCUs |-> Blocks(mcus), damages |-> damages]

Sequential(Se, members, tbl_no, L, U, K, interval, mcus, damages) ==
  Job(FALSE, 0, Se, 0, 0, members, tbl_no, L, U, K, interval, mcus, damages)
FirstScan(Ss, Se, members, interval, mcus, damages) ==
  Job(TRUE, Ss, Se, 0, 1, members, <<0, 0>>, 0, 1, 5, interval, mcus, damages)
Refinement(Ss, Se, members, interval, mcus, damages) ==
  Job(TRUE, Ss, Se, 1, 0, members, <<0, 0>>, 0, 1, 5, interval, mcus, damages)

Bytes == {0, 1, 16, 63, 64, 127, 128, 170, 200, 240, 251, 254, 255}
Few == {0, 127, 254, 255}

\* Found by a search for scans in which a carry goes through stacked bytes 0xFF
\* or makes one, in which zeros are pending before one, and in which the last
\* bytes are 0xFF, two, one or none.
MCJobs == {
  FirstScan(0, 0, <<1, 2>>, 3, <<<<<<4>>, <<5>>>>, <<<<9>>, <<4>>>>, <<<<8>>, <<-2>>>>>>, Bytes),
  FirstScan(0, 0, <<1, 2>>, 1,
            <<<<<<-10>>, <<-3>>>>, <<<<6>>, <<-4>>>>, <<<<30000>>, <<-30000>>>>, <<<<-3>>, <<9>>>>>>, Few),
  FirstScan(1, 8, <<1>>, 1,
            <<<<<<7, 0, -1, 0, 0, 0, 0, 0, 0>>>>, <<<<-10, 0, -5, 1, 0, 0, 0, 0, 0>>>>,
              <<<<0, 3, 0, 0, 0, 0, 0, 0, 300>>>>>>, Bytes),
  FirstScan(1, 8, <<1>>, 3,
            <<<<<<142, 0, 0, 0, 0, 0, 0, 0, 0>>>>, <<<<123, 0, 0, 0, 0, 0, 0, 0, 0>>>>,
              <<<<-276, 0, 0, 0, 0, 0, 0, 0, 0>>>>, <<<<-200, 0, 0, 0, 0, -68, 0, 0, 0>>>>>>, {}),
  Refinement(0, 0, <<1, 2>>, 8,
             <<<<<<-1>>, <<1>>>>, <<<<1>>, <<-1>>>>, <<<<-1>>, <<-1>>>>, <<<<1>>, <<0>>>>,
               <<<<-1>>, <<0>>>>, <<<<0>>, <<-1>>>>, <<<<-1>>, <<1>>>>, <<<<1>>, <<0>>>>,
               <<<<1>>, <<-1>>>>, <<<<-1>>, <<0>>>>, <<<<0>>, <<0>>>>, <<<<0>>, <<1>>>>>>, Few),
  Refinement(1, 8, <<1>>, 3,
             <<<<<<-1, 2, 3, 3, 0, 0, -3, 3, 3>>>>, <<<<2, 1, 1, -2, 3, 3, -1, 1, 0>>>>,
               <<<<-1, 2, 0, -1, -1, 0, 2, 0, -3>>>>>>, Few),
  Refinement(1, 8, <<1>>, 3,
             <<<<<<-12, 0, 33, -17, 34, -23, 35, 17, -38>>>>, <<<<-25, 31, -5, 5, -23, -28, 28, 13, -10>>>>,
               <<<<9, -29, 17, 0, 0, -10, -29, 0, -23>>>>>>, {}),
  Refinement(1, 8, <<1>>, 1,
             <<<<<<-1, 0, 0, 0, 0, 0, 0, 0, 0>>>>, <<<<0, 0, -1, 0, 0, 0, 0, 0, 0>>>>,
               <<<<0, 1, 0, -2, 3, 0, 0, 1, 0>>>>>>, Bytes),
  Sequential(3, <<1>>, <<0>>, 0, 1, 2, 3, <<<<<<-279, 0, 0, 0>>>>, <<<<57, 0, 49, 0>>>>>>, Few),
  Sequential(3, <<1>>, <<0>>, 0, 1, 2, 1,
             [n \in 1..10 |-> << <<(n % 3) - 1, 0, 0, n % 2>> >>], Few),
  Sequential(8, <<1, 1, 2>>, <<0, 1>>, 1, 3, 5, 2,
             <<<<<<-2, 0, 0, 0, 0, 0, 0, 0, 0>>, <<1, 0, 0, 0, 0, 0, 0, 0, 0>>, <<3, 0, 0, 0, 0, 0, 0, 0, 0>>>>,
               <<<<-2, 0, 0, 0, 0, 0, 0, 0, 0>>, <<-3, 0, 0, 0, -3, 0, 0, 0, 0>>, <<2, 0, 2, 0, 0, 0, 0, 0, 0>>>>,
               <<<<0, 0, 0, 0, 0, 0, 0, 0, 0>>, <<2, 0, 0, 0, 0, 0, 0, 0, 0>>, <<-1, 0, 0, 0, 0, 0, 0, 0, 0>>>>>>, Few)}
=============================================================================
