-------------------------- MODULE MCDecoderControl --------------------------
(* Instances of DecoderControl.                                            *)
EXTENDS DecoderControl

Soi == [t |-> "soi"]
Eoi == [t |-> "eoi"]
Dqt == [t |-> "tables"]
Sof(n, prog) == [t |-> "sof", n |-> n, prog |-> prog]
Sos(n, Ss) == [t |-> "sos", n |-> n, Ss |-> Ss]
Mcus(n) == [i \in 1..n |-> [t |-> "mcu"]]
File(els, rows, cols) == [els |-> els, rows |-> rows, cols |-> cols]

\* One interleaved scan; several scans, DC first, with a pseudo SOS or not.
Single(n) == <<Soi, Dqt, Sof(3, FALSE), Sos(3, 0)>> \o Mcus(n) \o <<Eoi>>
Progressive(n) ==
  <<Soi, Dqt, Sof(1, TRUE), Sos(1, 0)>> \o Mcus(n) \o <<Sos(1, 1)>> \o Mcus(n)
    \o <<Sos(1, 1)>> \o Mcus(n) \o <<Eoi>>
Pseudo(n) ==
  <<Soi, Dqt, Sof(1, TRUE), Sos(0, 0), Sos(1, 0)>> \o Mcus(n) \o <<Sos(0, 0), Sos(1, 1)>>
    \o Mcus(n) \o <<Eoi>>
Planes(n) ==
  <<Soi, Sof(2, FALSE), Dqt, Sos(1, 0)>> \o Mcus(n) \o <<Sos(1, 0)>> \o Mcus(n) \o <<Eoi>>
Damaged ==
  <<Soi, Dqt, Sof(1, TRUE), Sos(1, 0)>> \o Mcus(1) \o <<Sos(1, 1)>> \o Mcus(3) \o <<Eoi>>
TablesOnly == <<Soi, Dqt, Eoi>>
Abbreviated(n) == <<Soi, Sof(3, FALSE), Sos(3, 0)>> \o Mcus(n) \o <<Eoi>>

MCFiles ==
  { File(Single(2) \o Planes(2), 2, 1),
    File(Progressive(2), 2, 1),
    File(Pseudo(2) \o TablesOnly, 2, 1),
    \* Its second image lacks the tables when the first is aborted too early.
    File(TablesOnly \o Abbreviated(4), 2, 2),
    \* MCUs missing from a scan, and too many of them.
    File(Damaged, 2, 1),
    \* Streams with a defect of their own.
    File(Abbreviated(2) \o Single(2), 2, 1),
    File(<<Soi, Dqt, Sof(3, FALSE), Sos(3, 0)>> \o Mcus(2) \o <<Sos(3, 0)>> \o Mcus(2) \o <<Eoi>>,
         2, 1),
    File(<<Soi, Dqt, Sof(3, FALSE), Eoi>> \o Single(2), 2, 1),
    \* Markers out of order, between images and in one.
    File(TablesOnly \o Mcus(1) \o <<Soi, Dqt, Sos(1, 0)>>, 2, 1),
    File(<<Soi, Sof(1, TRUE), Sof(1, TRUE)>> \o TablesOnly, 2, 1),
    File(<<Soi, Dqt, Sof(1, TRUE), Sos(1, 0)>> \o Mcus(2) \o Single(2), 2, 1) }

MCSettings ==
  [buffered_image : BOOLEAN, two_pass : BOOLEAN, smoothing : {TRUE}]
    \cup [buffered_image : {TRUE}, two_pass : {FALSE}, smoothing : {FALSE}]
=============================================================================
