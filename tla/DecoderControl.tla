--------------------------- MODULE DecoderControl ---------------------------
(***************************************************************************)
(* The control of the jpeg8d decompressor: the library's entry points        *)
(* (jdapimin.c, jdapistd.c) over the input controller (jdinput.c), the       *)
(* marker reader (jdmarker.c), the coefficient controller (jdcoefct.c) and   *)
(* master control (jdmaster.c).                                              *)
(*                                                                          *)
(* The data source may run dry at any element of the stream: a call then     *)
(* returns "suspended" and the application repeats it.  In buffered-image    *)
(* mode the application paces input and output on its own; what it asks for  *)
(* is a scan number, and the interlock of the coefficient controller has to  *)
(* see to it that every row it gets has the data of that scan.               *)
(*                                                                          *)
(* A stream is a sequence of elements: markers with what this control reads  *)
(* of them, and the MCUs of the scans.  The coefficients of an MCU are the    *)
(* number of the last scan decoded into it.  Rows are iMCU rows.             *)
(***************************************************************************)
EXTENDS Integers, SequencesExt

CONSTANTS
  Files,    \* streams: elements, iMCU rows, MCUs in a row
  Settings  \* what the application sets before jpeg_start_decompress

\* Markers with what they say: a SOF the number of components and whether the
\* image is progressive, a SOS that of the scan (0 in a pseudo SOS) and its Ss.
Positive == Nat \ {0}
Elements ==
  [t : {"soi", "eoi", "tables", "mcu"}] \cup [t : {"sof"}, n : Positive, prog : BOOLEAN]
    \cup [t : {"sos"}, n : Nat, Ss : Nat]

\* The images of a stream are all of one size; their markers come in any order.
ASSUME FileAssumption ==
  /\ Files \subseteq [els : Seq(Elements), rows : Positive, cols : Positive]
  /\ \A f \in Files : Len(f.els) > 0
ASSUME SettingAssumption ==
  Settings \subseteq [buffered_image : BOOLEAN, two_pass : BOOLEAN, smoothing : BOOLEAN]

VARIABLES
  file,    \* the stream
  avail,   \* how much of it has arrived
  pos,     \* how much of it has been read
  cinfo,   \* the decompression object
  tables,  \* whether quantization tables have been read, by any image
  coefs,   \* the coefficient arrays, or the one-MCU buffer's row
  call,    \* the library call in progress, or "none"
  error,   \* what ERREXIT has reported, or "none"
  asked,   \* the scan the application wants to see
  shown,   \* what the rows of the current output pass have shown
  strip    \* the rows saved for the second pass of colour quantization

vars == <<file, avail, pos, cinfo, tables, coefs, call, error, asked, shown, strip>>

Rows == 0..(file.rows - 1)
Cols == 0..(file.cols - 1)
Blank == [r \in Rows |-> [k \in Cols |-> 0]]

\* What row r holds in every MCU, and what the row below it holds.
Held(cs, r) == Min({cs[r][k] : k \in Cols})
Emission(cs, r) ==
  [have |-> Held(cs, r), below |-> Held(cs, IF r + 1 \in Rows THEN r + 1 ELSE r)]

-----------------------------------------------------------------------------
(* Input.  A step of input maps s = [c, pos, tables, coefs, ret], the object *)
(* and its source, to what it leaves; ret is what the C function returns, or *)
(* "more" where its loop goes on.                                            *)

Returning(s, ret) == [s EXCEPT !.ret = ret]
Failing(s, e) == [s EXCEPT !.ret = "error", !.err = e]
Dry(s) == s.pos >= avail
Coming(s) == file.els[s.pos + 1]

GetSOF(c, e) ==
  [c EXCEPT !.saw_SOF = TRUE, !.num_components = e.n, !.progressive_mode = e.prog]
GetSOS(c, e) ==
  [c EXCEPT !.comps_in_scan = e.n, !.Ss = e.Ss,
            !.input_scan_number = IF e.n > 0 THEN @ + 1 ELSE @]

\* read_markers: one marker, or a stray byte of data that next_marker skips.
ReadMarker(s) ==
  LET e == Coming(s)
      t == [s EXCEPT !.pos = @ + 1, !.ret = "more"]
  IN CASE Dry(s) -> Returning(s, "suspended")
       [] ~Dry(s) /\ ~s.c.saw_SOI ->
            IF e.t = "soi" THEN [t EXCEPT !.c.saw_SOI = TRUE] ELSE Failing(s, "NO_SOI")
       [] ~Dry(s) /\ s.c.saw_SOI /\ e.t = "soi" -> Failing(s, "SOI_DUPLICATE")
       [] ~Dry(s) /\ s.c.saw_SOI /\ e.t = "tables" -> [t EXCEPT !.tables = TRUE]
       [] ~Dry(s) /\ s.c.saw_SOI /\ e.t = "sof" ->
            IF s.c.saw_SOF THEN Failing(s, "SOF_DUPLICATE")
            ELSE [t EXCEPT !.c = GetSOF(@, e)]
       [] ~Dry(s) /\ s.c.saw_SOI /\ e.t = "sos" ->
            IF ~s.c.saw_SOF THEN Failing(s, "SOS_NO_SOF")
            ELSE [t EXCEPT !.c = GetSOS(@, e), !.ret = "SOS"]
       [] ~Dry(s) /\ s.c.saw_SOI /\ e.t = "eoi" -> Returning(t, "EOI")
       [] ~Dry(s) /\ s.c.saw_SOI /\ e.t = "mcu" -> t

\* start_input_pass: per_scan_setup, latch_quant_tables, the entropy decoder
\* (which learns how accurate the coefficients are about to be) and the
\* coefficient controller.
StartInputPass(s) ==
  IF ~s.tables THEN Failing(s, "NO_QUANT_TABLE")
  ELSE [s EXCEPT !.c = [@ EXCEPT !.input_iMCU_row = 0, !.MCU_ctr = 0, !.consume_input = "data"]]

\* The first SOS of an image, initial_setup included; a pseudo SOS is passed.
FirstSOS(s) ==
  LET t == IF s.c.inheaders = 1
           THEN [s EXCEPT !.c.has_multiple_scans =
                   s.c.comps_in_scan < s.c.num_components \/ s.c.progressive_mode]
           ELSE s
  IN IF s.c.comps_in_scan = 0 THEN [t EXCEPT !.c.inheaders = 2, !.ret = "more"]
     ELSE [t EXCEPT !.c.inheaders = 0]

LaterSOS(s) ==
  CASE ~s.c.has_multiple_scans -> Failing(s, "EOI_EXPECTED")
    [] s.c.has_multiple_scans /\ s.c.comps_in_scan = 0 -> Returning(s, "more")
    [] s.c.has_multiple_scans /\ s.c.comps_in_scan > 0 -> StartInputPass(s)

\* Mutant of ReachEOI: the target scan is left where it is.
ReachEOIUnclamped(s) ==
  IF s.c.inheaders > 0 /\ s.c.saw_SOF THEN Failing(s, "SOF_NO_SOS")
  ELSE [s EXCEPT !.c.eoi_reached = TRUE]

\* EOI: the target scan is reset to the last one, so that decompress_data
\* does not wait for a scan that never comes.
EndInput(c) ==
  [c EXCEPT !.eoi_reached = TRUE,
            !.output_scan_number =
               IF c.inheaders = 0 /\ @ > c.input_scan_number THEN c.input_scan_number ELSE @]
ReachEOI(s) ==
  IF s.c.inheaders > 0 /\ s.c.saw_SOF THEN Failing(s, "SOF_NO_SOS")
  ELSE [s EXCEPT !.c = EndInput(@)]

ConsumeMarkers(s) ==
  LET m == ReadMarker(s)
  IN CASE s.c.eoi_reached -> Returning(s, "EOI")
       [] ~s.c.eoi_reached /\ m.ret = "SOS" ->
            IF m.c.inheaders > 0 THEN FirstSOS(m) ELSE LaterSOS(m)
       [] ~s.c.eoi_reached /\ m.ret = "EOI" -> ReachEOI(m)
       [] ~s.c.eoi_reached /\ m.ret \notin {"SOS", "EOI"} -> m

\* The counters of the input side behind one more MCU.
RowDone(c) == c.MCU_ctr + 1 >= file.cols
ScanDone(c) == RowDone(c) /\ c.input_iMCU_row + 1 >= file.rows
Counted(c) ==
  [c EXCEPT !.MCU_ctr = IF RowDone(c) THEN 0 ELSE @ + 1,
            !.input_iMCU_row = IF RowDone(c) THEN @ + 1 ELSE @,
            !.consume_input = IF ScanDone(c) THEN "markers" ELSE @]

\* One MCU: at a marker the entropy decoder goes on with zeroes.
DecodeMCU(s) ==
  IF Dry(s) THEN Returning(s, "suspended")
  ELSE [s EXCEPT !.pos = IF Coming(s).t = "mcu" THEN @ + 1 ELSE @,
                 !.coefs[s.c.input_iMCU_row][s.c.MCU_ctr] = s.c.input_scan_number,
                 !.c = Counted(@),
                 !.ret = IF ScanDone(s.c) THEN "scan" ELSE IF RowDone(s.c) THEN "row" ELSE "more"]

\* The method consume_input points to: consume_markers, consume_data, or
\* dummy_consume_data where input and output run in lockstep.
Consume(s) ==
  CASE s.c.consume_input = "markers" -> ConsumeMarkers(s)
    [] s.c.consume_input = "data" /\ s.c.decompress # "onepass" -> DecodeMCU(s)
    [] s.c.consume_input = "data" /\ s.c.decompress = "onepass" -> Returning(s, "suspended")

-----------------------------------------------------------------------------
(* Output.                                                                 *)

\* Mutant of Behind: a DC scan is not kept a row ahead for block smoothing.
BehindInRow(c) ==
  \/ c.input_scan_number < c.output_scan_number
  \/ /\ c.input_scan_number = c.output_scan_number
     /\ c.input_iMCU_row <= c.output_iMCU_row

\* The interlock: whether the input is behind what the output is asked for.
Behind(c) ==
  IF c.decompress = "smooth"
  THEN /\ c.input_scan_number <= c.output_scan_number /\ ~c.eoi_reached
       /\ ~ /\ c.input_scan_number = c.output_scan_number
            /\ c.input_iMCU_row > c.output_iMCU_row + (IF c.Ss = 0 THEN 1 ELSE 0)
  ELSE \/ c.input_scan_number < c.output_scan_number
       \/ /\ c.input_scan_number = c.output_scan_number
          /\ c.input_iMCU_row <= c.output_iMCU_row

\* decompress_data, decompress_smooth_data, decompress_onepass: "emitted" when
\* row output_iMCU_row is out, "more" when input went on first.
Decompress(s) ==
  LET d == DecodeMCU(s)
      i == Consume(s)
  IN CASE s.c.decompress = "onepass" ->
            IF d.ret \in {"row", "scan"}
            THEN [d EXCEPT !.ret = "emitted", !.c.output_iMCU_row = @ + 1] ELSE d
       [] s.c.decompress # "onepass" /\ Behind(s.c) ->
            IF i.ret \in {"suspended", "error"} THEN i ELSE Returning(i, "more")
       [] s.c.decompress # "onepass" /\ ~Behind(s.c) ->
            [s EXCEPT !.ret = "emitted", !.c.output_iMCU_row = @ + 1]

\* prepare_for_output_pass: a second pass of quantization works on the saved
\* strip; any other pass starts over and chooses the decompression method.
PrepareForOutputPass(c) ==
  IF c.is_dummy_pass THEN [c EXCEPT !.is_dummy_pass = FALSE, !.crank = TRUE, !.output_scanline = 0]
  ELSE [c EXCEPT !.is_dummy_pass = c.two_pass /\ ~c.colormap, !.crank = FALSE,
                 !.output_iMCU_row = 0, !.output_scanline = 0,
                 !.decompress = IF @ = "onepass" THEN @
                                ELSE IF c.smoothing /\ c.progressive_mode THEN "smooth" ELSE "data"]

-----------------------------------------------------------------------------
(* The library's entry points.  A call lasts from the step that begins it to *)
(* the step that sets call to "none" again; suspended, it is to be repeated. *)

Session == [c |-> cinfo, pos |-> pos, tables |-> tables, coefs |-> coefs, ret |-> "more", err |-> "none"]
Calling(name) == error = "none" /\ call \in {"none", name}
State(states) == cinfo.global_state \in states

\* The variables behind a step that leaves s, with the call next in progress.
Leaving(s, next) ==
  /\ cinfo' = s.c /\ pos' = s.pos /\ tables' = s.tables /\ coefs' = s.coefs
  /\ error' = s.err /\ call' = IF s.err = "none" THEN next ELSE "none"
  /\ UNCHANGED <<file, avail>>

\* Mutant of Reset: the header state of the last image stays.
ResetOnlyMarkers(c) ==
  [c EXCEPT !.global_state = "INHEADER", !.consume_input = "markers", !.decompress = "none",
            !.has_multiple_scans = FALSE, !.eoi_reached = FALSE,
            !.saw_SOI = FALSE, !.saw_SOF = FALSE, !.input_scan_number = 0]

\* reset_input_controller and reset_marker_reader.
Reset(c) ==
  [c EXCEPT !.global_state = "INHEADER", !.consume_input = "markers", !.decompress = "none",
            !.has_multiple_scans = FALSE, !.eoi_reached = FALSE, !.inheaders = 1,
            !.saw_SOI = FALSE, !.saw_SOF = FALSE, !.input_scan_number = 0]

\* jpeg_abort, behind which the object can be used for another image.
Aborted(s) == [s EXCEPT !.c.global_state = "START", !.coefs = Blank]

\* jpeg_consume_input up to the first SOS.
HeaderInput ==
  LET s == Consume(IF State({"START"}) THEN [Session EXCEPT !.c = Reset(@)] ELSE Session)
  IN IF s.ret = "SOS" THEN [s EXCEPT !.c.global_state = "READY"] ELSE s

\* jpeg_read_header; a stream of tables only ends in the start state.
ReadHeader ==
  /\ Calling("read_header") /\ State({"START", "INHEADER"})
  /\ LET s == HeaderInput
     IN Leaving(IF s.ret = "EOI" THEN Aborted(s) ELSE s,
                IF s.ret = "more" THEN "read_header" ELSE "none")
  /\ UNCHANGED <<asked, shown, strip>>

\* jpeg_consume_input, called by the application at any time.
ConsumeInput ==
  /\ Calling("consume_input") /\ ~State({"READY"})
  /\ LET s == IF State({"START", "INHEADER"}) THEN HeaderInput ELSE Consume(Session)
     IN Leaving(s, IF s.ret = "more" THEN "consume_input" ELSE "none")
  /\ UNCHANGED <<asked, shown, strip>>

\* jpeg_start_decompress, first call: master_selection and the first pass of
\* input.  In buffered-image mode it is done.
StartDecompress(set) ==
  /\ Calling("none") /\ State({"READY"})
  /\ LET lockstep == ~cinfo.has_multiple_scans /\ ~set.buffered_image
         c == [cinfo EXCEPT
                 !.buffered_image = set.buffered_image, !.two_pass = set.two_pass,
                 !.smoothing = set.smoothing, !.colormap = FALSE, !.is_dummy_pass = FALSE,
                 !.decompress = IF lockstep THEN "onepass" ELSE "data",
                 !.global_state = IF set.buffered_image THEN "BUFIMAGE" ELSE "PRELOAD"]
     IN Leaving(StartInputPass([Session EXCEPT !.c = c, !.coefs = Blank]),
                IF set.buffered_image THEN "none" ELSE "start_decompress")
  /\ asked' = Len(file.els)
  /\ UNCHANGED <<shown, strip>>

\* output_pass_setup, its first call.
PassSetup(s) == [s EXCEPT !.c = [PrepareForOutputPass(s.c) EXCEPT !.global_state = "PRESCAN"]]

\* jpeg_start_decompress absorbs all scans of a file that has several.
Preload ==
  /\ Calling("start_decompress") /\ State({"PRELOAD"})
  /\ LET s == IF cinfo.has_multiple_scans THEN Consume(Session) ELSE Returning(Session, "EOI")
     IN IF s.ret = "EOI"
        THEN Leaving(PassSetup([s EXCEPT !.c.output_scan_number = s.c.input_scan_number]), "setup")
        ELSE Leaving(s, IF s.ret = "suspended" THEN "none" ELSE "start_decompress")
  /\ UNCHANGED <<asked, shown, strip>>

\* The scan number jpeg_start_output makes of the one it is called with.
Target(c, scan_number) ==
  IF c.eoi_reached /\ scan_number > c.input_scan_number THEN c.input_scan_number ELSE scan_number

\* jpeg_start_output; colormap = NULL asks for a new one.
StartOutput(scan_number, renew) ==
  /\ Calling("none") /\ State({"BUFIMAGE"}) /\ (renew => cinfo.two_pass /\ cinfo.colormap)
  /\ Leaving(PassSetup([Session EXCEPT !.c.output_scan_number = Target(cinfo, scan_number),
                                       !.c.colormap = @ /\ ~renew]), "setup")
  /\ asked' = scan_number
  /\ UNCHANGED <<shown, strip>>

\* The rest of output_pass_setup, again behind a suspension: the dummy pass of
\* 2-pass quantization.
OutputPassSetup ==
  /\ Calling("setup") /\ State({"PRESCAN"})
  /\ LET c == IF cinfo.buffered_image
              THEN [cinfo EXCEPT !.output_scan_number = Target(cinfo, asked)] ELSE cinfo
         s == Decompress([Session EXCEPT !.c = c])
         row == c.output_scanline
         more == row + 1 < file.rows
     IN CASE ~c.is_dummy_pass ->
               /\ Leaving([Session EXCEPT !.c = [c EXCEPT !.global_state = "SCANNING"]], "none")
               /\ shown' = <<>> /\ strip' = strip
          [] c.is_dummy_pass /\ s.ret = "emitted" ->
               /\ Leaving([s EXCEPT !.c =
                     IF more THEN [@ EXCEPT !.output_scanline = row + 1]
                     ELSE PrepareForOutputPass([@ EXCEPT !.colormap = TRUE])], "setup")
               /\ strip' = IF row = 0 THEN <<Emission(s.coefs, 0)>>
                           ELSE Append(strip, Emission(s.coefs, row))
               /\ shown' = shown
          [] c.is_dummy_pass /\ s.ret # "emitted" ->
               /\ Leaving(s, IF s.ret = "suspended" THEN "none" ELSE "setup")
               /\ UNCHANGED <<shown, strip>>
  /\ asked' = asked

\* jpeg_read_scanlines, or jpeg_read_raw_data: one row.
ReadScanlines ==
  /\ Calling("read_scanlines") /\ State({"SCANNING"}) /\ cinfo.output_scanline < file.rows
  /\ LET row == cinfo.output_scanline
         s == IF cinfo.crank THEN Returning(Session, "emitted") ELSE Decompress(Session)
     IN IF s.ret = "emitted"
        THEN /\ Leaving([s EXCEPT !.c.output_scanline = row + 1], "none")
             /\ shown' = Append(shown, IF cinfo.crank THEN strip[row + 1] ELSE Emission(s.coefs, row))
        ELSE /\ Leaving(s, IF s.ret = "suspended" THEN "none" ELSE "read_scanlines")
             /\ shown' = shown
  /\ UNCHANGED <<asked, strip>>

\* jpeg_finish_output, for a pass completed or not: on to the next scan.
FinishOutput ==
  /\ Calling("finish_output") /\ cinfo.buffered_image /\ State({"SCANNING", "BUFPOST"})
  /\ LET wait == cinfo.input_scan_number <= cinfo.output_scan_number /\ ~cinfo.eoi_reached
         s == [Consume(Session) EXCEPT !.c.global_state = "BUFPOST"]
     IN IF wait THEN Leaving(s, IF s.ret = "suspended" THEN "none" ELSE "finish_output")
        ELSE Leaving([Session EXCEPT !.c.global_state = "BUFIMAGE"], "none")
  /\ UNCHANGED <<asked, shown, strip>>

\* jpeg_finish_decompress: on to EOI.
FinishDecompress ==
  /\ Calling("finish_decompress")
  /\ \/ State({"BUFIMAGE", "STOPPING"})
     \/ ~cinfo.buffered_image /\ State({"SCANNING"}) /\ cinfo.output_scanline = file.rows
  /\ LET s == [Consume(Session) EXCEPT !.c.global_state = "STOPPING"]
     IN IF cinfo.eoi_reached THEN Leaving(Aborted(Session), "none")
        ELSE Leaving(s, IF s.ret = "suspended" THEN "none" ELSE "finish_decompress")
  /\ shown' = <<>> /\ strip' = <<>> /\ asked' = asked

\* The application gives up, on its own or because of an error, and turns to
\* the next image.
Abort ==
  /\ call = "none" /\ ~State({"START"})
  /\ LET images == {i \in (pos + 1)..Len(file.els) : file.els[i].t = "soi"}
         next == IF images = {} THEN Len(file.els) ELSE Min(images) - 1
     IN /\ pos' = next /\ avail' = IF avail < next THEN next ELSE avail
  /\ cinfo' = Aborted(Session).c /\ coefs' = Blank /\ error' = "none"
  /\ shown' = <<>> /\ strip' = <<>>
  /\ UNCHANGED <<file, tables, call, asked>>

\* The source manager gets more data.
Arrive ==
  /\ avail < Len(file.els) /\ avail' = avail + 1
  /\ UNCHANGED <<file, pos, cinfo, tables, coefs, call, error, asked, shown, strip>>

-----------------------------------------------------------------------------
\* jpeg_CreateDecompress.
Init ==
  /\ file \in Files
  /\ avail = 0 /\ pos = 0 /\ tables = FALSE /\ coefs = Blank
  /\ call = "none" /\ error = "none" /\ asked = 0 /\ shown = <<>> /\ strip = <<>>
  /\ cinfo = [global_state |-> "START", saw_SOI |-> FALSE, saw_SOF |-> FALSE,
              num_components |-> 0, progressive_mode |-> FALSE, comps_in_scan |-> 0, Ss |-> 0,
              inheaders |-> 1, eoi_reached |-> FALSE, has_multiple_scans |-> FALSE,
              consume_input |-> "markers", input_scan_number |-> 0, input_iMCU_row |-> 0,
              MCU_ctr |-> 0, output_scan_number |-> 0, output_iMCU_row |-> 0,
              output_scanline |-> 0, is_dummy_pass |-> FALSE, crank |-> FALSE, colormap |-> FALSE,
              buffered_image |-> FALSE, two_pass |-> FALSE, smoothing |-> FALSE,
              decompress |-> "none"]

Library ==
  \/ ReadHeader \/ ConsumeInput \/ Preload \/ OutputPassSetup \/ ReadScanlines
  \/ FinishOutput \/ FinishDecompress
  \/ \E set \in Settings : StartDecompress(set)

Next ==
  \/ Library \/ Arrive \/ Abort
  \/ \E n \in 1..(cinfo.input_scan_number + 2), renew \in BOOLEAN : StartOutput(n, renew)

\* What has been begun: a call in progress, a call that was suspended, a pass.
\* At any time it is one of these.
Proceed ==
  \/ ReadHeader \/ Preload \/ OutputPassSetup \/ ReadScanlines
  \/ (State({"BUFPOST"}) \/ call = "finish_output") /\ FinishOutput
  \/ (State({"STOPPING"}) \/ call = "finish_decompress") /\ FinishDecompress
  \/ call = "consume_input" /\ ConsumeInput

\* A call in progress goes on, the application repeats a suspended call and
\* reads a pass it has begun to its end, and data keeps arriving.
Fairness == WF_vars(Arrive) /\ WF_vars(Proceed)

Spec == Init /\ [][Next]_vars /\ Fairness

-----------------------------------------------------------------------------
(* Properties.                                                             *)

\* The image the source is in, its scans up to element i, and all its scans,
\* those still to come included.
ImageStart == CHOOSE i \in 1..pos : /\ file.els[i].t = "soi"
                                     /\ \A j \in (i + 1)..pos : file.els[j].t # "soi"
IsScan(j) == file.els[j].t = "sos" /\ file.els[j].n > 0
Scans(i) == {j \in ImageStart..i : IsScan(j)}
ImageScans ==
  {j \in ImageStart..Len(file.els) :
     IsScan(j) /\ \A i \in (ImageStart + 1)..j : file.els[i].t \notin {"soi", "eoi"}}
InImage == State({"READY", "PRELOAD", "PRESCAN", "SCANNING", "BUFIMAGE", "BUFPOST", "STOPPING"})

\* The scan a pass has to show: the one asked for, or the last of the image.
Due ==
  LET total == IF cinfo.has_multiple_scans THEN Cardinality(ImageScans) ELSE 1
  IN IF asked < total THEN asked ELSE total
DueIsDC == \E j \in ImageScans : Cardinality(Scans(j)) = Due /\ file.els[j].Ss = 0

\* Every row an application gets, in whatever mode, at whatever pace of input
\* and output and however often calls had to be repeated, has the data of the
\* scan it asked for in all its MCUs; and where block smoothing looks at the
\* row below during a DC scan, so has that one (decompress_data,
\* decompress_smooth_data, output_pass_setup).
ShownComplete ==
  State({"SCANNING"}) =>
    \A i \in 1..Len(shown) :
      /\ shown[i].have >= Due
      /\ cinfo.decompress = "smooth" /\ DueIsDC => shown[i].below >= Due

\* Whether the stream deserves the error reported: what the marker read last or
\* the one that comes next (pos stays at an error of the marker reader) says, by
\* itself and by what this image had before it.
Seen(t) == \E j \in ImageStart..pos : file.els[j].t = t
Follows(t) == pos < Len(file.els) /\ file.els[pos + 1].t = t
AllInOneScan ==
  \E k \in ImageStart..pos, j \in ImageStart..(pos - 1) :
    /\ file.els[k].t = "sof" /\ ~file.els[k].prog
    /\ file.els[j].t = "sos" /\ file.els[j].n >= file.els[k].n
Deserved ==
  CASE error = "none" -> TRUE
    [] error = "NO_SOI" -> ~Follows("soi") /\ (pos = 0 \/ file.els[pos].t = "eoi")
    [] error = "SOI_DUPLICATE" -> Follows("soi") /\ ~Seen("eoi")
    [] error = "SOF_DUPLICATE" -> Follows("sof") /\ Seen("sof")
    [] error = "SOS_NO_SOF" -> Follows("sos") /\ ~Seen("sof")
    [] error = "SOF_NO_SOS" -> file.els[pos].t = "eoi" /\ Seen("sof") /\ Scans(pos) = {}
    [] error = "EOI_EXPECTED" -> file.els[pos].t = "sos" /\ AllInOneScan
    [] error = "NO_QUANT_TABLE" -> Scans(pos) # {} /\ ~Seen("tables")

\* The object's idea of where it is in the stream is right, also for an image
\* behind another one that was finished, aborted or held tables only: the scan
\* count is that of this image, and no error is reported that the stream does
\* not deserve (reset_input_controller, reset_marker_reader, consume_markers).
InStep ==
  /\ InImage => cinfo.input_scan_number = Cardinality(Scans(pos))
  /\ Deserved

Begun ==
  \/ State({"PRELOAD", "PRESCAN", "BUFPOST", "STOPPING"})
  \/ State({"SCANNING"}) /\ cinfo.output_scanline < file.rows

\* What has been begun is done in the end: suspended calls return, also when
\* they wait for a scan the image does not have, and a pass gets all its rows.
CallsReturn == Begun ~> (~Begun \/ error # "none")
=============================================================================
