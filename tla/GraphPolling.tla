---------------------------- MODULE GraphPolling ----------------------------
(***************************************************************************)
(* One device tab (PhidgetGraphViewTab): the poller thread (UpdatePhidget) *)
(* that builds the chart's series, samples the device, logs and plots; the *)
(* main thread, which shows, hides and destroys the tab and switches       *)
(* logging; and the device, which the library links and drops at any time. *)
(*                                                                         *)
(* None of these threads locks anything.  The poller asks the hardware for *)
(* the number of series again in every loop iteration, so each of its      *)
(* actions is what it does between two such questions.                     *)
(***************************************************************************)
EXTENDS Naturals

CONSTANTS
  Sensors,       \* series of the device: its inputs, axes or thermocouples
  FixedSeries,   \* getNumberOfSeries() answers without asking the device
  Recreation,    \* whether Android can destroy and restore the activity
  MaxDrops,      \* bound on how often the device is dropped
  MaxPolls,      \* bound on the successful samples
  MaxToggles     \* bound on the clicks on the logging button

ASSUME PollingAssumption ==
  /\ Sensors \in Nat \ {0}
  /\ FixedSeries \in BOOLEAN /\ (FixedSeries => Sensors = 1)
  /\ Recreation \in BOOLEAN
  /\ MaxDrops \in Nat /\ MaxPolls \in Nat /\ MaxToggles \in Nat

VARIABLES
  pc, ii,        \* the poller's step and its loop counter
  behind,        \* an endless task is before the poller in the executor
  log, values,   \* its argument poll(m_LogData) and the length of yValues
  published,     \* publishProgress() has a message for the main thread
  series,        \* series in mDataset
  renderers,     \* renderers in mRenderer
  points,        \* points[i]: the points plotted in series i
  rows,          \* rows in m_PhidgetPolls
  logData,       \* m_LogData
  checked,       \* the state of the logging ToggleButton
  shown,         \* whether the tab has its views
  text,          \* txtStatusTextView is not null
  hardware,      \* m_CurrentHardWare is not null
  destroyed,     \* the fragment is destroyed
  linked,        \* the library holds a connection to the device
  crashed,       \* an exception on the main thread has ended the process
  polls, links, drops, toggles,   \* how often each has happened
  late           \* rows logged since logging was last switched off

poller  == <<pc, ii, behind, log, values, published>>
chart   == <<series, renderers, points>>
view    == <<logData, checked, shown, text, destroyed, toggles>>
device  == <<hardware, linked, links, drops>>
vars    == <<poller, chart, rows, view, device, crashed, polls, late>>

Steps == {"queued", "sleep", "check", "build", "renderer", "argument", "sample",
          "values", "plot"}

TypeOK ==
  /\ pc \in Steps
  /\ ii \in 0..Sensors /\ values \in 0..Sensors
  /\ series \in 0..Sensors /\ renderers \in 0..Sensors
  /\ points \in [1..Sensors -> 0..MaxPolls]
  /\ log \in BOOLEAN /\ published \in BOOLEAN
  /\ logData \in BOOLEAN /\ checked \in BOOLEAN
  /\ shown \in BOOLEAN /\ text \in BOOLEAN
  /\ destroyed \in BOOLEAN /\ behind \in BOOLEAN
  /\ hardware \in BOOLEAN /\ linked \in BOOLEAN /\ crashed \in BOOLEAN
  /\ rows \in 0..MaxPolls /\ polls \in 0..MaxPolls /\ late \in 0..MaxPolls
  /\ links \in 0..MaxDrops + 1 /\ drops \in 0..MaxDrops
  /\ toggles \in 0..MaxToggles

(* Selecting the tab has created the fragment, its views and, for a class  *)
(* it knows, the hardware object; the library has yet to find the device,  *)
(* and the executor to run the poller: behind that of an earlier tab, or   *)
(* of one in another activity, it never will.                              *)
Init ==
  /\ pc = "queued" /\ behind \in BOOLEAN
  /\ ii = 0 /\ log = FALSE /\ values = 0 /\ published = FALSE
  /\ series = 0 /\ renderers = 0 /\ points = [i \in 1..Sensors |-> 0]
  /\ rows = 0
  /\ logData = FALSE /\ checked = FALSE /\ toggles = 0
  /\ shown = TRUE /\ text = TRUE /\ destroyed = FALSE
  /\ hardware \in BOOLEAN /\ linked = FALSE /\ links = 0 /\ drops = 0
  /\ crashed = FALSE /\ polls = 0 /\ late = 0

Alive == ~crashed

(* getNumberOfSeries(): 0 without hardware, and when the device throws.    *)
NumberOfSeries ==
  IF hardware /\ (FixedSeries \/ linked) THEN Sensors ELSE 0

-----------------------------------------------------------------------------
(* doInBackground.  An exception ends the iteration: publishProgress, then *)
(* sleep.                                                                  *)
Goto(step) ==
  /\ pc' = step
  /\ published' = (published \/ step = "sleep")

(* The executor runs one task after the other.                             *)
Start ==
  /\ Alive /\ pc = "queued" /\ ~behind
  /\ pc' = "sleep"
  /\ UNCHANGED <<ii, behind, log, values, published, chart, rows, view, device,
                 crashed, polls, late>>

Sleep ==
  /\ Alive /\ pc = "sleep"
  /\ Goto("check")
  /\ UNCHANGED <<ii, behind, log, values, chart, rows, view, device, crashed, polls, late>>

(* Mutant: the series are never built.                                     *)
CheckOnlyPolls ==
  /\ Alive /\ pc = "check"
  /\ Goto(IF NumberOfSeries = series THEN "argument" ELSE "sleep")
  /\ ii' = 0
  /\ UNCHANGED <<behind, log, values, chart, rows, view, device, crashed, polls, late>>

(* Mutant: what is missing is built after the series that are there.       *)
CheckResumes ==
  /\ Alive /\ pc = "check"
  /\ Goto(IF NumberOfSeries = series THEN "argument" ELSE "build")
  /\ ii' = series
  /\ UNCHANGED <<behind, log, values, chart, rows, view, device, crashed, polls, late>>

(* As many series as the device has: poll.  None yet: build them.          *)
Check ==
  /\ Alive /\ pc = "check"
  /\ Goto(IF NumberOfSeries = series THEN "argument"
          ELSE IF series = 0 THEN "build" ELSE "sleep")
  /\ ii' = 0
  /\ UNCHANGED <<behind, log, values, chart, rows, view, device, crashed, polls, late>>

(* One turn of the loop over the missing series: its first statement.      *)
Build ==
  /\ Alive /\ pc = "build"
  /\ IF ii < NumberOfSeries
     THEN Goto("renderer") /\ series' = series + 1
     ELSE Goto("sleep") /\ UNCHANGED series
  /\ UNCHANGED <<ii, behind, log, values, renderers, points, rows, view, device,
                 crashed, polls, late>>

(* Mutant: the renderer asks the device, which throws once it is dropped.  *)
AddRendererOfDevice ==
  /\ Alive /\ pc = "renderer"
  /\ IF linked
     THEN renderers' = renderers + 1 /\ ii' = ii + 1 /\ Goto("build")
     ELSE Goto("sleep") /\ UNCHANGED <<renderers, ii>>
  /\ UNCHANGED <<behind, log, values, series, points, rows, view, device, crashed,
                 polls, late>>

(* The rest of the turn.                                                   *)
AddRenderer ==
  /\ Alive /\ pc = "renderer"
  /\ renderers' = renderers + 1
  /\ ii' = ii + 1
  /\ Goto("build")
  /\ UNCHANGED <<behind, log, values, series, points, rows, view, device, crashed,
                 polls, late>>

(* m_LogData is read when poll() is called, before the device is asked.    *)
Argument ==
  /\ Alive /\ pc = "argument"
  /\ log' = logData
  /\ Goto("sample")
  /\ UNCHANGED <<ii, behind, values, chart, rows, view, device, crashed, polls, late>>

(* Mutant: the row is logged before the poll is known to have data.        *)
SampleLogsNull ==
  /\ Alive /\ pc = "sample"
  /\ rows' = IF log THEN rows + 1 ELSE rows
  /\ \/ /\ hardware /\ linked /\ polls < MaxPolls
        /\ polls' = polls + 1
        /\ values' = 0
        /\ late' = IF log /\ ~logData THEN late + 1 ELSE late
        /\ Goto("values")
     \/ /\ ~(hardware /\ linked)
        /\ Goto("sleep")
        /\ UNCHANGED <<values, late, polls>>
  /\ UNCHANGED <<ii, behind, log, chart, view, device, crashed>>

(* AbstractPhidgetHardware.poll() and the row it logs.                     *)
Sample ==
  /\ Alive /\ pc = "sample"
  /\ \/ /\ hardware /\ linked /\ polls < MaxPolls
        /\ polls' = polls + 1
        /\ values' = 0
        /\ rows' = IF log THEN rows + 1 ELSE rows
        /\ late' = IF log /\ ~logData THEN late + 1 ELSE late
        /\ Goto("values")
     \/ /\ ~(hardware /\ linked)
        /\ Goto("sleep")
        /\ UNCHANGED <<values, rows, late, polls>>
  /\ UNCHANGED <<ii, behind, log, chart, view, device, crashed>>

(* PhidgetHardwareFactory.poll() copies a value for each series.           *)
Values ==
  /\ Alive /\ pc = "values"
  /\ IF values < NumberOfSeries
     THEN values' = values + 1 /\ Goto("values")
     ELSE Goto("plot") /\ UNCHANGED values
  /\ UNCHANGED <<ii, behind, log, chart, rows, view, device, crashed, polls, late>>

(* Mutant: the loop ends after the first series.                           *)
PlotFirst ==
  /\ Alive /\ pc = "plot"
  /\ IF ii < NumberOfSeries /\ ii < values /\ ii < series
     THEN points' = [points EXCEPT ![ii + 1] = @ + 1]
     ELSE UNCHANGED points
  /\ Goto("sleep")
  /\ UNCHANGED <<ii, behind, log, values, series, renderers, rows, view, device,
                 crashed, polls, late>>

(* Fewer values than series, or no series yet, throws.                     *)
Plot ==
  /\ Alive /\ pc = "plot"
  /\ IF ii < NumberOfSeries /\ ii < values /\ ii < series
     THEN /\ points' = [points EXCEPT ![ii + 1] = @ + 1]
          /\ ii' = ii + 1
          /\ Goto("plot")
     ELSE Goto("sleep") /\ UNCHANGED <<ii, points>>
  /\ UNCHANGED <<behind, log, values, series, renderers, rows, view, device, crashed,
                 polls, late>>

Poller == Start \/ Sleep \/ Check \/ Build \/ AddRenderer \/ Argument \/ Sample
            \/ Values \/ Plot

-----------------------------------------------------------------------------
(* The main thread.                                                        *)

(* A click on the button flips the widget and m_LogData.                   *)
Toggle ==
  /\ Alive /\ shown /\ toggles < MaxToggles
  /\ logData' = ~logData
  /\ checked' = ~checked
  /\ late' = 0
  /\ toggles' = toggles + 1
  /\ UNCHANGED <<poller, chart, rows, shown, text, destroyed, device, crashed,
                 polls>>

(* Another tab is selected: onDestroyView.                                 *)
Hide ==
  /\ Alive /\ shown
  /\ shown' = FALSE
  /\ UNCHANGED <<poller, chart, rows, logData, checked, text, destroyed, toggles,
                 device, crashed, polls, late>>

(* onActivityCreated: getLineChartView refuses a dataset and a renderer of *)
(* different sizes.  The button's state is restored with the views.        *)
Show ==
  /\ Alive /\ ~shown /\ ~destroyed
  /\ shown' = TRUE /\ text' = TRUE
  /\ crashed' = (series # renderers)
  /\ UNCHANGED <<poller, chart, rows, logData, checked, destroyed, toggles,
                 device, polls, late>>

(* onProgressUpdate writes to a text view that onActivityCreated has found. *)
Progress ==
  /\ Alive /\ published
  /\ published' = FALSE
  /\ crashed' = ~text
  /\ UNCHANGED <<pc, ii, behind, log, values, chart, rows, view, device, polls,
                 late>>

(* The activity goes, and onDestroy closes the hardware, which it must     *)
(* have: only a PhidgetException is caught.  Nothing stops the poller.     *)
Destroy ==
  /\ Alive /\ ~destroyed
  /\ destroyed' = TRUE /\ shown' = FALSE
  /\ linked' = FALSE
  /\ crashed' = ~hardware
  /\ UNCHANGED <<poller, chart, rows, logData, checked, text, toggles, hardware,
                 links, drops, polls, late>>

(* Android restores the tab, destroyed or gone with its process: a new     *)
(* fragment, which gets no bundle and so no hardware, behind views that    *)
(* are restored from their state if they were there.                       *)
Recreate ==
  /\ Recreation /\ Alive
  /\ pc' = "queued" /\ behind' \in BOOLEAN
  /\ ii' = 0 /\ log' = FALSE /\ values' = 0 /\ published' = FALSE
  /\ series' = 0 /\ renderers' = 0 /\ points' = [i \in 1..Sensors |-> 0]
  /\ rows' = 0 /\ late' = 0
  /\ logData' = FALSE
  /\ hardware' = FALSE /\ linked' = FALSE /\ destroyed' = FALSE
  /\ shown' \in IF destroyed THEN BOOLEAN ELSE {shown}
  /\ text' = shown'
  /\ UNCHANGED <<checked, toggles, links, drops, crashed, polls>>

-----------------------------------------------------------------------------
(* The device.                                                             *)

Link ==
  /\ Alive /\ hardware /\ ~destroyed
  /\ ~linked /\ links <= drops
  /\ linked' = TRUE
  /\ links' = links + 1
  /\ UNCHANGED <<poller, chart, rows, view, hardware, drops, crashed, polls, late>>

Drop ==
  /\ Alive /\ linked /\ drops < MaxDrops
  /\ linked' = FALSE
  /\ drops' = drops + 1
  /\ UNCHANGED <<poller, chart, rows, view, hardware, links, crashed, polls, late>>

-----------------------------------------------------------------------------
Next == Poller \/ Toggle \/ Hide \/ Show \/ Progress \/ Destroy \/ Recreate
          \/ Link \/ Drop

(* A poller that the executor has come to is scheduled and its sleep ends; *)
(* no fairness brings it past an endless task, where Start is disabled.    *)
(* The rest happens or not.                                                *)
Spec == Init /\ [][Next]_vars /\ WF_vars(Poller)

-----------------------------------------------------------------------------
(* Properties.                                                             *)

(* Outside the two statements that add a series and its renderer, dataset  *)
(* and renderer agree, so that opening the chart is safe; within them it   *)
(* is not, and nothing keeps the main thread out.                          *)
ChartMatches ==
  /\ series = renderers + (IF pc = "renderer" THEN 1 ELSE 0)
  /\ series > 0 => hardware

(* The tab's own code ends the main thread in three ways only: the tab is  *)
(* shown between those two statements; or, without hardware, being a tab   *)
(* that was restored or of a class that open() does not know, it reports   *)
(* its progress before it had views, or is destroyed.                      *)
ChartCrash ==
  [][crashed' # crashed =>
       \/ ~shown /\ shown' /\ pc = "renderer"
       \/ ~hardware /\ ~text
       \/ ~hardware /\ ~destroyed /\ destroyed']_vars

Stuck == pc \notin {"build", "renderer"} /\ series \notin {0, Sensors}

(* A device dropped while its series were being created leaves some of     *)
(* them, and no number of series ever equals theirs again.                 *)
StuckForGood ==
  [][Stuck => \/ Stuck' /\ points' = points /\ rows' = rows
              \/ ~hardware']_vars

(* How often a connection may have been lost: closing it counts as well.   *)
Losses == drops + (IF destroyed THEN 1 ELSE 0)

(* Only a loss does that: a device that stays linked gets all its series.  *)
StuckNeedsDrop == Stuck => Losses > 0

InFlight(i, j) == IF pc = "plot" /\ i <= ii /\ ii < j THEN 1 ELSE 0
InRound == pc \in {"values", "plot"}

(* The series of a device stay in step, but for one point of the later     *)
(* series for every time the connection was lost.                          *)
SeriesInStep ==
  \A i, j \in 1..Sensors :
    i < j => /\ points[j] <= points[i]
             /\ points[i] <= points[j] + Losses + InFlight(i, j)

(* The log and the graph agree: a logged row that is not in the first      *)
(* series is the current one, or its device was linked or lost during the  *)
(* poll.                                                                   *)
LoggedIsPlotted ==
  rows <= points[1] + links + Losses + (IF InRound THEN 1 ELSE 0)

(* Switching logging off lets at most the poll that has begun log its row. *)
LateRow == ~logData => late <= 1

(* A device that stays linked is sampled again and again, unless it was    *)
(* lost at the wrong moment, or an endless task keeps its poller waiting.  *)
SampledWhileLinked ==
  <>[](linked /\ hardware /\ Alive) =>
     <>(Stuck \/ polls = MaxPolls \/ (pc = "queued" /\ behind))

-----------------------------------------------------------------------------
(* The inductive invariant behind these properties.                        *)

(* Where the poller is bounds what it has built and read.                  *)
PollerInv ==
  /\ pc = "build"    => series = ii
  /\ pc = "renderer" => series = ii + 1 /\ ii < Sensors
  /\ pc \in {"build", "renderer"} =>
       hardware /\ (FixedSeries \/ linked \/ Losses > 0)
  /\ pc \in {"argument", "sample", "values", "plot"} => series \in {0, Sensors}
  /\ pc \in {"argument", "sample", "values"} => ii = 0
  /\ InRound => hardware
  /\ pc = "plot" => ii <= series

(* A text view is missing only where the hardware is, and before the views.*)
ViewInv == ~text => ~shown /\ ~hardware

CountInv ==
  /\ \A i \in 1..Sensors :
       points[i] + (IF InRound /\ ii < i THEN 1 ELSE 0) <= polls
  /\ rows <= polls /\ late <= rows

(* A round that a loss has cut short had that loss to itself.              *)
Cut == InRound /\ (~linked \/ (pc = "plot" /\ values < Sensors))

StepInv ==
  \A i, j \in 1..Sensors :
    i < j => /\ points[j] + InFlight(i, j) <= points[i]
             /\ points[i] + (IF Cut THEN 1 ELSE 0)
                  <= points[j] + Losses + InFlight(i, j)

(* A round whose row will not be plotted was cut short, or the device was  *)
(* linked after Check had found no series: either has been counted.        *)
Unplotted ==
  \/ /\ pc \in {"argument", "sample"}
     /\ series = 0 /\ hardware /\ linked
  \/ /\ pc = "values"
     /\ series = 0 \/ ~linked
  \/ /\ pc = "plot"
     /\ (ii > 0 \/ series = 0 \/ ~linked \/ values = 0)

RowInv ==
  rows + (IF Unplotted THEN 1 ELSE 0)
    <= points[1] + links + Losses + (IF InRound THEN 1 ELSE 0)

LateInv == ~logData => late + (IF pc = "sample" /\ log THEN 1 ELSE 0) <= 1

(* It holds at every interleaving, and implies the safety properties above.*)
PollingInv ==
  /\ ChartMatches /\ StuckNeedsDrop
  /\ PollerInv /\ ViewInv /\ CountInv /\ StepInv /\ RowInv /\ LateInv
=============================================================================
