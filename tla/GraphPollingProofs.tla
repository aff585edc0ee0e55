------------------------- MODULE GraphPollingProofs -------------------------
(***************************************************************************)
(* Proofs about one device tab, for any number of series and any bounds.   *)
(* PollingInv (module GraphPolling) is inductive together with the types;  *)
(* the safety properties of the module follow from it.                     *)
(***************************************************************************)
EXTENDS GraphPolling, TLAPS

Inv == TypeOK /\ PollingInv

(* The invariant holds initially.                                          *)
LEMMA InvInit == Init => Inv
<1> SUFFICES ASSUME Init PROVE Inv
  OBVIOUS
<1> USE PollingAssumption DEF Init
<1>1. TypeOK
  <2>1. points \in [1..Sensors -> 0..MaxPolls]
    OBVIOUS
  <2>2. /\ log \in BOOLEAN /\ published \in BOOLEAN /\ logData \in BOOLEAN
        /\ checked \in BOOLEAN /\ shown \in BOOLEAN /\ text \in BOOLEAN
        /\ hardware \in BOOLEAN /\ linked \in BOOLEAN /\ crashed \in BOOLEAN
        /\ destroyed \in BOOLEAN /\ behind \in BOOLEAN
    OBVIOUS
  <2>3. /\ pc \in Steps
        /\ ii \in 0..Sensors /\ values \in 0..Sensors
        /\ series \in 0..Sensors /\ renderers \in 0..Sensors
    BY DEF Steps
  <2>4. /\ rows \in 0..MaxPolls /\ polls \in 0..MaxPolls /\ late \in 0..MaxPolls
        /\ links \in 0..MaxDrops + 1 /\ drops \in 0..MaxDrops
        /\ toggles \in 0..MaxToggles
    OBVIOUS
  <2> QED BY <2>1, <2>2, <2>3, <2>4 DEF TypeOK
<1>2. PollingInv
  BY DEF PollingInv, ChartMatches, StuckNeedsDrop, Stuck, Losses,
         PollerInv, ViewInv, CountInv, StepInv, RowInv, LateInv, InRound,
         InFlight, Cut, Unplotted
<1> QED BY <1>1, <1>2 DEF Inv

(* Plot adds a point to one series, or leaves the points alone.            *)
LEMMA PlotPoints ==
  ASSUME TypeOK, Plot
  PROVE  \/ /\ ii < NumberOfSeries /\ ii < values /\ ii < series
            /\ ii' = ii + 1 /\ pc' = "plot"
            /\ \A i \in 1..Sensors :
                 points'[i] = IF i = ii + 1 THEN points[i] + 1 ELSE points[i]
         \/ /\ ~(ii < NumberOfSeries /\ ii < values /\ ii < series)
            /\ ii' = ii /\ pc' = "sleep" /\ points' = points
<1>1. CASE ii < NumberOfSeries /\ ii < values /\ ii < series
  <2>1. points' = [points EXCEPT ![ii + 1] = points[ii + 1] + 1] /\ ii' = ii + 1
    BY <1>1 DEF Plot
  <2>2. \A i \in 1..Sensors :
          points'[i] = IF i = ii + 1 THEN points[i] + 1 ELSE points[i]
    BY <2>1 DEF TypeOK
  <2> QED BY <1>1, <2>1, <2>2 DEF Plot, Goto
<1>2. CASE ~(ii < NumberOfSeries /\ ii < values /\ ii < series)
  BY <1>2 DEF Plot, Goto
<1> QED BY <1>1, <1>2

(* Every step preserves the types, ...                                     *)
LEMMA TypeStep == Inv /\ Next => TypeOK'
<1> SUFFICES ASSUME Inv, Next PROVE TypeOK'
  OBVIOUS
<1> USE PollingAssumption DEF Inv, TypeOK, Steps
<1>0. CASE Start
  BY <1>0 DEF Start, chart, view, device
<1>1. CASE Sleep
  BY <1>1 DEF Sleep, Goto, chart, view, device
<1>2. CASE Check
  BY <1>2 DEF Check, Goto, chart, view, device
<1>3. CASE Build
  <2>1. series' \in 0..Sensors
    BY <1>3 DEF Build, PollingInv, PollerInv, NumberOfSeries
  <2>2. pc' \in Steps /\ published' \in BOOLEAN
    BY <1>3 DEF Build, Goto
  <2>3. UNCHANGED <<ii, behind, log, values, renderers, points, rows, view, device,
                    crashed, polls, late>>
    BY <1>3 DEF Build
  <2> QED BY <2>1, <2>2, <2>3 DEF view, device
<1>4. CASE AddRenderer
  <2>1. renderers' \in 0..Sensors /\ ii' \in 0..Sensors
    BY <1>4 DEF AddRenderer, PollingInv, PollerInv, ChartMatches
  <2> QED BY <1>4, <2>1 DEF AddRenderer, Goto, view, device
<1>5. CASE Argument
  BY <1>5 DEF Argument, Goto, chart, view, device
<1>6. CASE Sample
  <2>1. rows' \in 0..MaxPolls /\ late' \in 0..MaxPolls /\ polls' \in 0..MaxPolls
    BY <1>6 DEF Sample, PollingInv, CountInv
  <2>2. pc' \in Steps /\ values' \in 0..Sensors
    BY <1>6 DEF Sample, Goto
  <2>4. published' \in BOOLEAN
    BY <1>6 DEF Sample, Goto
  <2>3. UNCHANGED <<ii, behind, log, chart, view, device, crashed>>
    BY <1>6 DEF Sample
  <2> QED BY <2>1, <2>2, <2>3, <2>4 DEF chart, view, device
<1>7. CASE Values
  BY <1>7 DEF Values, Goto, NumberOfSeries, chart, view, device
<1>8. CASE Plot
  <2>1. CASE ii < NumberOfSeries /\ ii < values /\ ii < series
    <3>1. ii + 1 \in 1..Sensors /\ points[ii + 1] + 1 \in 0..MaxPolls
      BY <1>8, <2>1 DEF Plot, PollingInv, CountInv, InRound
    <3>2. points' = [points EXCEPT ![ii + 1] = points[ii + 1] + 1]
      BY <1>8, <2>1 DEF Plot
    <3>3. points' \in [1..Sensors -> 0..MaxPolls]
      BY <3>1, <3>2
    <3> QED BY <1>8, <2>1, <3>1, <3>3 DEF Plot, Goto, view, device
  <2> QED BY SMTT(40), ZenonT(40), <1>8, <2>1 DEF Plot, Goto, view, device
<1>9. CASE Toggle
  BY <1>9 DEF Toggle, poller, chart, device
<1>10. CASE Hide
  <2>1. UNCHANGED <<poller, chart, rows, logData, checked, text, destroyed, toggles,
                    device, crashed, polls, late>>
    BY <1>10 DEF Hide
  <2>2. shown' \in BOOLEAN
    BY <1>10 DEF Hide
  <2> QED BY <2>1, <2>2 DEF poller, chart, device
<1>11. CASE Show
  BY <1>11 DEF Show, poller, chart, device
<1>12. CASE Progress
  BY ZenonT(60), <1>12 DEF Progress, chart, view, device
<1>13. CASE Recreate
  <2>1. /\ points' \in [1..Sensors -> 0..MaxPolls]
        /\ pc' \in Steps /\ ii' \in 0..Sensors /\ values' \in 0..Sensors
        /\ series' \in 0..Sensors /\ renderers' \in 0..Sensors
        /\ rows' \in 0..MaxPolls /\ late' \in 0..MaxPolls
    BY <1>13 DEF Recreate
  <2>2. /\ log' \in BOOLEAN /\ published' \in BOOLEAN /\ logData' \in BOOLEAN
        /\ hardware' \in BOOLEAN /\ linked' \in BOOLEAN /\ destroyed' \in BOOLEAN
        /\ behind' \in BOOLEAN
    BY <1>13 DEF Recreate
  <2>4. shown' \in BOOLEAN /\ text' \in BOOLEAN
    BY ZenonT(30), <1>13 DEF Recreate
  <2>3. UNCHANGED <<checked, toggles, links, drops, crashed, polls>>
    BY <1>13 DEF Recreate
  <2> QED BY <2>1, <2>2, <2>3, <2>4
<1>14. CASE Link
  BY <1>14 DEF Link, poller, chart, view
<1>15. CASE Drop
  <2>1. drops' \in 0..MaxDrops
    BY <1>15 DEF Drop
  <2>3. linked' \in BOOLEAN
    BY <1>15 DEF Drop
  <2>2. UNCHANGED <<poller, chart, rows, view, hardware, links, crashed, polls, late>>
    BY <1>15 DEF Drop
  <2> QED BY <2>1, <2>2, <2>3 DEF poller, chart, view
<1>16. CASE Destroy
  BY ZenonT(30), <1>16 DEF Destroy, poller, chart
<1> QED
  BY <1>0, <1>1, <1>2, <1>3, <1>4, <1>5, <1>6, <1>7, <1>8, <1>9, <1>10, <1>11,
     <1>12, <1>13, <1>14, <1>15, <1>16 DEF Next, Poller

(* ... what the poller has built, and the views.                           *)
LEMMA BuildStep == Inv /\ Next => (ChartMatches /\ StuckNeedsDrop /\ PollerInv /\ ViewInv)'
<1> SUFFICES ASSUME Inv, Next PROVE (ChartMatches /\ StuckNeedsDrop /\ PollerInv /\ ViewInv)'
  OBVIOUS
<1> USE PollingAssumption
    DEF Inv, TypeOK, Steps, PollingInv, ChartMatches, StuckNeedsDrop,
        Stuck, Losses, PollerInv, ViewInv, InRound, NumberOfSeries, Goto, view,
        chart, device, poller
<1>0. CASE Start
  BY <1>0 DEF Start
<1>1. CASE Sleep
  BY <1>1 DEF Sleep
<1>2. CASE Check
  BY <1>2 DEF Check
<1>3. CASE Build
  BY <1>3 DEF Build
<1>4. CASE AddRenderer
  BY <1>4 DEF AddRenderer
<1>5. CASE Argument
  BY <1>5 DEF Argument
<1>6. CASE Sample
  BY <1>6 DEF Sample
<1>7. CASE Values
  BY <1>7 DEF Values
<1>8. CASE Plot
  BY <1>8 DEF Plot
<1>9. CASE Toggle \/ Progress
  <2>1. UNCHANGED <<pc, ii, series, renderers, hardware, linked, drops,
                  destroyed, shown, text>>
    BY <1>9 DEF Toggle, Progress
  <2> QED BY <2>1
<1>10. CASE Recreate
  BY <1>10 DEF Recreate
<1>13. CASE Hide
  BY <1>13 DEF Hide
<1>14. CASE Show
  BY <1>14 DEF Show
<1>11. CASE Link
  BY <1>11 DEF Link
<1>12. CASE Drop
  BY <1>12 DEF Drop
<1>15. CASE Destroy
  BY <1>15 DEF Destroy
<1> QED
  BY <1>0, <1>1, <1>2, <1>3, <1>4, <1>5, <1>6, <1>7, <1>8, <1>9, <1>10, <1>11,
     <1>12, <1>13, <1>14, <1>15
     DEF Next, Poller

(* ... the counts of points and rows against that of the samples.          *)
LEMMA CountStep == Inv /\ Next => CountInv'
<1> SUFFICES ASSUME Inv, Next PROVE CountInv'
  OBVIOUS
<1> USE PollingAssumption
    DEF Inv, TypeOK, Steps, PollingInv, CountInv, PollerInv, InRound,
        NumberOfSeries, Goto, view, chart, device, poller
<1>0. CASE Start
  BY <1>0 DEF Start
<1>1. CASE Sleep
  BY <1>1 DEF Sleep
<1>2. CASE Check
  BY <1>2 DEF Check
<1>3. CASE Build
  BY <1>3 DEF Build
<1>4. CASE AddRenderer
  BY <1>4 DEF AddRenderer
<1>5. CASE Argument
  BY <1>5 DEF Argument
<1>6. CASE Sample
  BY <1>6 DEF Sample
<1>7. CASE Values
  BY <1>7 DEF Values
<1>8. CASE Plot
  <2>1. /\ UNCHANGED <<behind, log, values, series, renderers, rows, view,
                        device, crashed, polls, late>>
        /\ pc = "plot"
    BY <1>8 DEF Plot
  <2>2. rows' <= polls' /\ late' <= rows'
    BY <2>1
  <2>3. ASSUME NEW i \in 1..Sensors
        PROVE  points'[i] + (IF InRound' /\ ii' < i THEN 1 ELSE 0) <= polls'
    BY SMTT(20), ZenonT(20), <1>8, <2>1, PlotPoints
  <2> QED BY <2>2, <2>3
<1>9. CASE Toggle \/ Hide \/ Show \/ Progress
  <2>1. UNCHANGED <<pc, ii, points, polls, rows>> /\ late' \in {0, late}
    BY <1>9 DEF Toggle, Hide, Show, Progress
  <2> QED BY <2>1
<1>10. CASE Recreate
  BY <1>10 DEF Recreate
<1>11. CASE Link
  BY <1>11 DEF Link
<1>12. CASE Drop
  BY <1>12 DEF Drop
<1>13. CASE Destroy
  BY <1>13 DEF Destroy
<1> QED
  BY <1>0, <1>1, <1>2, <1>3, <1>4, <1>5, <1>6, <1>7, <1>8, <1>9, <1>10, <1>11,
     <1>12, <1>13 DEF Next, Poller

(* ... the distance between two series.  Only Plot moves them apart.        *)
LEMMA InStepStep == Inv /\ Next => StepInv'
<1> SUFFICES ASSUME Inv, Next PROVE StepInv'
  OBVIOUS
<1> USE PollingAssumption
    DEF Inv, TypeOK, Steps, PollingInv, StepInv, PollerInv, InFlight, Cut,
        Losses, InRound, NumberOfSeries, Goto, view, chart, device, poller
<1>0. CASE Start
  BY <1>0 DEF Start
<1>1. CASE Sleep
  BY <1>1 DEF Sleep
<1>2. CASE Check
  BY <1>2 DEF Check
<1>3. CASE Build
  BY <1>3 DEF Build
<1>4. CASE AddRenderer
  BY <1>4 DEF AddRenderer
<1>5. CASE Argument
  BY <1>5 DEF Argument
<1>6. CASE Sample
  BY <1>6 DEF Sample
<1>7. CASE Values
  BY <1>7 DEF Values
<1>8. CASE Plot
  <2>1. /\ UNCHANGED <<behind, log, values, series, renderers, rows, view,
                        device, crashed, polls, late>>
        /\ pc = "plot"
    BY <1>8 DEF Plot
  <2>2. ASSUME NEW i \in 1..Sensors, NEW j \in 1..Sensors, i < j
        PROVE  /\ points'[j] + InFlight(i, j)' <= points'[i]
               /\ points'[i] + (IF Cut' THEN 1 ELSE 0)
                    <= points'[j] + Losses' + InFlight(i, j)'
    <3>1. /\ points[j] + InFlight(i, j) <= points[i]
          /\ points[i] + (IF Cut THEN 1 ELSE 0) <= points[j] + Losses + InFlight(i, j)
      BY <2>2
    <3>2. /\ points[i] \in Nat /\ points[j] \in Nat
          /\ Losses \in Nat /\ ii \in Nat /\ values \in 0..Sensors
      BY <2>2
    <3>3. CASE ii < NumberOfSeries /\ ii < values /\ ii < series
      <4>1. /\ points'[i] = IF i = ii + 1 THEN points[i] + 1 ELSE points[i]
            /\ points'[j] = IF j = ii + 1 THEN points[j] + 1 ELSE points[j]
            /\ ii' = ii + 1 /\ pc' = "plot"
        BY <1>8, <2>2, <3>2, <3>3, PlotPoints
      <4>2. (IF Cut' THEN 1 ELSE 0) = (IF Cut THEN 1 ELSE 0) /\ Losses' = Losses
        BY <2>1, <4>1
      <4>3. /\ InFlight(i, j)  = IF i <= ii /\ ii < j THEN 1 ELSE 0
            /\ InFlight(i, j)' = IF i <= ii + 1 /\ ii + 1 < j THEN 1 ELSE 0
        BY <2>1, <4>1
      <4> HIDE DEF Inv, InFlight, Cut, Losses
      <4> QED BY <2>2, <3>1, <3>2, <4>1, <4>2, <4>3
    <3>4. CASE ~(ii < NumberOfSeries /\ ii < values /\ ii < series)
      <4>1. points'[i] = points[i] /\ points'[j] = points[j] /\ pc' = "sleep"
        BY <1>8, <2>2, <3>2, <3>4, PlotPoints
      <4>2. InFlight(i, j)' = 0 /\ ~Cut' /\ Losses' = Losses
        BY <2>1, <4>1
      <4>3. InFlight(i, j) = 1 => Cut
        BY <2>1, <2>2, <3>2, <3>4
      <4>4. InFlight(i, j) \in {0, 1}
        OBVIOUS
      <4> HIDE DEF Inv, InFlight, Cut, Losses
      <4> QED BY <2>2, <3>1, <3>2, <4>1, <4>2, <4>3, <4>4
    <3> QED BY <3>3, <3>4
  <2> QED BY <2>2
<1>9. CASE Toggle \/ Hide \/ Show \/ Progress
  <2>1. UNCHANGED <<pc, ii, values, points, linked, drops, destroyed>>
    BY <1>9 DEF Toggle, Hide, Show, Progress
  <2> QED BY <2>1
<1>10. CASE Recreate
  BY <1>10 DEF Recreate
<1>11. CASE Link
  BY SMTT(40), <1>11 DEF Link
<1>12. CASE Drop
  BY SMTT(60), <1>12 DEF Drop
<1>13. CASE Destroy
  BY SMTT(40), <1>13 DEF Destroy
<1> QED
  BY <1>0, <1>1, <1>2, <1>3, <1>4, <1>5, <1>6, <1>7, <1>8, <1>9, <1>10, <1>11,
     <1>12, <1>13 DEF Next, Poller

(* ... the distance between the log and the first series.                  *)
LEMMA RowStep == Inv /\ Next => RowInv'
<1> SUFFICES ASSUME Inv, Next PROVE RowInv'
  OBVIOUS
<1> USE PollingAssumption
    DEF Inv, TypeOK, Steps, PollingInv, RowInv, PollerInv, Unplotted,
        Losses, InRound, NumberOfSeries, Goto, view, chart, device, poller
<1>0. CASE Start
  BY <1>0 DEF Start
<1>1. CASE Sleep
  BY <1>1 DEF Sleep
<1>2. CASE Check
  BY <1>2 DEF Check
<1>3. CASE Build
  BY <1>3 DEF Build
<1>4. CASE AddRenderer
  BY <1>4 DEF AddRenderer
<1>5. CASE Argument
  BY <1>5 DEF Argument
<1>6. CASE Sample
  BY SMTT(40), <1>6 DEF Sample
<1>7. CASE Values
  BY <1>7 DEF Values
<1>8. CASE Plot
  <2>1. /\ UNCHANGED <<behind, log, values, series, renderers, rows, view,
                        device, crashed, polls, late>>
        /\ pc = "plot"
    BY <1>8 DEF Plot
  <2>2. CASE ii < NumberOfSeries /\ ii < values /\ ii < series
    <3>1. /\ points'[1] = IF ii = 0 THEN points[1] + 1 ELSE points[1]
          /\ ii' = ii + 1 /\ pc' = "plot"
      BY SMTT(30), <1>8, <2>2, PlotPoints
    <3>2. /\ rows \in Nat /\ points[1] \in Nat /\ links \in Nat /\ Losses \in Nat
          /\ ii \in Nat
      OBVIOUS
    <3>3. Unplotted' /\ (ii > 0 => Unplotted)
      BY <2>1, <3>1, <3>2
    <3>4. rows + (IF Unplotted THEN 1 ELSE 0) <= points[1] + links + Losses + 1
      BY <2>1
    <3>5. rows' = rows /\ links' = links /\ Losses' = Losses /\ InRound'
      BY <2>1, <3>1
    <3> HIDE DEF Inv, Unplotted, InRound, Losses
    <3> QED BY <3>1, <3>2, <3>3, <3>4, <3>5
  <2>3. CASE ~(ii < NumberOfSeries /\ ii < values /\ ii < series)
    BY SMTT(60), <1>8, <2>1, <2>3, PlotPoints
  <2> QED BY <2>2, <2>3
<1>9. CASE Toggle \/ Hide \/ Show \/ Progress
  <2>1. UNCHANGED <<pc, ii, values, series, points, rows, hardware, linked, links,
                  drops, destroyed>>
    BY <1>9 DEF Toggle, Hide, Show, Progress
  <2> QED BY <2>1
<1>10. CASE Recreate
  BY <1>10 DEF Recreate
<1>11. CASE Link
  BY <1>11 DEF Link
<1>12. CASE Drop
  BY SMTT(40), <1>12 DEF Drop
<1>13. CASE Destroy
  BY <1>13 DEF Destroy
<1> QED
  BY <1>0, <1>1, <1>2, <1>3, <1>4, <1>5, <1>6, <1>7, <1>8, <1>9, <1>10, <1>11,
     <1>12, <1>13 DEF Next, Poller

(* ... the rows logged after logging was switched off.                     *)
LEMMA LateStep == Inv /\ Next => LateInv'
<1> SUFFICES ASSUME Inv, Next PROVE LateInv'
  OBVIOUS
<1> USE PollingAssumption
    DEF Inv, TypeOK, Steps, PollingInv, LateInv, NumberOfSeries, Goto,
        view, chart, device, poller
<1>0. CASE Start
  BY <1>0 DEF Start
<1>1. CASE Sleep
  BY <1>1 DEF Sleep
<1>2. CASE Check
  BY <1>2 DEF Check
<1>3. CASE Build
  BY <1>3 DEF Build
<1>4. CASE AddRenderer
  BY <1>4 DEF AddRenderer
<1>5. CASE Argument
  BY <1>5 DEF Argument
<1>6. CASE Sample
  BY <1>6 DEF Sample
<1>7. CASE Values
  BY <1>7 DEF Values
<1>8. CASE Plot
  BY <1>8 DEF Plot
<1>9. CASE Toggle \/ Hide \/ Show \/ Progress
  BY SMTT(30), <1>9 DEF Toggle, Hide, Show, Progress
<1>10. CASE Recreate
  BY <1>10 DEF Recreate
<1>11. CASE Link \/ Drop \/ Destroy
  BY SMTT(40), <1>11 DEF Link, Drop, Destroy
<1> QED
  BY <1>0, <1>1, <1>2, <1>3, <1>4, <1>5, <1>6, <1>7, <1>8, <1>9, <1>10, <1>11
     DEF Next, Poller

(* Every step preserves the invariant.                                     *)
LEMMA InvStep == Inv /\ [Next]_vars => Inv'
<1> SUFFICES ASSUME Inv, [Next]_vars
             PROVE  Inv'
  OBVIOUS
<1>1. CASE Next
  BY <1>1, TypeStep, BuildStep, CountStep, InStepStep, RowStep, LateStep
     DEF Inv, PollingInv
<1>2. CASE UNCHANGED vars
  <2>1. TypeOK'
    BY <1>2 DEF Inv, TypeOK, Steps, vars, poller, chart, view, device
  <2>2. (ChartMatches /\ StuckNeedsDrop /\ PollerInv /\ ViewInv /\ LateInv)'
    BY <1>2 DEF Inv, PollingInv, ChartMatches, StuckNeedsDrop, Stuck, Losses,
                PollerInv, ViewInv, LateInv, InRound, vars, poller, chart, view, device
  <2>3. (CountInv /\ StepInv /\ RowInv)'
    BY <1>2 DEF Inv, PollingInv, CountInv, StepInv, RowInv, InFlight, Cut,
                Losses, Unplotted, InRound, vars, poller, chart, view, device
  <2> QED BY <2>1, <2>2, <2>3 DEF Inv, PollingInv
<1> QED BY <1>1, <1>2

-----------------------------------------------------------------------------
(* The types and the inductive invariant hold in every reachable state:     *)
(* what the poller, the main thread and the device leave in the fields of   *)
(* PhidgetGraphViewTab at every point of their interleaving.                *)
THEOREM Invariance == Spec => []Inv
<1>1. Init => Inv
  BY InvInit
<1>2. Inv /\ [Next]_vars => Inv'
  BY InvStep
<1> QED BY <1>1, <1>2, PTL DEF Spec

(* Every variable keeps its type: no series, value or row beyond the sensors *)
(* of the device and the samples taken, whatever drops in between.          *)
THEOREM TypeCorrect == Spec => []TypeOK
<1>1. Inv => TypeOK
  BY DEF Inv
<1> QED BY <1>1, Invariance, PTL

(* The inductive invariant of the runs: where the poller is bounds what it   *)
(* has built, read, plotted and logged.                                     *)
THEOREM PollerAccounted == Spec => []PollingInv
<1>1. Inv => PollingInv
  BY DEF Inv
<1> QED BY <1>1, Invariance, PTL

(* Dataset and renderer differ only between the two statements that add to  *)
(* them, for a device with any number of series.                            *)
THEOREM ChartsMatch == Spec => []ChartMatches
<1>1. Inv => ChartMatches
  BY DEF Inv, PollingInv
<1> QED BY <1>1, Invariance, PTL

(* A tab is stuck with some of its series only if its device was lost, by a *)
(* drop or because the tab was destroyed.                                   *)
THEOREM StuckOnlyByDrop == Spec => []StuckNeedsDrop
<1>1. Inv => StuckNeedsDrop
  BY DEF Inv, PollingInv
<1> QED BY <1>1, Invariance, PTL

(* No loss, however it falls into a round of polling, takes two series of a *)
(* device further apart than by one point.                                  *)
THEOREM SeriesStayInStep == Spec => []SeriesInStep
<1>1. Inv => SeriesInStep
  <2> SUFFICES ASSUME Inv, NEW i \in 1..Sensors, NEW j \in 1..Sensors, i < j
               PROVE  /\ points[j] <= points[i]
                      /\ points[i] <= points[j] + Losses + InFlight(i, j)
    BY DEF SeriesInStep
  <2>1. /\ points[j] + InFlight(i, j) <= points[i]
        /\ points[i] + (IF Cut THEN 1 ELSE 0) <= points[j] + Losses + InFlight(i, j)
    BY DEF Inv, PollingInv, StepInv
  <2>2. points[i] \in Nat /\ points[j] \in Nat /\ Losses \in Nat
    BY SMTT(20), ZenonT(20), PollingAssumption DEF Inv, TypeOK, Losses
  <2>3. InFlight(i, j) \in {0, 1}
    BY DEF InFlight
  <2> QED BY <2>1, <2>2, <2>3
<1> QED BY <1>1, Invariance, PTL

(* A logged row is missing from the graph only for a link or a loss.        *)
THEOREM RowsArePlotted == Spec => []LoggedIsPlotted
<1>1. Inv => LoggedIsPlotted
  <2> SUFFICES ASSUME Inv PROVE LoggedIsPlotted
    OBVIOUS
  <2>1. rows + (IF Unplotted THEN 1 ELSE 0)
          <= points[1] + links + Losses + (IF InRound THEN 1 ELSE 0)
    BY DEF Inv, PollingInv, RowInv
  <2>2. rows \in Nat /\ points[1] \in Nat /\ Losses \in Nat /\ links \in Nat
    BY PollingAssumption DEF Inv, TypeOK, Losses
  <2> QED BY <2>1, <2>2 DEF LoggedIsPlotted
<1> QED BY <1>1, Invariance, PTL

(* At most one row is logged once logging has been switched off.            *)
THEOREM AtMostOneLateRow == Spec => []LateRow
<1>1. Inv => LateRow
  BY DEF Inv, PollingInv, LateInv, LateRow, TypeOK
<1> QED BY <1>1, Invariance, PTL

(* The tab's own code ends the main thread only through a half-built chart, *)
(* or for want of a hardware object: at the progress of a tab that never    *)
(* had its views, and when the tab is destroyed.                            *)
THEOREM CrashesExplained == Spec => ChartCrash
<1> DEFINE Explained == \/ ~shown /\ shown' /\ pc = "renderer"
                        \/ ~hardware /\ ~text
                        \/ ~hardware /\ ~destroyed /\ destroyed'
<1>1. Inv /\ [Next]_vars => [crashed' # crashed => Explained]_vars
  <2> SUFFICES ASSUME Inv, Next, crashed' # crashed
               PROVE  Explained
    OBVIOUS
  <2>1. Show \/ Progress \/ Destroy
    BY DEF Next, Poller, Start, Sleep, Check, Build, AddRenderer, Argument, Sample,
           Values, Plot, Toggle, Hide, Recreate, Link, Drop
  <2>2. CASE Show
    BY <2>2 DEF Show, Alive, Inv, PollingInv, ChartMatches, TypeOK, view
  <2>3. CASE Progress
    BY <2>3 DEF Progress, Alive, Inv, PollingInv, ViewInv, TypeOK, view
  <2>4. CASE Destroy
    BY <2>4 DEF Destroy, Alive, Inv, TypeOK
  <2> QED BY <2>1, <2>2, <2>3, <2>4
<1> QED BY <1>1, Invariance, PTL DEF Spec, ChartCrash

(* A tab that is stuck plots and logs nothing until it is created anew.     *)
THEOREM StuckIsForGood == Spec => StuckForGood
<1>1. Inv /\ [Next]_vars =>
        [Stuck => \/ Stuck' /\ points' = points /\ rows' = rows
                  \/ ~hardware']_vars
  <2> SUFFICES ASSUME Inv, Next, Stuck
               PROVE  \/ Stuck' /\ points' = points /\ rows' = rows
                      \/ ~hardware'
    OBVIOUS
  <2>1. pc \in {"queued", "sleep", "check"}
    BY DEF Stuck, Inv, PollingInv, PollerInv, TypeOK, Steps
  <2>2. CASE Start \/ Sleep \/ Check
    BY <2>2 DEF Start, Sleep, Check, Goto, NumberOfSeries, Stuck, Inv, TypeOK, chart
  <2>3. CASE Recreate
    BY <2>3 DEF Recreate
  <2>4. CASE Toggle \/ Hide \/ Show \/ Progress \/ Destroy \/ Link \/ Drop
    BY <2>1, <2>4 DEF Toggle, Hide, Show, Progress, Destroy, Link, Drop, Stuck,
                      poller, chart
  <2>5. ~(Build \/ AddRenderer \/ Argument \/ Sample \/ Values \/ Plot)
    BY <2>1 DEF Build, AddRenderer, Argument, Sample, Values, Plot
  <2> QED BY <2>2, <2>3, <2>4, <2>5 DEF Next, Poller
<1> QED BY <1>1, Invariance, PTL DEF Spec, StuckForGood
=============================================================================
