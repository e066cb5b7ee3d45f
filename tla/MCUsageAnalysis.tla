---------------------------- MODULE MCUsageAnalysis ----------------------------
(* Days of six hours, from the pass in hour 4 to the next: hours 4 5 0 1 2 3. *)
EXTENDS UsageAnalysis

Home == <<2, 3, 1, 0, 0, 3>>
Away == <<0, 0, 0, 0, 0, 0>>
Drip == <<1, 1, 1, 1, 1, 1>>
MCPatterns == {Home, Away, Drip}
MCOrdinary == {Home, Away}

\* Never offline, or from the evening through the night.
MCStretches == {{}, {1, 2, 3, 4}}

MCTierLimits == [info |-> 1, warning |-> 7, urgent |-> 13]
\* A device that keeps weekday averages, one that only keeps an overall one, and
\* one that keeps none.
Told(average, deviation) == [average |-> average, deviation |-> deviation, updated |-> 4]
Unknown == [average |-> None, deviation |-> None, updated |-> None]
EveryDay(slot) == [w \in 0..(WeekDays - 1) |-> slot]
MCDevices ==
  {[slots |-> EveryDay(Told(9, 1)), overall |-> Told(6, None)],
   [slots |-> EveryDay(Unknown), overall |-> Told(6, None)],
   [slots |-> EveryDay(Unknown), overall |-> Unknown]}

=============================================================================
