---------------------------- MODULE MCRecClock -----------------------------
(* The policy and the windows of the graphs on one clock.                  *)
EXTENDS RecClock, GraphRange

\* The clock goes forward or back by an hour at two in the morning of any day
\* that a window can reach.
Calendars == [at : {2 * Hour + d * Day : d \in -7 .. 2}, shift : {Hour, -Hour}]

\* loggerWebGraphRange.c:89-254: at every moment of two days, whatever night
\* the clock is changed in.
WindowsHoldNow == \A calendar \in Calendars : WindowsHold(calendar, now)

=============================================================================
