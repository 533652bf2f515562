----------------------------- MODULE GraphRange -----------------------------
(***************************************************************************)
(* The windows of time a graph shows (loggerWebGraphRange.c) and those its *)
(* statistics cover, in a calendar whose clock is changed once.  Where the *)
(* C library may choose, as for a local time that happens twice or never,  *)
(* an operator returns the set of what it may answer.                      *)
(***************************************************************************)
EXTENDS Integers

CONSTANT Hour          \* units of time in an hour

ASSUME HourAssumption == Hour \in Nat \ {0}

Day == 24 * Hour

\* Until the time at the local clock is the time itself, from then on it is
\* shifted.
Local(calendar, t) == IF t < calendar.at THEN t ELSE t + calendar.shift

\* tm_isdst = -1.
mktime(calendar, local) ==
    LET guesses == {local, local - calendar.shift}
        exact == {t \in guesses : Local(calendar, t) = local}
    IN  IF exact = {} THEN guesses ELSE exact

localDayStart(calendar, value, day_offset) ==
    mktime(calendar, (Local(calendar, value) \div Day + day_offset) * Day)

EvenHour(local) == (local \div (2 * Hour)) * 2 * Hour

\* Mutant: only the hour decides, minutes and seconds are cut off.
DayEnd_ByHour(local) ==
    EvenHour(local) + (IF (local \div Hour) % 2 # 0 THEN 2 * Hour ELSE 0)

DayEnd(local) == EvenHour(local) + (IF local % (2 * Hour) # 0 THEN 2 * Hour ELSE 0)

\* From the even hour of a day ago to the next even hour.
graphDayWindow(calendar, t) ==
    LET local == Local(calendar, t)
    IN  mktime(calendar, EvenHour(local) - Day) \X mktime(calendar, DayEnd(local))

\* loggerWebSendGraphData falls back to whole days up to now when there is no
\* such window.
loggerWebGraphRangeWindow(range, calendar, t) ==
    LET days(n) == localDayStart(calendar, t, -n) \X localDayStart(calendar, t, 1)
    IN  CASE range = "day" -> {IF w[1] < w[2] THEN w ELSE <<t - Day, t>> :
                                  w \in graphDayWindow(calendar, t)}
          [] range = "three-days" -> days(2)
          [] range = "week" -> days(6)

\* The day's statistics start at midnight, but never more than 24 hours ago.
loggerWebGraphStatsWindow(range, calendar, t) ==
    LET from(n) == localDayStart(calendar, t, -n)
    IN  {<<s, t>> : s \in CASE range = "day" -> {IF t - Day > s THEN t - Day ELSE s : s \in from(0)}
                            [] range = "three-days" -> from(2)
                            [] range = "week" -> from(6)}

-----------------------------------------------------------------------------
(* What a window promises.                                                 *)

\* A window is not empty and the moment it is asked for lies in it, though a
\* clock change within the hour may move its end; the statistics never reach
\* back before what the graph draws.
WindowsHold(calendar, t) ==
    \A range \in {"day", "three-days", "week"} :
        \A w \in loggerWebGraphRangeWindow(range, calendar, t) :
            /\ w[1] < w[2] /\ w[1] <= t
            /\ t <= w[2] \/ (calendar.at - Hour <= t /\ t <= calendar.at + Hour)
            /\ \A s \in loggerWebGraphStatsWindow(range, calendar, t) :
                  w[1] <= s[1] /\ s[1] <= s[2]

=============================================================================
