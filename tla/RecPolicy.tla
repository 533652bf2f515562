----------------------------- MODULE RecPolicy -----------------------------
(***************************************************************************)
(* house/rec.c: which recommendation a reading deserves at a local time,   *)
(* and how long that recommendation is then kept quiet.                    *)
(*                                                                         *)
(* Times are whole numbers counted from some local midnight.  localtime()  *)
(* is the remainder by the day: one time zone, no daylight-saving change,  *)
(* and a struct tm of the caller's own.                                    *)
(***************************************************************************)
EXTENDS Rec, Integers

CONSTANTS dayTimeSeconds,        \* 86400
          closeWindowSeconds,    \* ALLOW_CLOSE_AFTER_HOUR, 3:00
          openWindowSeconds,     \* ALLOW_OPEN_AFTER_HOUR, 15:00
          MARGIN                 \* 0 in settings.h

ASSUME WindowAssumption ==
    /\ dayTimeSeconds \in Nat /\ closeWindowSeconds \in Nat /\ openWindowSeconds \in Nat
    /\ 0 < closeWindowSeconds
    /\ closeWindowSeconds < openWindowSeconds
    /\ openWindowSeconds < dayTimeSeconds
    /\ MARGIN \in Nat

\* Seconds since midnight in the struct tm that localtime() fills.
localTotal(now) == now % dayTimeSeconds

\* Mutant: no late check for the close window.
withinWindow_NoLate(rec, now) ==
    /\ rec = REC_CLOSE => localTotal(now) >= closeWindowSeconds
    /\ rec = REC_OPEN => localTotal(now) >= openWindowSeconds

\* No check applies to REC_NONE, which is always "within".
withinWindow(rec, now) ==
    /\ rec = REC_CLOSE => /\ localTotal(now) >= closeWindowSeconds
                          /\ localTotal(now) < openWindowSeconds
    /\ rec = REC_OPEN => localTotal(now) >= openWindowSeconds

getRecForTime(house, outside_air, now) ==
    LET diff == outside_air - house
    IN  IF diff <= -MARGIN /\ withinWindow(REC_OPEN, now) THEN REC_OPEN
        ELSE IF diff >= MARGIN /\ withinWindow(REC_CLOSE, now) THEN REC_CLOSE
        ELSE REC_NONE

\* Mutant: an open notification is quiet until the next open window.
secUntilWindow_SameKind(rec, now) ==
    CASE rec = REC_NONE  -> 0
      [] rec = REC_OPEN  -> (dayTimeSeconds - localTotal(now)) + openWindowSeconds
      [] rec = REC_CLOSE -> openWindowSeconds - localTotal(now)

\* An open notification is quiet until tomorrow's close window, a close
\* notification until today's open window.
secUntilWindow(rec, now) ==
    CASE rec = REC_NONE  -> 0
      [] rec = REC_OPEN  -> (dayTimeSeconds - localTotal(now)) + closeWindowSeconds
      [] rec = REC_CLOSE -> openWindowSeconds - localTotal(now)

-----------------------------------------------------------------------------
(* What the properties compare the policy with.                            *)

Opposite(rec) == IF rec = REC_OPEN THEN REC_CLOSE ELSE REC_OPEN

\* The first moment of one of rec's windows.
WindowStarts(rec, t) == withinWindow(rec, t) /\ ~withinWindow(rec, t - 1)

=============================================================================
