------------------------------ MODULE RecClock ------------------------------
(***************************************************************************)
(* The policy of house/rec.c while time passes and the temperatures change *)
(* as they like.                                                           *)
(***************************************************************************)
EXTENDS RecPolicy

CONSTANTS Temps,      \* the temperatures, a set of integers
          MaxNow      \* bound on the clock

ASSUME TempsAssumption == Temps \subseteq Int

VARIABLES now, house, outside_air

vars == <<now, house, outside_air>>

Init == now = 0 /\ house \in Temps /\ outside_air \in Temps

Next ==
    /\ now < MaxNow
    /\ now' = now + 1
    /\ house' \in Temps /\ outside_air' \in Temps

Spec == Init /\ [][Next]_vars

-----------------------------------------------------------------------------
(* Properties.                                                             *)

TypeOK == now \in Nat /\ house \in Temps /\ outside_air \in Temps

\* notification_lock.c:22 "before the next recommendation window begins" and
\* notification_worker.c:192: counted from any moment at which rec may be
\* recommended, secUntilWindow is positive, ends exactly where a window of
\* the opposite recommendation starts, and skips none, at midnight too.
QuietEndsAtNextWindow ==
    \A rec \in Kind : withinWindow(rec, now) =>
        LET until == now + secUntilWindow(rec, now)
        IN  /\ until > now
            /\ WindowStarts(Opposite(rec), until)
            /\ \A t \in now .. until - 1 : ~withinWindow(Opposite(rec), t)

\* The poller and the web controls ask at the same moment with different
\* readings: one of them may see no recommendation, never the opposite one.
OneKindAtATime ==
    \A h, o \in Temps :
        LET rec == getRecForTime(house, outside_air, now)
        IN  rec # REC_NONE => getRecForTime(h, o, now) # Opposite(rec)

=============================================================================
