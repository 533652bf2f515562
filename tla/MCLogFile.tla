----------------------------- MODULE MCLogFile -----------------------------
(* The rows of the poller and of the worker.                               *)
EXTENDS LogFile

CONSTANT worker

Reading(speed) == [column \in Columns \cup {FanSpeed} |-> IF column = FanSpeed THEN speed ELSE 70]

RowsOfThreads ==
    [t \in Thread |->
        IF t = Poller THEN {[num |-> Reading(1), event |-> "idle"]}
        ELSE {[num |-> Reading(0), event |-> "open notif"],
              [num |-> Reading(2), event |-> "close notif"],
              [num |-> NoNum, event |-> "Sleeping"]}]

=============================================================================
