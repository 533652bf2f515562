---------------------------- MODULE LockHistory ----------------------------
(***************************************************************************)
(* NotificationLock driven by any sequence of marks and crashes, with what *)
(* the callers know: "told" holds the slots as the calls that returned 1   *)
(* left them, "attempt" the same with the mark that is being written,      *)
(* "lost" the slots that a call took from the file without being asked to  *)
(* (it ended between the remove and the rename, or its read had failed),   *)
(* and "losing" what "lost" will be when the running call returns 1.       *)
(***************************************************************************)
EXTENDS NotificationLock

ASSUME LockAssumption ==
    /\ Time \subseteq Nat
    /\ NoFile \notin [Kind -> Nat] /\ Partial \notin [Kind -> Nat]
    /\ NoFile # Partial

VARIABLES told, attempt, lost, losing

vars == <<lockVars, told, attempt, lost, losing>>

HInit == Init /\ told = NoUntil /\ attempt = NoUntil /\ lost = {} /\ losing = {}

Mark(rec, until) ==
    /\ \E slots \in Reads :
          /\ MarkSent(rec, until, slots)
          /\ losing' = {r \in Kind \ {rec} : r \in lost \/ slots[r] # OnDisk[r]}
    /\ attempt' = [told EXCEPT ![rec] = until]
    /\ UNCHANGED <<told, lost>>

Write == (CloseTmp \/ RemoveOld) /\ UNCHANGED <<told, attempt, lost, losing>>

Return1 == RenameTmp /\ told' = attempt /\ lost' = losing /\ UNCHANGED <<attempt, losing>>

\* The call ends with the old file removed and the new one not in its place.
Cut == lockPc = "rename" /\ lockFile = NoFile

Stopped ==
    /\ lost' = IF Cut THEN Kind ELSE lost
    /\ UNCHANGED <<told, attempt, losing>>

Return0 == (CloseTmpFails \/ RenameTmpFails) /\ Stopped

Die == Crash /\ Stopped

Next ==
    \/ \E rec \in Kind, until \in Time : Mark(rec, until)
    \/ Write \/ Return1 \/ Return0 \/ Die

Spec == HInit /\ [][Next]_vars

-----------------------------------------------------------------------------
(* Properties.                                                             *)

Files == Versions \cup {NoFile, Partial}

\* The file names hold versions, nothing, or what a broken write left.
TypeOK ==
    /\ lockFile \in Files /\ lockTmp \in Files
    /\ lockPc \in {"idle", "write", "remove", "rename"}
    /\ lockState \in Versions /\ told \in Versions /\ attempt \in Versions
    /\ lost \subseteq Kind /\ losing \subseteq Kind

\* notification_lock.c:104 "The temporary file still prevents partial writes
\* from becoming the active lock file", also when a crash leaves a partial
\* temporary file behind for the next call.
NeverPartial == lockFile # Partial

\* A reader finds in a slot what the last call that returned 1 for it left
\* there, or nothing, also when its own read or that of an earlier call has
\* failed: never an earlier value, the other slot's, or the value of a call
\* that did not return.
ReadsToldOrNothing ==
    lockFile # Partial =>
        \A slots \in Reads : \A r \in Kind : slots[r] \in {0, told[r]}

\* notification_lock.c:94 "older unexpired locks are not lost when the other
\* recommendation is sent", and test_core.c:68: the file loses a slot in two
\* ways only, both slots when a call ends between the remove and the rename,
\* the other slot when a call that returns 1 could not read the file.  Failed
\* opens, writes and removes and crashes anywhere else lose neither, and the
\* next mark of a lost slot that returns 1 brings it back.
SlotsKeptUnlessHurt ==
    lockPc # "rename" => \A r \in Kind \ lost : OnDisk[r] = told[r]

\* The same claim as the comment makes it.
SlotsKept == lockPc # "rename" => OnDisk = told

=============================================================================
