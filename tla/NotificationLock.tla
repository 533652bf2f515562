-------------------------- MODULE NotificationLock --------------------------
(***************************************************************************)
(* The quiet periods kept across restarts (notification_lock.c): one file  *)
(* with an "until" time for each recommendation, replaced as a whole by    *)
(* writing a temporary file, removing the old file and renaming.  Each     *)
(* call on the file system is an action; the process may die between any   *)
(* two of them, and each may fail.  Only the worker's thread uses the      *)
(* file, so one call of notificationLockMarkSent runs at a time.           *)
(***************************************************************************)
EXTENDS Rec, Naturals

CONSTANTS Time,      \* the times a caller may pass, a set of naturals
          NoFile,    \* the name does not exist
          Partial,   \* a file that was opened for writing and not closed
          IOFaults   \* the calls that may fail: "read", "open", "close", "remove", "rename"

VARIABLES lockFile,   \* what is at the path
          lockTmp,    \* what is at the path with suffix .tmp
          lockPc,     \* "idle" | "write" | "remove" | "rename"
          lockState   \* the NotificationLockState of the running call

lockVars == <<lockFile, lockTmp, lockPc, lockState>>

NoUntil == [r \in Kind |-> 0]
Versions == [Kind -> Time \cup {0}]

Init ==
    /\ lockFile = NoFile
    /\ lockTmp = NoFile
    /\ lockPc = "idle"
    /\ lockState = NoUntil

\* What the file holds.  A missing file reads as two slots of zero; the lines
\* of a partial one are in nobody's contract.
OnDisk == IF lockFile = NoFile THEN NoUntil ELSE lockFile

\* The results of readState: when fopen or the read fails, the caller gets
\* the two zeros of a missing file and cannot tell.  Two short lines fit one
\* buffer, so a read yields all of the file or nothing.
Reads == {OnDisk} \cup (IF "read" \in IOFaults THEN {NoUntil} ELSE {})

ActiveUntil(slots, rec, now) ==
    IF slots[rec] <= now THEN 0 ELSE slots[rec]

-----------------------------------------------------------------------------
(* notificationLockMarkSent: read both slots, set one, write both.  The    *)
(* parameter slots is what readState returned.                             *)

\* Mutant: the struct holds only the slot being set.
MarkSent_OneSlot(rec, until_time, slots) ==
    /\ lockPc = "idle"
    /\ lockState' = [r \in {rec} |-> until_time]
    /\ lockTmp' = Partial
    /\ lockPc' = "write"
    /\ UNCHANGED lockFile

\* Mutant: the other slot is written as zero.
MarkSent_Forgets(rec, until_time, slots) ==
    /\ lockPc = "idle"
    /\ lockState' = [NoUntil EXCEPT ![rec] = until_time]
    /\ lockTmp' = Partial
    /\ lockPc' = "write"
    /\ UNCHANGED lockFile

\* Mutant: the slots of the call before are kept in memory and not read again.
MarkSent_Cached(rec, until_time, slots) ==
    /\ lockPc = "idle"
    /\ lockState' = [lockState EXCEPT ![rec] = until_time]
    /\ lockTmp' = Partial
    /\ lockPc' = "write"
    /\ UNCHANGED lockFile

\* fopen(temp_path, "w") creates or empties the temporary file.
MarkSent(rec, until_time, slots) ==
    /\ lockPc = "idle"
    /\ lockState' = [slots EXCEPT ![rec] = until_time]
    /\ lockTmp' = Partial
    /\ lockPc' = "write"
    /\ UNCHANGED lockFile

\* The path is too long or fopen fails: returns 0, nothing has happened.
MarkSentFails ==
    /\ "open" \in IOFaults
    /\ lockPc = "idle"
    /\ UNCHANGED lockVars

\* Mutant: the file is renamed before it is closed.
CloseTmp_Late ==
    /\ lockPc = "write"
    /\ lockPc' = "remove"
    /\ UNCHANGED <<lockFile, lockTmp, lockState>>

CloseTmp ==
    /\ lockPc = "write"
    /\ lockTmp' = lockState
    /\ lockPc' = "remove"
    /\ UNCHANGED <<lockFile, lockState>>

\* fclose reports what could not be written.
CloseTmpFails ==
    /\ "close" \in IOFaults
    /\ lockPc = "write"
    /\ lockTmp' = NoFile
    /\ lockPc' = "idle"
    /\ UNCHANGED <<lockFile, lockState>>

\* The result of remove(path) is not looked at.
RemoveOld ==
    /\ lockPc = "remove"
    /\ lockFile' \in {NoFile} \cup (IF "remove" \in IOFaults THEN {lockFile} ELSE {})
    /\ lockPc' = "rename"
    /\ UNCHANGED <<lockTmp, lockState>>

RenameTmp ==
    /\ lockPc = "rename"
    /\ lockFile' = lockTmp
    /\ lockTmp' = NoFile
    /\ lockPc' = "idle"
    /\ UNCHANGED lockState

RenameTmpFails ==
    /\ "rename" \in IOFaults
    /\ lockPc = "rename"
    /\ lockTmp' = NoFile
    /\ lockPc' = "idle"
    /\ UNCHANGED <<lockFile, lockState>>

\* The steps of writeState after the temporary file has been opened.
writeState ==
    CloseTmp \/ CloseTmpFails \/ RemoveOld \/ RenameTmp \/ RenameTmpFails

\* The process dies and is started again: the file system stays.
Crash ==
    /\ lockPc' = "idle"
    /\ lockState' = NoUntil
    /\ UNCHANGED <<lockFile, lockTmp>>

=============================================================================
