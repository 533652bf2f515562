------------------------ MODULE NotificationService ------------------------
(***************************************************************************)
(* The poller (house/poller.c), the worker's sendNotification              *)
(* (notification_worker.c) and the lock file against a clock, with the     *)
(* process killed and started again.  The hand-over between the threads is *)
(* NotificationQueue, the file NotificationLock and the policy RecPolicy.  *)
(*                                                                         *)
(* The clock may advance between any two steps: retries, timeouts, logging *)
(* and late wake-ups take as long as they like.  It never goes back.       *)
(***************************************************************************)
EXTENDS RecPolicy

CONSTANTS Job, NoJob,              \* as in NotificationQueue; jobs carry rec, now, speed
          NoFile, Partial, IOFaults,
          MaxClock,                \* bound on the clock
          PollInterval,            \* POLL_INTERVAL_SECONDS
          House, Outsides, Speeds  \* the readings the sensor may return

Time == Nat

ASSUME ServiceAssumption ==
    /\ Job \subseteq [rec : Kind, now : Nat, speed : Nat]
    /\ NoJob \notin Job
    /\ NoFile \notin [Kind -> Nat] /\ Partial \notin [Kind -> Nat] /\ NoFile # Partial
    /\ MaxClock \in Nat /\ PollInterval \in Nat

VARIABLES queue, active_notification_rec, notification_sem,
          pollerPc, workerPc, workerJob,
          lockFile, lockTmp, lockPc, lockState,
          clock,
          pollNow,      \* currentNow of the cycle, or Asleep
          pollWake,     \* when the poller's sleep ends
          sendStep,     \* where sendNotification is
          workerWake,   \* when the worker's sleep ends
          quietUntil,   \* history: quiet_until of the last confirmed send
          forgotten,    \* history: whose running quiet period a death left unsaved
          misread       \* history: whose check, the worker's last, read other than the file

Q == INSTANCE NotificationQueue
L == INSTANCE NotificationLock

queueVars == <<queue, active_notification_rec, notification_sem,
               pollerPc, workerPc, workerJob>>
lockVars == <<lockFile, lockTmp, lockPc, lockState>>
pollVars == <<pollNow, pollWake>>
sendVars == <<sendStep, workerWake>>
marks == <<quietUntil, forgotten>>
history == <<quietUntil, forgotten, misread>>
vars == <<queueVars, lockVars, clock, pollVars, sendVars, history>>

Asleep == -1

Init ==
    /\ Q!Init /\ L!Init
    /\ clock \in 0 .. dayTimeSeconds - 1
    /\ pollNow = Asleep /\ pollWake = clock
    /\ sendStep = "none" /\ workerWake = 0
    /\ quietUntil = [r \in Kind |-> 0] /\ forgotten = {} /\ misread = {}

Tick ==
    /\ clock < MaxClock
    /\ clock' = clock + 1
    /\ UNCHANGED <<queueVars, lockVars, pollVars, sendVars, history>>

-----------------------------------------------------------------------------
(* pollerRun: the cycle's time is taken before the sensor is read.         *)

PollBegin ==
    /\ pollNow = Asleep /\ pollerPc = "poll"
    /\ clock >= pollWake
    /\ pollNow' = clock
    /\ UNCHANGED <<queueVars, lockVars, clock, pollWake, sendVars, history>>

PollSleep == pollNow' = Asleep /\ pollWake' = clock + PollInterval

\* houseReadSensor gave up, after its retries.
SensorFails ==
    /\ pollNow # Asleep /\ pollerPc = "poll"
    /\ PollSleep
    /\ UNCHANGED <<queueVars, lockVars, clock, sendVars, history>>

\* No recommendation, or notificationQueueReading returned 0.
PollQuietly(outside) ==
    /\ pollNow # Asleep /\ pollerPc = "poll"
    /\ LET rec == getRecForTime(House, outside, pollNow)
       IN  rec = REC_NONE \/ Q!Duplicate(rec)
    /\ PollSleep
    /\ UNCHANGED <<queueVars, lockVars, clock, sendVars, history>>

PollQueues(outside, speed) ==
    /\ pollNow # Asleep
    /\ LET rec == getRecForTime(House, outside, pollNow)
       IN  /\ rec # REC_NONE
           /\ \E j \in Job :
                 /\ j.rec = rec /\ j.now = pollNow /\ j.speed = speed
                 /\ Q!EnqueueReading(j)
    /\ UNCHANGED <<lockVars, clock, pollVars, sendVars, history>>

PollPosts ==
    /\ Q!SemPost
    /\ PollSleep
    /\ UNCHANGED <<lockVars, clock, sendVars, history>>

Poller ==
    \/ PollBegin \/ SensorFails \/ PollPosts
    \/ \E outside \in Outsides : PollQuietly(outside)
    \/ \E outside \in Outsides, speed \in Speeds : PollQueues(outside, speed)

-----------------------------------------------------------------------------
(* notificationThread and sendNotification.                                *)

WorkerWaits ==
    /\ Q!SemWait
    /\ UNCHANGED <<lockVars, clock, pollVars, sendVars, history>>

WorkerPops ==
    /\ Q!popNotificationJob
    /\ sendStep' = IF queue = <<>> THEN "none" ELSE "check"
    /\ UNCHANGED <<lockVars, clock, pollVars, workerWake, history>>

\* The persisted quiet period comes before any side effect.
Sleep(until) == sendStep' = "asleep" /\ workerWake' = until

\* Mutant: the lock file is not consulted.
CheckLock_Skipped ==
    /\ sendStep = "check"
    /\ sendStep' = IF workerJob.rec = REC_CLOSE /\ workerJob.speed > 0 THEN "fan" ELSE "push"
    /\ misread' = {}
    /\ UNCHANGED <<queueVars, lockVars, clock, pollVars, workerWake, marks>>

\* A file that cannot be read looks like one without quiet periods.
CheckLock ==
    /\ sendStep = "check"
    /\ \E slots \in L!Reads :
          LET active_until == L!ActiveUntil(slots, workerJob.rec, clock)
          IN  /\ misread' = {r \in {workerJob.rec} : slots[r] # L!OnDisk[r]}
              /\ IF active_until > clock
                   THEN Sleep(active_until)
                   ELSE /\ sendStep' = IF workerJob.rec = REC_CLOSE /\ workerJob.speed > 0
                                         THEN "fan" ELSE "push"
                        /\ UNCHANGED workerWake
    /\ UNCHANGED <<queueVars, lockVars, clock, pollVars, marks>>

\* houseTurnOffFans; whether it succeeded only changes the message.
TurnOffFans ==
    /\ sendStep = "fan"
    /\ sendStep' = "push"
    /\ UNCHANGED <<queueVars, lockVars, clock, pollVars, workerWake, history>>

\* quiet_until and the length of the sleep are both counted from job->now.
sleep_sec == secUntilWindow(workerJob.rec, workerJob.now)
\* Mutant: the length is saved where a time is meant.
quiet_until_Length == IF sleep_sec > 0 THEN sleep_sec ELSE 0

quiet_until == workerJob.now + (IF sleep_sec > 0 THEN sleep_sec ELSE 0)

PushConfirmed ==
    /\ sendStep = "push"
    /\ quietUntil' = [quietUntil EXCEPT ![workerJob.rec] = quiet_until]
    /\ forgotten' = forgotten \ {workerJob.rec}
    /\ sendStep' = "mark"
    /\ UNCHANGED <<queueVars, lockVars, clock, pollVars, workerWake, misread>>

\* Mutant: the lock is written whatever Pushover answered.
PushFails_Marks ==
    /\ sendStep = "push"
    /\ sendStep' = "mark"
    /\ UNCHANGED <<queueVars, lockVars, clock, pollVars, workerWake, history>>

\* "notify failed": the message may have been delivered all the same.
PushFails ==
    /\ sendStep = "push"
    /\ sendStep' = "done"
    /\ UNCHANGED <<queueVars, lockVars, clock, pollVars, workerWake, history>>

MarkBegins ==
    /\ sendStep = "mark" /\ lockPc = "idle"
    /\ \/ /\ \E slots \in L!Reads : L!MarkSent(workerJob.rec, quiet_until, slots)
          /\ sendStep' = "save"
       \/ L!MarkSentFails /\ sendStep' = "saved"
    /\ UNCHANGED <<queueVars, clock, pollVars, workerWake, history>>

MarkWrites ==
    /\ sendStep = "save"
    /\ L!writeState
    /\ sendStep' = IF lockPc' = "idle" THEN "saved" ELSE "save"
    /\ UNCHANGED <<queueVars, clock, pollVars, workerWake, history>>

\* Mutant: the worker trusts the lock file and does not sleep.
SleepQuiet_Not ==
    /\ sendStep = "saved"
    /\ sendStep' = "done"
    /\ UNCHANGED <<queueVars, lockVars, clock, pollVars, workerWake, history>>

\* A failed mark is logged and nothing more; the sleep starts now.
SleepQuiet ==
    /\ sendStep = "saved"
    /\ IF sleep_sec > 0
         THEN Sleep(clock + sleep_sec)
         ELSE sendStep' = "done" /\ UNCHANGED workerWake
    /\ UNCHANGED <<queueVars, lockVars, clock, pollVars, history>>

Wake ==
    /\ sendStep = "asleep"
    /\ clock >= workerWake
    /\ sendStep' = "done"
    /\ UNCHANGED <<queueVars, lockVars, clock, pollVars, workerWake, history>>

ClearActive ==
    /\ sendStep = "done"
    /\ Q!clearActiveNotification
    /\ sendStep' = "none"
    /\ UNCHANGED <<lockVars, clock, pollVars, workerWake, history>>

Worker ==
    \/ WorkerWaits \/ WorkerPops \/ CheckLock \/ TurnOffFans
    \/ PushConfirmed \/ PushFails \/ MarkBegins \/ MarkWrites
    \/ SleepQuiet \/ Wake \/ ClearActive

-----------------------------------------------------------------------------
(* The process is killed and a new one started: there is no signal         *)
(* handler, so this can happen anywhere.  The queue, the active            *)
(* recommendation and both sleeps are lost, the lock file is not.          *)

\* A quiet period that runs and is not what the file says.
Unsaved(r) == quietUntil[r] > clock /\ L!OnDisk[r] # quietUntil[r]

Restart ==
    /\ forgotten' = forgotten \cup {r \in Kind : Unsaved(r)}
    /\ queue' = <<>> /\ active_notification_rec' = REC_NONE
    /\ notification_sem' = 0
    /\ pollerPc' = "poll" /\ workerPc' = "wait" /\ workerJob' = NoJob
    /\ L!Crash
    /\ pollNow' = Asleep /\ pollWake' = clock
    /\ sendStep' = "none" /\ workerWake' = 0
    /\ misread' = {}
    /\ UNCHANGED <<clock, quietUntil>>

Next == Tick \/ Poller \/ Worker \/ Restart

Spec == Init /\ [][Next]_vars

-----------------------------------------------------------------------------
(* Properties.                                                             *)

SendSteps == {"none", "check", "fan", "push", "mark", "save", "saved", "asleep", "done"}

\* Two threads, one file, one clock.
TypeOK ==
    /\ Q!TypeOK
    /\ lockFile \in [Kind -> Nat] \cup {NoFile}
    /\ lockTmp \in [Kind -> Nat] \cup {NoFile, Partial}
    /\ lockPc \in {"idle", "write", "remove", "rename"}
    /\ lockState \in [Kind -> Nat]
    /\ clock \in Nat
    /\ pollNow \in Nat \cup {Asleep} /\ pollWake \in Nat
    /\ sendStep \in SendSteps /\ workerWake \in Nat
    /\ quietUntil \in [Kind -> Nat] /\ forgotten \subseteq Kind /\ misread \subseteq Kind

\* No fan command and no push for a recommendation while the quiet period of
\* an earlier confirmed notification for it is running, be it kept by the
\* worker's sleep, by the lock file or, when the mark failed, by the sleep
\* alone.  The two exceptions: the process died while it was not on disk, or
\* it is on disk and this job's own check could not read it.  A failed read
\* before a mark is none: what it drops from the file is over.
NoSideEffectInQuiet ==
    sendStep \in {"fan", "push"} =>
        quietUntil[workerJob.rec] <= clock \/ workerJob.rec \in forgotten \cup misread

\* The sleeping worker or the disk keeps every quiet period that runs, at
\* every moment: while a mark is written, after it failed, after a restart.
QuietIsKept ==
    \A r \in Kind : Unsaved(r) =>
        \/ r \in forgotten
        \/ /\ workerPc = "send" /\ workerJob.rec = r
           /\ sendStep \in {"mark", "save", "saved", "asleep"}
           /\ sendStep = "asleep" => workerWake >= quietUntil[r]

\* The two slots share a file whose replacement may lose both, but their
\* quiet periods never run at the same time: sendNotification counts them
\* from job->now, so one ends where the other's window begins.
OneQuietAtATime ==
    ~(quietUntil[REC_OPEN] > clock /\ quietUntil[REC_CLOSE] > clock)

\* Nothing is suppressed that was not announced: a slot on disk never lasts
\* longer than the confirmed notification it stands for, and a push that
\* failed leaves none.
DiskNeverAhead == \A r \in Kind : L!OnDisk[r] <= quietUntil[r]

\* However long a job waited behind another one, and across restarts, a
\* later notification never ends a quiet period earlier than the one before.
QuietNeverShrinks ==
    [][\A r \in Kind : quietUntil'[r] >= quietUntil[r]]_quietUntil

\* The claim of notification_worker.c:149 without the exception: "This
\* prevents a service restart from resending the same notification window".
NoResendAfterRestart ==
    sendStep \in {"fan", "push"} => quietUntil[workerJob.rec] <= clock

=============================================================================
