------------------------- MODULE NotificationQueue -------------------------
(***************************************************************************)
(* The hand-over between the poller and the notification worker            *)
(* (notification/notification_worker.c): a linked FIFO and the active      *)
(* recommendation under notification_mutex, and a semaphore that is posted *)
(* after the mutex has been released.  A section that holds the mutex from *)
(* lock to unlock is one action; the semaphore operations, which are       *)
(* outside it, are actions of their own.                                   *)
(***************************************************************************)
EXTENDS Rec, Integers, Sequences

CONSTANTS Job,      \* the jobs the poller may build from a reading
          NoJob     \* the worker's job pointer when it has none

ASSUME JobAssumption ==
    /\ \A j \in Job : j.rec \in Kind
    /\ NoJob \notin Job

VARIABLES queue,                   \* notification_head .. notification_tail
          active_notification_rec,
          notification_sem,
          pollerPc,                \* "poll", or "post" between unlock and sem_post
          workerPc,                \* "wait" | "pop" | "send"
          workerJob                \* the job being sent

vars == <<queue, active_notification_rec, notification_sem,
          pollerPc, workerPc, workerJob>>

queueContainsRecLocked(rec) ==
    \E i \in DOMAIN queue : queue[i].rec = rec

Init ==
    /\ queue = <<>>
    /\ active_notification_rec = REC_NONE
    /\ notification_sem = 0
    /\ pollerPc = "poll"
    /\ workerPc = "wait"
    /\ workerJob = NoJob

-----------------------------------------------------------------------------
(* The poller's thread.                                                    *)

\* Mutant: the job being sent is not looked at.
Duplicate_ActiveIgnored(rec) == queueContainsRecLocked(rec)

\* A job for this recommendation is being sent or is already queued.
Duplicate(rec) == active_notification_rec = rec \/ queueContainsRecLocked(rec)

\* Mutant: the job is appended without a sem_post.
EnqueueReading_NoPost(j) ==
    /\ pollerPc = "poll" /\ ~Duplicate(j.rec)
    /\ queue' = Append(queue, j)
    /\ UNCHANGED <<active_notification_rec, notification_sem, pollerPc, workerPc, workerJob>>

\* Mutant: the list is linked at its head.
EnqueueReading_AtHead(j) ==
    /\ pollerPc = "poll" /\ ~Duplicate(j.rec)
    /\ queue' = <<j>> \o queue
    /\ pollerPc' = "post"
    /\ UNCHANGED <<active_notification_rec, notification_sem, workerPc, workerJob>>

\* notificationQueueReading up to the unlock, when the job is accepted.  A
\* duplicate, and a failed malloc, return 0 and change nothing.
EnqueueReading(j) ==
    /\ pollerPc = "poll"
    /\ ~Duplicate(j.rec)
    /\ queue' = Append(queue, j)
    /\ pollerPc' = "post"
    /\ UNCHANGED <<active_notification_rec, notification_sem, workerPc, workerJob>>

SemPost ==
    /\ pollerPc = "post"
    /\ notification_sem' = notification_sem + 1
    /\ pollerPc' = "poll"
    /\ UNCHANGED <<queue, active_notification_rec, workerPc, workerJob>>

-----------------------------------------------------------------------------
(* The worker's thread.                                                    *)

\* Mutant: the worker polls the list instead of waiting.
SemWait_Unguarded ==
    /\ workerPc = "wait"
    /\ notification_sem' = notification_sem - 1
    /\ workerPc' = "pop"
    /\ UNCHANGED <<queue, active_notification_rec, pollerPc, workerJob>>

SemWait ==
    /\ workerPc = "wait"
    /\ notification_sem > 0
    /\ notification_sem' = notification_sem - 1
    /\ workerPc' = "pop"
    /\ UNCHANGED <<queue, active_notification_rec, pollerPc, workerJob>>

\* The oldest job leaves the list and its recommendation becomes active in
\* one section, so no poll can slip a second job in between.  An empty list
\* sends the worker back to the semaphore (the "if (!job) continue").
popNotificationJob ==
    /\ workerPc = "pop"
    /\ IF queue = <<>>
         THEN /\ workerPc' = "wait"
              /\ UNCHANGED <<queue, active_notification_rec, workerJob>>
         ELSE /\ workerPc' = "send"
              /\ workerJob' = Head(queue)
              /\ queue' = Tail(queue)
              /\ active_notification_rec' = Head(queue).rec
    /\ UNCHANGED <<notification_sem, pollerPc>>

\* Mutant: one path of sendNotification forgets to clear.
clearActiveNotification_Kept ==
    /\ workerPc = "send"
    /\ workerJob' = NoJob
    /\ workerPc' = "wait"
    /\ UNCHANGED <<queue, active_notification_rec, notification_sem, pollerPc>>

\* Every path of sendNotification ends here, and the job is freed.
clearActiveNotification ==
    /\ workerPc = "send"
    /\ active_notification_rec' =
          IF active_notification_rec = workerJob.rec
            THEN REC_NONE ELSE active_notification_rec
    /\ workerJob' = NoJob
    /\ workerPc' = "wait"
    /\ UNCHANGED <<queue, notification_sem, pollerPc>>

Poller == (\E j \in Job : EnqueueReading(j)) \/ SemPost
Worker == SemWait \/ popNotificationJob \/ clearActiveNotification

Next == Poller \/ Worker

\* Both threads keep running: sem_post does not block, curl has timeouts and
\* the worker's sleeps are finite.  The poller need not have anything to send.
Fairness == WF_vars(SemPost) /\ WF_vars(Worker)

Spec == Init /\ [][Next]_vars
FairSpec == Spec /\ Fairness

-----------------------------------------------------------------------------
(* Properties.                                                             *)

\* The list holds jobs, and at most one per recommendation fits in it.
TypeOK ==
    /\ queue \in Seq(Job)
    /\ active_notification_rec \in Recs
    /\ notification_sem \in Nat
    /\ pollerPc \in {"poll", "post"}
    /\ workerPc \in {"wait", "pop", "send"}
    /\ workerJob \in Job \cup {NoJob}

\* One if the condition holds: a thread between the two halves of a hand-over.
Pending(b) == IF b THEN 1 ELSE 0

\* notification_worker.c:95 "Wake the worker after the job is visible in the
\* queue": every job in the list is accounted for by one unit of the
\* semaphore, by a sem_post about to happen or by a worker that has already
\* taken its unit.  A job without one would sleep in the list forever; a unit
\* without one would wake the worker for nothing.
SemMatchesQueue ==
    Len(queue) = notification_sem + Pending(pollerPc = "post")
                                  + Pending(workerPc = "pop")

\* queueContainsRecLocked and active_notification_rec together
\* (notification_worker.c:79-84, 275): of the jobs queued and the job being
\* sent no two carry the same recommendation, whatever the poller does
\* while the worker sleeps inside sendNotification.
OneJobPerRec ==
    /\ \A i, k \in DOMAIN queue : queue[i].rec = queue[k].rec => i = k
    /\ workerPc = "send" => ~queueContainsRecLocked(workerJob.rec)

\* active_notification_rec is what the poller knows of the worker: it names
\* the job being sent, and only while it is being sent.
ActiveNamesJob ==
    /\ workerPc = "send" => /\ workerJob # NoJob
                            /\ active_notification_rec = workerJob.rec
    /\ workerPc # "send" => /\ workerJob = NoJob
                            /\ active_notification_rec = REC_NONE

\* The threads, the mutex and the semaphore implement the two slots: jobs are
\* served in order, one at a time, and none is left waiting for a wake-up.
Slots == INSTANCE JobSlots WITH pending <- queue, current <- workerJob
ImplementsSlots == Slots!Spec

=============================================================================
