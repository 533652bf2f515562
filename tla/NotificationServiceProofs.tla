---------------------- MODULE NotificationServiceProofs ----------------------
(***************************************************************************)
(* The quiet periods of NotificationService for any day, windows, readings *)
(* and failures, and any number of kills.                                  *)
(*                                                                         *)
(* The invariant that does the work is the order of time: every quiet      *)
(* period was counted from a moment that is not after any time stamp still *)
(* in the program (JobsInOrder, History).  A job whose time stamp lies in  *)
(* its own window can then not lie in a quiet period of the opposite       *)
(* recommendation, so replacing the lock file, which may lose the other    *)
(* slot and does so when its read fails, never loses one that still        *)
(* matters.                                                                *)
(***************************************************************************)
EXTENDS NotificationService, Sequences, TLAPS

\* The lemmas about the policy are true of any clock; they speak of no
\* temperature and no graph.
Policy == INSTANCE RecClockProofs
            WITH now <- clock, MaxNow <- MaxClock,
                 house <- 0, outside_air <- 0, Temps <- {}, Hour <- 1

\* From a moment of rec's window to the end of the quiet period there is no
\* moment of the other window, at its end there is.
LEMMA QuietCovers ==
    ASSUME NEW t \in Nat, NEW rec \in Kind, withinWindow(rec, t)
    PROVE  LET until == t + secUntilWindow(rec, t)
           IN  /\ secUntilWindow(rec, t) \in Nat \ {0}
               /\ WindowStarts(Opposite(rec), until)
               /\ \A m \in t .. until - 1 : ~withinWindow(Opposite(rec), m)
  BY Policy!QuietCovers, WindowAssumption
     DEF Kind, Opposite, WindowStarts, withinWindow, secUntilWindow, localTotal,
         REC_OPEN, REC_CLOSE, REC_NONE,
         Policy!Kind, Policy!Opposite, Policy!WindowStarts, Policy!withinWindow,
         Policy!secUntilWindow, Policy!localTotal,
         Policy!REC_OPEN, Policy!REC_CLOSE, Policy!REC_NONE

\* A recommendation is given only inside its window.
LEMMA RecommendedInWindow ==
    ASSUME NEW h, NEW o, NEW t, getRecForTime(h, o, t) # REC_NONE
    PROVE  getRecForTime(h, o, t) \in Kind /\ withinWindow(getRecForTime(h, o, t), t)
  BY Policy!RecommendedInWindow, WindowAssumption
     DEF Kind, withinWindow, localTotal, getRecForTime, REC_OPEN, REC_CLOSE, REC_NONE,
         Policy!Kind, Policy!withinWindow, Policy!localTotal, Policy!getRecForTime,
         Policy!REC_OPEN, Policy!REC_CLOSE, Policy!REC_NONE


\* The programme counters agree with one another.
Control ==
    /\ workerPc = "send" <=> sendStep # "none"
    /\ workerPc = "send" => workerJob \in Job
    /\ lockPc # "idle" => sendStep = "save"
    /\ pollerPc = "post" => pollNow # Asleep
    /\ lockPc \in {"remove", "rename"} => lockTmp = lockState

Valid(j) == j.now <= clock /\ withinWindow(j.rec, j.now)

\* t is not after the time stamps of the queue, the poller and the worker.
BeforeQueue(t) ==
    /\ \A i \in DOMAIN queue : t <= queue[i].now
    /\ pollNow # Asleep => t <= pollNow
BeforePending(t) ==
    /\ BeforeQueue(t)
    /\ workerPc = "send" => t <= workerJob.now

JobsInOrder ==
    /\ \A i \in DOMAIN queue : Valid(queue[i])
    /\ \A i, k \in DOMAIN queue : i <= k => queue[i].now <= queue[k].now
    /\ pollNow # Asleep => \A i \in DOMAIN queue : queue[i].now <= pollNow
    /\ pollNow <= clock
    /\ workerPc = "send" => Valid(workerJob) /\ BeforeQueue(workerJob.now)

\* A quiet period is nothing but the one counted from t.
CountedFrom(r, t) ==
    withinWindow(r, t) /\ quietUntil[r] = t + secUntilWindow(r, t)

History ==
    \A r \in Kind : quietUntil[r] = 0 \/
        \E t \in 0 .. clock : CountedFrom(r, t) /\ BeforePending(t)

\* What the running mark is about.
Marking ==
    /\ sendStep \in {"mark", "save", "saved"} =>
          quietUntil[workerJob.rec] = quiet_until
    /\ sendStep = "save" => \A r \in Kind : lockState[r] <= quietUntil[r]

IInv == /\ TypeOK /\ Control /\ JobsInOrder /\ History /\ Marking
        /\ DiskNeverAhead /\ QuietIsKept /\ NoSideEffectInQuiet

USE DEF Asleep

-----------------------------------------------------------------------------
(* Facts about one state.                                                  *)

\* Of two moments counted from, the later is not inside the quiet period of
\* the earlier if their recommendations differ.
LEMMA NotInside ==
    ASSUME NEW t \in Nat, NEW u \in Nat, NEW r \in Kind, NEW s \in Kind, r # s,
           withinWindow(r, t), withinWindow(s, u), t <= u
    PROVE  t + secUntilWindow(r, t) <= u
<1>1. s = Opposite(r)
  BY DEF Kind, Opposite
<1>2. secUntilWindow(r, t) \in Nat
  BY QuietCovers
<1>3. \A m \in t .. (t + secUntilWindow(r, t)) - 1 : ~withinWindow(s, m)
  BY <1>1, QuietCovers
<1> QED
  BY <1>2, <1>3

\* Counted from a later moment of the same window kind, a quiet period does
\* not end earlier.
LEMMA LaterEndsLater ==
    ASSUME NEW t \in Nat, NEW u \in Nat, NEW r \in Kind,
           withinWindow(r, t), withinWindow(r, u), t <= u
    PROVE  t + secUntilWindow(r, t) <= u + secUntilWindow(r, u)
<1> DEFINE e == t + secUntilWindow(r, t)
           f == u + secUntilWindow(r, u)
<1>1. e \in Nat /\ f \in Nat /\ u < f
  BY QuietCovers
<1>2. withinWindow(Opposite(r), f)
  BY QuietCovers DEF WindowStarts
<1>3. \A m \in t .. e - 1 : ~withinWindow(Opposite(r), m)
  BY QuietCovers
<1> HIDE DEF e, f
<1>4. e <= f
  BY <1>1, <1>2, <1>3
<1> QED
  BY <1>4 DEF e, f

\* While the worker serves a job, only that job's recommendation can be quiet
\* because of a time stamp not after the job's.
LEMMA OthersAreOver ==
    ASSUME TypeOK, Control, JobsInOrder, History, workerPc = "send",
           NEW r \in Kind, r # workerJob.rec
    PROVE  quietUntil[r] <= clock
<1>1. workerJob \in Job /\ workerJob.rec \in Kind /\ workerJob.now \in Nat
  BY ServiceAssumption DEF Control
<1>2. workerJob.now <= clock /\ withinWindow(workerJob.rec, workerJob.now) /\ clock \in Nat
  BY DEF JobsInOrder, Valid, TypeOK
<1>3. CASE quietUntil[r] = 0
  BY <1>2, <1>3
<1>4. ASSUME NEW t \in 0 .. clock, CountedFrom(r, t), BeforePending(t)
      PROVE  quietUntil[r] <= clock
  <2>1. t \in Nat /\ t <= workerJob.now /\ withinWindow(r, t)
    BY <1>2, <1>4 DEF BeforePending, CountedFrom
  <2>2. t + secUntilWindow(r, t) <= workerJob.now
    BY <1>1, <1>2, <2>1, NotInside
  <2>3. secUntilWindow(r, t) \in Nat
    BY <2>1, QuietCovers
  <2> QED
    BY <1>1, <1>2, <1>4, <2>1, <2>2, <2>3 DEF CountedFrom
<1> QED
  BY <1>3, <1>4 DEF History

\* Two quiet periods never run at the same time.
LEMMA HistoryIsOneQuiet ==
    TypeOK /\ History => OneQuietAtATime
<1> SUFFICES ASSUME TypeOK, History,
                    quietUntil[REC_OPEN] > clock, quietUntil[REC_CLOSE] > clock
             PROVE  FALSE
  BY DEF OneQuietAtATime
<1>1. REC_OPEN \in Kind /\ REC_CLOSE \in Kind /\ REC_OPEN # REC_CLOSE /\ clock \in Nat
  BY DEF Kind, REC_OPEN, REC_CLOSE, TypeOK
<1>2. PICK t \in 0 .. clock : CountedFrom(REC_OPEN, t)
  BY <1>1 DEF History
<1>3. PICK u \in 0 .. clock : CountedFrom(REC_CLOSE, u)
  BY <1>1 DEF History
<1>4. /\ secUntilWindow(REC_OPEN, t) \in Nat /\ secUntilWindow(REC_CLOSE, u) \in Nat
      /\ t \in Nat /\ u \in Nat
  BY <1>1, <1>2, <1>3, QuietCovers DEF CountedFrom
<1>5. CASE t <= u
  <2>1. t + secUntilWindow(REC_OPEN, t) <= u
    BY <1>1, <1>2, <1>3, <1>4, <1>5, NotInside DEF CountedFrom
  <2> QED
    BY <1>1, <1>2, <1>4, <2>1 DEF CountedFrom
<1>6. CASE u <= t
  <2>1. u + secUntilWindow(REC_CLOSE, u) <= t
    BY <1>1, <1>2, <1>3, <1>4, <1>6, NotInside DEF CountedFrom
  <2> QED
    BY <1>1, <1>3, <1>4, <2>1 DEF CountedFrom
<1> QED
  BY <1>4, <1>5, <1>6

\* The quiet period of the job being served.
LEMMA QuietUntilOfJob ==
    ASSUME TypeOK, Control, JobsInOrder, workerPc = "send"
    PROVE  /\ workerJob \in Job /\ workerJob.rec \in Kind /\ workerJob.now \in Nat
           /\ workerJob.now <= clock
           /\ withinWindow(workerJob.rec, workerJob.now)
           /\ sleep_sec \in Nat \ {0}
           /\ quiet_until = workerJob.now + sleep_sec
           /\ quiet_until \in Nat
           /\ quiet_until <= clock + sleep_sec
<1>1. workerJob \in Job /\ workerJob.rec \in Kind /\ workerJob.now \in Nat
  BY ServiceAssumption DEF Control
<1>2. workerJob.now <= clock /\ withinWindow(workerJob.rec, workerJob.now) /\ clock \in Nat
  BY DEF JobsInOrder, Valid, TypeOK
<1>3. sleep_sec \in Nat \ {0}
  BY <1>1, <1>2, QuietCovers DEF sleep_sec
<1> QED
  BY <1>1, <1>2, <1>3 DEF quiet_until

\* The instances speak of the same recommendations.
LEMMA SameNames ==
    /\ L!Kind = Kind /\ Q!Kind = Kind /\ Q!Recs = Kind \cup {REC_NONE}
    /\ Q!REC_NONE = REC_NONE
  BY DEF Kind, REC_OPEN, REC_CLOSE, REC_NONE, L!Kind, L!REC_OPEN, L!REC_CLOSE,
         Q!Kind, Q!Recs, Q!REC_OPEN, Q!REC_CLOSE, Q!REC_NONE

\* What the lock file says is a number for each slot.
LEMMA OnDiskType ==
    ASSUME TypeOK
    PROVE  L!OnDisk \in [Kind -> Nat]
<1>1. L!NoUntil \in [Kind -> Nat]
  BY SameNames DEF L!NoUntil
<1> QED
  BY <1>1 DEF TypeOK, L!OnDisk

\* So is what a call reads of it.
LEMMA ReadsType ==
    ASSUME TypeOK
    PROVE  \A slots \in L!Reads : slots \in [Kind -> Nat]
<1>1. L!NoUntil \in [Kind -> Nat]
  BY SameNames DEF L!NoUntil
<1> QED
  BY <1>1, OnDiskType DEF L!Reads

\* A failed read is not ahead of the announcements either.
LEMMA ReadsNeverAhead ==
    ASSUME TypeOK, DiskNeverAhead
    PROVE  \A slots \in L!Reads : \A r \in Kind : slots[r] <= quietUntil[r]
<1>1. \A r \in Kind : L!NoUntil[r] = 0 /\ 0 <= quietUntil[r]
  BY SameNames DEF L!NoUntil, TypeOK
<1> QED
  BY <1>1 DEF L!Reads, DiskNeverAhead

\* The jobs in the list.
LEMMA QueueTypes ==
    ASSUME TypeOK
    PROVE  \A i \in DOMAIN queue :
              queue[i] \in Job /\ queue[i].rec \in Kind /\ queue[i].now \in Nat
<1> SUFFICES ASSUME NEW i \in DOMAIN queue
             PROVE  queue[i] \in Job /\ queue[i].rec \in Kind /\ queue[i].now \in Nat
  OBVIOUS
<1>1. queue \in Seq(Job)
  BY DEF TypeOK, Q!TypeOK
<1>2. queue[i] \in Job
  BY <1>1
<1> QED
  BY <1>2, ServiceAssumption

\* The quiet periods are numbers, that of the job being served too.
LEMMA QuietTypes ==
    ASSUME TypeOK, Control
    PROVE  /\ \A r \in Kind : quietUntil[r] \in Nat
           /\ workerPc = "send" => /\ workerJob \in Job /\ workerJob.rec \in Kind
                                   /\ workerJob.now \in Nat
                                   /\ quietUntil[workerJob.rec] \in Nat
<1>1. \A r \in Kind : quietUntil[r] \in Nat
  BY DEF TypeOK
<1> QED
  BY <1>1, ServiceAssumption DEF Control

-----------------------------------------------------------------------------
(* The initial states.                                                     *)

\* It holds when the service is first started.
LEMMA InitIInv == Init => IInv
<1> SUFFICES ASSUME Init PROVE IInv
  OBVIOUS
<1> USE ServiceAssumption, WindowAssumption, SameNames DEF Init, Q!Init, L!Init
<1>1. TypeOK
  <2>1. queue \in Seq(Job)
    OBVIOUS
  <2>2. L!NoUntil \in [Kind -> Nat]
    BY DEF L!NoUntil
  <2> QED
    BY <2>1, <2>2 DEF TypeOK, Q!TypeOK, SendSteps
<1>2. Control /\ JobsInOrder
  BY DEF Control, JobsInOrder
<1>3. History /\ Marking
  BY DEF History, Marking
<1>4. DiskNeverAhead /\ QuietIsKept /\ NoSideEffectInQuiet
  BY DEF DiskNeverAhead, QuietIsKept, NoSideEffectInQuiet, Unsaved, L!OnDisk, L!NoUntil
<1> QED
  BY <1>1, <1>2, <1>3, <1>4 DEF IInv

-----------------------------------------------------------------------------
(* Time and the poller.                                                    *)

\* Time passes.
LEMMA TickIInv == ASSUME IInv, Tick PROVE IInv'
<1> USE DEF IInv, Tick, queueVars, lockVars, pollVars, sendVars, history
<1>0. clock \in Nat /\ clock' = clock + 1 /\ L!OnDisk' = L!OnDisk
  BY DEF TypeOK, L!OnDisk
<1>1. TypeOK'
  BY <1>0 DEF TypeOK, Q!TypeOK
<1>2. Control'
  BY DEF Control
<1>3. JobsInOrder'
  <2>1. \A i \in DOMAIN queue : Valid(queue[i])'
    BY <1>0, QueueTypes DEF JobsInOrder, Valid
  <2>2. pollNow <= clock'
    BY <1>0 DEF JobsInOrder, TypeOK
  <2>3. workerPc = "send" => Valid(workerJob)'
    BY <1>0, QuietUntilOfJob DEF JobsInOrder, Valid
  <2> QED
    BY <2>1, <2>2, <2>3 DEF JobsInOrder, BeforeQueue
<1>4. History'
  BY <1>0 DEF History, CountedFrom, BeforePending, BeforeQueue
<1>5. Marking' /\ DiskNeverAhead'
  BY <1>0 DEF Marking, DiskNeverAhead, quiet_until, sleep_sec
<1>6. QuietIsKept' /\ NoSideEffectInQuiet'
  <2>1. \A r \in Kind : Unsaved(r)' => Unsaved(r)
    BY <1>0, QuietTypes DEF Unsaved
  <2>2. QuietIsKept'
    BY <2>1 DEF QuietIsKept
  <2>3. NoSideEffectInQuiet'
    BY <1>0, QuietTypes DEF NoSideEffectInQuiet, Control
  <2> QED
    BY <2>2, <2>3
<1> QED
  BY <1>1, <1>2, <1>3, <1>4, <1>5, <1>6

\* What only the poller touches does not matter to the quiet periods.
LEMMA PollerFrame ==
    ASSUME IInv, UNCHANGED <<workerPc, workerJob, lockVars, clock, sendVars, history>>
    PROVE  (Marking /\ DiskNeverAhead /\ QuietIsKept /\ NoSideEffectInQuiet)'
<1> USE DEF IInv, lockVars, sendVars, history
<1>1. Marking'
  BY DEF Marking, quiet_until, sleep_sec
<1>2. DiskNeverAhead' /\ QuietIsKept' /\ NoSideEffectInQuiet'
  BY DEF DiskNeverAhead, QuietIsKept, NoSideEffectInQuiet, Unsaved, L!OnDisk
<1> QED
  BY <1>1, <1>2

\* The poller takes the time of its cycle.
LEMMA PollBeginIInv == ASSUME IInv, PollBegin PROVE IInv'
<1> USE DEF IInv, PollBegin, queueVars, lockVars, sendVars, history
<1>1. TypeOK'
  BY DEF TypeOK, Q!TypeOK
<1>2. Control'
  BY DEF TypeOK, Control
<1>3. JobsInOrder'
  <2>1. clock \in Nat /\ pollNow' <= clock
    BY DEF TypeOK
  <2>2. \A i \in DOMAIN queue : queue[i].now <= pollNow'
    BY DEF JobsInOrder, Valid
  <2>3. workerPc = "send" => workerJob.now <= pollNow'
    BY DEF JobsInOrder, Valid
  <2> QED
    BY <2>1, <2>2, <2>3 DEF JobsInOrder, Valid, BeforeQueue
<1>4. History'
  BY DEF TypeOK, History, CountedFrom, BeforePending, BeforeQueue
<1> QED
  BY <1>1, <1>2, <1>3, <1>4, PollerFrame

\* The poller goes to sleep: one time stamp less.
LEMMA PollSleepIInv ==
    ASSUME IInv, PollSleep, pollerPc' = "poll", notification_sem' \in Nat,
           UNCHANGED <<queue, active_notification_rec, workerPc, workerJob,
                       lockVars, clock, sendVars, history>>
    PROVE  IInv'
<1> USE DEF IInv, PollSleep, lockVars, sendVars, history
<1>1. TypeOK'
  BY ServiceAssumption DEF TypeOK, Q!TypeOK
<1>2. Control'
  BY DEF Control
<1>3. JobsInOrder'
  BY DEF TypeOK, JobsInOrder, Valid, BeforeQueue
<1>4. History'
  BY DEF History, CountedFrom, BeforePending, BeforeQueue
<1> QED
  BY <1>1, <1>2, <1>3, <1>4, PollerFrame

\* The poller queues a job.
LEMMA PollQueuesIInv ==
    ASSUME IInv, NEW outside \in Outsides, NEW speed \in Speeds, PollQueues(outside, speed)
    PROVE  IInv'
<1> USE DEF IInv, queueVars, lockVars, pollVars, sendVars, history
<1> DEFINE rec == getRecForTime(House, outside, pollNow)
<1>1. PICK j \in Job : j.rec = rec /\ j.now = pollNow /\ Q!EnqueueReading(j)
  BY DEF PollQueues
<1>2. UNCHANGED <<active_notification_rec, notification_sem, workerPc, workerJob,
                  lockVars, clock, pollVars, sendVars, history>>
  BY <1>1 DEF PollQueues, Q!EnqueueReading
<1>3. /\ queue \in Seq(Job) /\ queue' = Append(queue, j) /\ pollerPc' = "post"
      /\ pollNow # Asleep /\ rec # REC_NONE
  BY <1>1 DEF PollQueues, Q!EnqueueReading, TypeOK, Q!TypeOK
<1>4. \A i \in DOMAIN queue' : \/ i \in DOMAIN queue /\ queue'[i] = queue[i]
                               \/ i = Len(queue) + 1 /\ queue'[i] = j
  BY <1>3
<1>5. DOMAIN queue = 1 .. Len(queue)
  BY <1>3
<1>6. j.now \in Nat /\ j.now <= clock /\ clock \in Nat /\ withinWindow(j.rec, j.now)
  <2>1. withinWindow(rec, pollNow)
    BY <1>3, RecommendedInWindow
  <2> QED
    BY <1>1, <1>3, <2>1 DEF TypeOK, JobsInOrder
<1>7. TypeOK'
  <2>1. queue' \in Seq(Job)
    BY <1>3
  <2> QED
    BY <1>2, <1>3, <2>1 DEF TypeOK, Q!TypeOK
<1>8. Control'
  BY <1>2, <1>3 DEF Control
<1>9. JobsInOrder'
  <2>1. \A i \in DOMAIN queue' : Valid(queue'[i]) /\ queue'[i].now <= pollNow
    BY <1>1, <1>3, <1>4, <1>6 DEF JobsInOrder, Valid
  <2>2. \A i, k \in DOMAIN queue' : i <= k => queue'[i].now <= queue'[k].now
    BY <1>1, <1>3, <1>4, <1>5, <1>6 DEF JobsInOrder
  <2>3. workerPc = "send" => BeforeQueue(workerJob.now)'
    BY <1>1, <1>2, <1>3, <1>4 DEF JobsInOrder, BeforeQueue
  <2> QED
    BY <1>2, <1>6, <2>1, <2>2, <2>3 DEF JobsInOrder, Valid
<1>10. History'
  <2>1. ASSUME NEW t \in Nat, BeforePending(t) PROVE BeforePending(t)'
    BY <1>1, <1>2, <1>3, <1>4, <2>1 DEF BeforePending, BeforeQueue
  <2>2. 0 .. clock \subseteq Nat
    BY <1>6
  <2> QED
    BY <1>2, <2>1, <2>2 DEF History, CountedFrom
<1> QED
  BY <1>2, <1>7, <1>8, <1>9, <1>10, PollerFrame

\* Every step of the poller.
LEMMA PollerIInv == ASSUME IInv, Poller PROVE IInv'
<1> USE DEF IInv, queueVars, lockVars, sendVars, history
<1>1. CASE PollBegin
  BY <1>1, PollBeginIInv
<1>2. CASE SensorFails
  BY <1>2, PollSleepIInv DEF SensorFails, TypeOK, Q!TypeOK
<1>3. CASE PollPosts
  <2>1. notification_sem' \in Nat
    BY <1>3 DEF PollPosts, Q!SemPost, TypeOK, Q!TypeOK
  <2> QED
    BY <1>3, <2>1, PollSleepIInv DEF PollPosts, Q!SemPost
<1>4. CASE \E outside \in Outsides : PollQuietly(outside)
  BY <1>4, PollSleepIInv DEF PollQuietly, TypeOK, Q!TypeOK
<1>5. CASE \E outside \in Outsides, speed \in Speeds : PollQueues(outside, speed)
  BY <1>5, PollQueuesIInv
<1> QED
  BY <1>1, <1>2, <1>3, <1>4, <1>5 DEF Poller

-----------------------------------------------------------------------------
(* The worker, outside sendNotification.                                   *)

\* The worker waits for the semaphore.
LEMMA WorkerWaitsIInv == ASSUME IInv, WorkerWaits PROVE IInv'
<1> USE DEF IInv, WorkerWaits, Q!SemWait, lockVars, pollVars, sendVars, history
<1>1. workerPc # "send" /\ workerPc' # "send" /\ sendStep = "none"
  BY DEF Control
<1>2. TypeOK'
  BY DEF TypeOK, Q!TypeOK
<1>3. Control' /\ Marking' /\ NoSideEffectInQuiet'
  BY <1>1 DEF Control, Marking, NoSideEffectInQuiet
<1>4. JobsInOrder'
  BY <1>1 DEF JobsInOrder, Valid, BeforeQueue
<1>5. History'
  BY <1>1 DEF History, CountedFrom, BeforePending, BeforeQueue
<1>6. DiskNeverAhead' /\ QuietIsKept'
  BY <1>1 DEF DiskNeverAhead, QuietIsKept, Unsaved, L!OnDisk
<1> QED
  BY <1>2, <1>3, <1>4, <1>5, <1>6

\* The worker takes the oldest job.
LEMMA WorkerPopsIInv == ASSUME IInv, WorkerPops PROVE IInv'
<1> USE DEF IInv, lockVars, pollVars, history
<1>1. /\ workerPc = "pop" /\ sendStep = "none" /\ lockPc = "idle"
      /\ workerWake' = workerWake
      /\ UNCHANGED <<notification_sem, pollerPc, lockVars, clock, pollVars, history>>
      /\ queue \in Seq(Job)
  BY DEF WorkerPops, Q!popNotificationJob, Control, TypeOK, Q!TypeOK
<1>2. \/ /\ workerPc' = "wait" /\ sendStep' = "none"
         /\ UNCHANGED <<queue, active_notification_rec, workerJob>>
      \/ /\ queue # <<>> /\ workerPc' = "send" /\ sendStep' = "check"
         /\ workerJob' = Head(queue) /\ queue' = Tail(queue)
         /\ active_notification_rec' = Head(queue).rec
  BY DEF WorkerPops, Q!popNotificationJob
<1>3. Marking' /\ NoSideEffectInQuiet'
  BY <1>2 DEF Marking, NoSideEffectInQuiet
<1>4. DiskNeverAhead' /\ QuietIsKept'
  BY <1>1 DEF DiskNeverAhead, QuietIsKept, Unsaved, L!OnDisk
<1>5. CASE workerPc' = "wait"
  <2>1. TypeOK'
    BY <1>1, <1>2, <1>5 DEF TypeOK, Q!TypeOK, SendSteps
  <2>2. Control'
    BY <1>1, <1>2, <1>5 DEF Control
  <2>3. JobsInOrder'
    BY <1>1, <1>2, <1>5 DEF JobsInOrder, Valid, BeforeQueue
  <2>4. History'
    BY <1>1, <1>2, <1>5 DEF History, CountedFrom, BeforePending, BeforeQueue
  <2> QED
    BY <1>3, <1>4, <2>1, <2>2, <2>3, <2>4
<1>6. CASE workerPc' = "send"
  <2>1. /\ workerJob' = queue[1] /\ queue' \in Seq(Job) /\ 1 \in DOMAIN queue
        /\ \A i \in DOMAIN queue' : i + 1 \in DOMAIN queue /\ queue'[i] = queue[i + 1]
        /\ DOMAIN queue' \subseteq Nat \ {0}
    BY <1>1, <1>2, <1>6
  <2>2. /\ queue[1] \in Job /\ queue[1].rec \in Kind
        /\ workerPc' = "send" /\ sendStep' = "check"
        /\ active_notification_rec' = queue[1].rec
    BY <1>1, <1>2, <1>6, <2>1, QueueTypes
  <2>3. TypeOK'
    BY <1>1, <2>1, <2>2, SameNames DEF TypeOK, Q!TypeOK, SendSteps
  <2>4. Control'
    BY <1>1, <2>1, <2>2 DEF Control
  <2>5. JobsInOrder'
    <3>1. \A i \in DOMAIN queue' : Valid(queue'[i]) /\ queue[1].now <= queue'[i].now
      BY <2>1 DEF JobsInOrder
    <3>2. \A i, k \in DOMAIN queue' : i <= k => queue'[i].now <= queue'[k].now
      BY <2>1 DEF JobsInOrder
    <3>3. pollNow # Asleep => \A i \in DOMAIN queue : queue[i].now <= pollNow
      BY DEF JobsInOrder
    <3>4. Valid(queue[1])
      BY <2>1 DEF JobsInOrder
    <3> QED
      BY <1>1, <2>1, <3>1, <3>2, <3>3, <3>4 DEF JobsInOrder, Valid, BeforeQueue
  <2>6. History'
    BY <1>1, <2>1 DEF History, CountedFrom, BeforePending, BeforeQueue
  <2> QED
    BY <1>3, <1>4, <2>3, <2>4, <2>5, <2>6
<1> QED
  BY <1>2, <1>5, <1>6

\* The worker is done with a job.
LEMMA ClearActiveIInv == ASSUME IInv, ClearActive PROVE IInv'
<1> USE DEF IInv, ClearActive, Q!clearActiveNotification, lockVars, pollVars, history
<1>1. TypeOK'
  BY SameNames DEF TypeOK, Q!TypeOK, SendSteps
<1>2. Control' /\ Marking' /\ NoSideEffectInQuiet'
  BY DEF Control, Marking, NoSideEffectInQuiet
<1>3. JobsInOrder'
  BY DEF JobsInOrder, Valid, BeforeQueue
<1>4. History'
  BY DEF History, CountedFrom, BeforePending, BeforeQueue
<1>5. DiskNeverAhead' /\ QuietIsKept'
  BY DEF DiskNeverAhead, QuietIsKept, Unsaved, L!OnDisk
<1> QED
  BY <1>1, <1>2, <1>3, <1>4, <1>5

-----------------------------------------------------------------------------
(* The steps of sendNotification.                                          *)

\* A step that only moves sendNotification on.
LEMMA SendFrame ==
    ASSUME IInv, sendStep # "none", sendStep' \in SendSteps \ {"none"},
           lockPc # "idle" => sendStep' = "save", workerWake' \in Nat,
           UNCHANGED <<queueVars, lockVars, clock, pollVars, marks>>, misread' \subseteq Kind
    PROVE  (TypeOK /\ Control /\ JobsInOrder /\ History /\ DiskNeverAhead)'
<1> USE DEF IInv, queueVars, lockVars, pollVars, marks
<1>1. TypeOK' /\ Control'
  BY DEF TypeOK, Q!TypeOK, Control
<1>2. JobsInOrder'
  BY DEF JobsInOrder, Valid, BeforeQueue
<1>3. History'
  BY DEF History, CountedFrom, BeforePending, BeforeQueue
<1>4. DiskNeverAhead'
  BY DEF DiskNeverAhead, L!OnDisk
<1> QED
  BY <1>1, <1>2, <1>3, <1>4

\* The worker asks the lock file.
LEMMA CheckLockIInv == ASSUME IInv, CheckLock PROVE IInv'
<1> USE DEF IInv
<1>1. /\ sendStep = "check" /\ workerPc = "send" /\ workerJob.rec \in Kind
      /\ lockPc = "idle" /\ clock \in Nat
      /\ UNCHANGED <<queueVars, lockVars, clock, pollVars, marks>>
  BY QuietTypes DEF CheckLock, Control, TypeOK
<1>s. PICK slots \in L!Reads :
        LET until == L!ActiveUntil(slots, workerJob.rec, clock)
        IN  /\ misread' = {r \in {workerJob.rec} : slots[r] # L!OnDisk[r]}
            /\ \/ sendStep' = "asleep" /\ workerWake' = until
               \/ /\ sendStep' \in {"fan", "push"} /\ workerWake' = workerWake
                  /\ ~(until > clock)
  BY DEF CheckLock, Sleep
<1> DEFINE until == L!ActiveUntil(slots, workerJob.rec, clock)
<1>2. /\ misread' = {r \in {workerJob.rec} : slots[r] # L!OnDisk[r]}
      /\ \/ sendStep' = "asleep" /\ workerWake' = until
         \/ sendStep' \in {"fan", "push"} /\ workerWake' = workerWake /\ ~(until > clock)
  BY <1>s
<1>3. until \in Nat /\ slots[workerJob.rec] \in Nat /\ L!OnDisk[workerJob.rec] \in Nat
  BY <1>1, OnDiskType, ReadsType DEF L!ActiveUntil
<1>4. workerWake' \in Nat /\ sendStep' \in SendSteps \ {"none"}
  BY <1>2, <1>3 DEF TypeOK, SendSteps
<1>5. (TypeOK /\ Control /\ JobsInOrder /\ History /\ DiskNeverAhead)'
  BY <1>1, <1>2, <1>4, SendFrame
<1>6. \A r \in Kind : Unsaved(r) => r \in forgotten
  BY <1>1 DEF QuietIsKept
<1>7. Marking' /\ QuietIsKept'
  BY <1>1, <1>2, <1>6
     DEF Marking, QuietIsKept, Unsaved, L!OnDisk, queueVars, lockVars, marks
<1>8. NoSideEffectInQuiet'
  <2>1. CASE sendStep' \in {"fan", "push"} /\ workerJob.rec \notin misread'
    <3>1. L!OnDisk[workerJob.rec] <= clock
      BY <1>1, <1>2, <1>3, <2>1 DEF L!ActiveUntil
    <3>2. quietUntil[workerJob.rec] <= clock \/ workerJob.rec \in forgotten
      BY <1>1, <1>3, <1>6, <3>1, QuietTypes DEF Unsaved
    <3> QED
      BY <1>1, <3>2 DEF NoSideEffectInQuiet, queueVars, marks
  <2>2. workerJob' = workerJob
    BY <1>1 DEF queueVars
  <2> QED
    BY <2>1, <2>2 DEF NoSideEffectInQuiet
<1> QED
  BY <1>5, <1>7, <1>8

\* Steps that neither hold a quiet period nor end one.
LEMMA TurnOffFansIInv == ASSUME IInv, TurnOffFans \/ PushFails PROVE IInv'
<1> USE DEF IInv
<1>1. /\ sendStep \in {"fan", "push"} /\ sendStep' \in {"push", "done"}
      /\ sendStep' = "push" => sendStep = "fan"
      /\ lockPc = "idle" /\ workerWake' = workerWake /\ workerWake \in Nat
      /\ UNCHANGED <<queueVars, lockVars, clock, pollVars, history>>
  BY DEF TurnOffFans, PushFails, Control, TypeOK
<1>2. (TypeOK /\ Control /\ JobsInOrder /\ History /\ DiskNeverAhead)'
  BY <1>1, SendFrame DEF SendSteps, TypeOK, marks, history
<1>3. Marking' /\ QuietIsKept' /\ NoSideEffectInQuiet'
  BY <1>1 DEF Marking, QuietIsKept, NoSideEffectInQuiet, Unsaved, L!OnDisk,
              queueVars, lockVars, history
<1> QED
  BY <1>2, <1>3

\* The new quiet period does not end before the old one.
LEMMA QuietGrows ==
    ASSUME TypeOK, Control, JobsInOrder, History, workerPc = "send"
    PROVE  quietUntil[workerJob.rec] <= quiet_until
<1>1. /\ workerJob.rec \in Kind /\ workerJob.now \in Nat
      /\ withinWindow(workerJob.rec, workerJob.now)
      /\ quiet_until \in Nat /\ quiet_until = workerJob.now + sleep_sec
  BY QuietUntilOfJob
<1>2. CASE quietUntil[workerJob.rec] = 0
  BY <1>1, <1>2
<1>3. ASSUME NEW t \in 0 .. clock, CountedFrom(workerJob.rec, t), BeforePending(t)
      PROVE  quietUntil[workerJob.rec] <= quiet_until
  <2>1. t \in Nat /\ t <= workerJob.now /\ withinWindow(workerJob.rec, t)
    BY <1>3 DEF BeforePending, CountedFrom, TypeOK
  <2> QED
    BY <1>1, <1>3, <2>1, LaterEndsLater DEF CountedFrom, sleep_sec
<1> QED
  BY <1>1, <1>2, <1>3 DEF History

\* A push is confirmed: a quiet period begins.
LEMMA PushConfirmedIInv == ASSUME IInv, PushConfirmed PROVE IInv'
<1> USE DEF IInv
<1> DEFINE rec == workerJob.rec
<1>1. /\ sendStep = "push" /\ sendStep' = "mark" /\ workerPc = "send" /\ lockPc = "idle"
      /\ quietUntil' = [quietUntil EXCEPT ![rec] = quiet_until]
      /\ forgotten' = forgotten \ {rec} /\ workerWake' = workerWake
      /\ UNCHANGED <<queueVars, lockVars, clock, pollVars, misread>>
  BY DEF PushConfirmed, Control
<1>2. /\ rec \in Kind /\ quiet_until \in Nat /\ workerJob.now \in Nat
      /\ workerJob.now <= clock /\ clock \in Nat
      /\ quietUntil'[rec] = quiet_until
      /\ \A r \in Kind \ {rec} : quietUntil'[r] = quietUntil[r]
  BY <1>1, QuietUntilOfJob DEF TypeOK
<1>3. TypeOK' /\ Control' /\ JobsInOrder'
  <2>1. TypeOK'
    BY <1>1, <1>2 DEF TypeOK, Q!TypeOK, SendSteps, queueVars, lockVars, pollVars
  <2>2. Control' /\ JobsInOrder'
    BY <1>1 DEF Control, JobsInOrder, Valid, BeforeQueue, queueVars, lockVars, pollVars
  <2> QED
    BY <2>1, <2>2
<1>4. History'
  <2>1. \A t : BeforePending(t) => BeforePending(t)'
    BY <1>1 DEF BeforePending, BeforeQueue, queueVars, pollVars
  <2>2. ASSUME NEW r \in Kind, r # rec
        PROVE  quietUntil'[r] = 0 \/
                 \E t \in 0 .. clock : CountedFrom(r, t)' /\ BeforePending(t)'
    BY <1>2, <2>1, <2>2 DEF History, CountedFrom
  <2>3. ASSUME NEW r \in Kind, r = rec
        PROVE  \E t \in 0 .. clock : CountedFrom(r, t)' /\ BeforePending(t)'
    <3> DEFINE t == workerJob.now
    <3>1. t \in 0 .. clock /\ BeforePending(t)
      BY <1>1, <1>2 DEF JobsInOrder, BeforePending
    <3>2. withinWindow(r, t) /\ quietUntil'[r] = t + secUntilWindow(r, t)
      BY <1>1, <1>2, <2>3, QuietUntilOfJob DEF sleep_sec
    <3> HIDE DEF t
    <3> QED
      BY <2>1, <3>1, <3>2 DEF CountedFrom
  <2>4. clock' = clock
    BY <1>1
  <2> HIDE DEF rec
  <2> QED
    BY <2>2, <2>3, <2>4 DEF History
<1>5. Marking' /\ NoSideEffectInQuiet'
  BY <1>1, <1>2 DEF Marking, NoSideEffectInQuiet, quiet_until, sleep_sec, queueVars
<1>6. DiskNeverAhead'
  <2>1. L!OnDisk' = L!OnDisk /\ L!OnDisk \in [Kind -> Nat]
    BY <1>1, OnDiskType DEF L!OnDisk, lockVars
  <2>2. quietUntil[rec] <= quiet_until /\ quietUntil[rec] \in Nat
    BY <1>1, <1>2, QuietGrows, QuietTypes
  <2> QED
    BY <1>2, <2>1, <2>2 DEF DiskNeverAhead
<1>7. QuietIsKept'
  <2>1. \A r \in Kind \ {rec} : ~(quietUntil[r] > clock)
    BY <1>1, <1>2, OthersAreOver, QuietTypes
  <2> QED
    BY <1>1, <1>2, <2>1 DEF QuietIsKept, Unsaved, queueVars
<1> QED
  BY <1>3, <1>4, <1>5, <1>6, <1>7

\* While the worker is past the push, the only quiet period that can still be
\* unsaved is that of its own job.
LEMMA OnlyTheJobsQuiet ==
    ASSUME IInv, workerPc = "send",
           UNCHANGED <<queueVars, clock, history>>,
           sendStep' \in {"mark", "save", "saved"}
    PROVE  QuietIsKept'
<1>1. \A r \in Kind : r # workerJob.rec => ~(quietUntil[r] > clock)
  BY OthersAreOver, QuietTypes DEF IInv, TypeOK
<1> QED
  BY <1>1 DEF QuietIsKept, Unsaved, queueVars, history

\* What the file calls leave alone.
LEMMA MarkFrame ==
    ASSUME IInv, sendStep # "none", sendStep' # "none",
           UNCHANGED <<queueVars, clock, pollVars, workerWake, history>>
    PROVE  (JobsInOrder /\ History)'
<1> USE DEF IInv, queueVars, pollVars, history
<1>1. JobsInOrder'
  BY DEF JobsInOrder, Valid, BeforeQueue
<1>2. History'
  BY DEF History, CountedFrom, BeforePending, BeforeQueue
<1> QED
  BY <1>1, <1>2

\* The quiet period is to be written.
LEMMA MarkBeginsIInv == ASSUME IInv, MarkBegins PROVE IInv'
<1> USE DEF IInv
<1> DEFINE rec == workerJob.rec
<1>1. /\ sendStep = "mark" /\ workerPc = "send" /\ lockPc = "idle" /\ lockFile' = lockFile
      /\ sendStep' \in {"save", "saved"}
      /\ UNCHANGED <<queueVars, clock, pollVars, workerWake, history>>
  BY DEF MarkBegins, Control, L!MarkSent, L!MarkSentFails, L!lockVars
<1>2. \/ /\ sendStep' = "save" /\ lockPc' = "write" /\ lockTmp' = Partial
         /\ \E slots \in L!Reads : lockState' = [slots EXCEPT ![rec] = quiet_until]
      \/ sendStep' = "saved" /\ UNCHANGED lockVars
  BY DEF MarkBegins, L!MarkSent, L!MarkSentFails, L!lockVars, lockVars
<1>3. /\ rec \in Kind /\ quiet_until \in Nat /\ quietUntil[rec] = quiet_until
      /\ L!OnDisk \in [Kind -> Nat] /\ L!OnDisk' = L!OnDisk
  BY <1>1, QuietUntilOfJob, OnDiskType DEF Marking, L!OnDisk
<1>4. JobsInOrder' /\ History' /\ QuietIsKept'
  BY <1>1, MarkFrame, OnlyTheJobsQuiet
<1>5. TypeOK'
  BY <1>1, <1>2, <1>3, ReadsType
     DEF TypeOK, Q!TypeOK, SendSteps, queueVars, lockVars, pollVars, history
<1>6. Control'
  BY <1>1, <1>2 DEF Control, queueVars, lockVars, pollVars
<1>7. Marking'
  <2>1. quietUntil'[workerJob'.rec] = quiet_until'
    BY <1>1, <1>3 DEF quiet_until, sleep_sec, queueVars, history
  <2>2. sendStep' = "save" => \A r \in Kind : lockState'[r] <= quietUntil'[r]
    <3>1. \A slots \in L!Reads : \A r \in Kind : slots[r] <= quietUntil[r]
      BY ReadsNeverAhead
    <3> QED
      BY <1>1, <1>2, <1>3, <3>1, ReadsType DEF history
  <2> QED
    BY <2>1, <2>2 DEF Marking
<1>8. DiskNeverAhead' /\ NoSideEffectInQuiet'
  BY <1>1, <1>3 DEF DiskNeverAhead, NoSideEffectInQuiet, history
<1> QED
  BY <1>4, <1>5, <1>6, <1>7, <1>8

\* Each step of the replacement leaves the old file, the new one or none.
LEMMA MarkWritesIInv == ASSUME IInv, MarkWrites PROVE IInv'
<1> USE DEF IInv
<1>1. /\ sendStep = "save" /\ workerPc = "send"
      /\ sendStep' = IF lockPc' = "idle" THEN "saved" ELSE "save"
      /\ UNCHANGED <<queueVars, clock, pollVars, workerWake, history>>
      /\ L!writeState
  BY DEF MarkWrites, Control
<1>2. /\ lockState' = lockState
      /\ lockFile' \in {lockFile, lockState, NoFile}
      /\ lockTmp' \in {lockTmp, lockState, NoFile}
      /\ lockPc' \in {"idle", "remove", "rename"}
      /\ lockPc' \in {"remove", "rename"} => lockTmp' = lockState
  BY <1>1 DEF L!writeState, L!CloseTmp, L!CloseTmpFails, L!RemoveOld, L!RenameTmp,
              L!RenameTmpFails, Control
<1>3. sendStep' \in {"save", "saved"}
  BY <1>1
<1>4. JobsInOrder' /\ History' /\ QuietIsKept'
  BY <1>1, <1>3, MarkFrame, OnlyTheJobsQuiet
<1>5. TypeOK'
  BY <1>1, <1>2, <1>3 DEF TypeOK, Q!TypeOK, SendSteps, queueVars, pollVars, history
<1>6. Control'
  BY <1>1, <1>2 DEF Control, queueVars, pollVars
<1>7. Marking'
  BY <1>1, <1>2, <1>3 DEF Marking, quiet_until, sleep_sec, queueVars, history
<1>8. NoSideEffectInQuiet'
  BY <1>3 DEF NoSideEffectInQuiet
<1>9. DiskNeverAhead'
  <2>1. \A r \in Kind : lockState[r] <= quietUntil[r] /\ 0 <= quietUntil[r]
    BY <1>1, QuietTypes DEF Marking
  <2>2. \A r \in Kind : L!NoUntil[r] = 0
    BY SameNames DEF L!NoUntil
  <2>3. L!OnDisk' \in {L!OnDisk, lockState, L!NoUntil}
    BY <1>2 DEF L!OnDisk
  <2> QED
    BY <1>1, <2>1, <2>2, <2>3 DEF DiskNeverAhead, history
<1> QED
  BY <1>4, <1>5, <1>6, <1>7, <1>8, <1>9

\* The worker sleeps through it.
LEMMA SleepQuietIInv == ASSUME IInv, SleepQuiet PROVE IInv'
<1> USE DEF IInv
<1>1. /\ sendStep = "saved" /\ workerPc = "send" /\ lockPc = "idle"
      /\ UNCHANGED <<queueVars, lockVars, clock, pollVars, history>>
  BY DEF SleepQuiet, Control
<1>2. /\ sleep_sec \in Nat \ {0} /\ clock \in Nat /\ quiet_until <= clock + sleep_sec
      /\ quietUntil[workerJob.rec] = quiet_until
  BY <1>1, QuietUntilOfJob DEF Marking, TypeOK
<1>3. sendStep' = "asleep" /\ workerWake' = clock + sleep_sec
  BY <1>2 DEF SleepQuiet, Sleep
<1>4. (TypeOK /\ Control /\ JobsInOrder /\ History /\ DiskNeverAhead)'
  <2>1. workerWake' \in Nat
    BY <1>2, <1>3
  <2> QED
    BY <1>1, <1>3, <2>1, SendFrame DEF SendSteps, TypeOK, marks, history
<1>5. Marking' /\ NoSideEffectInQuiet'
  BY <1>3 DEF Marking, NoSideEffectInQuiet
<1>6. QuietIsKept'
  <2>1. ASSUME NEW r \in Kind, Unsaved(r), r \notin forgotten
        PROVE  workerJob.rec = r /\ workerWake' >= quietUntil[r]
    BY <1>1, <1>2, <1>3, <2>1 DEF QuietIsKept
  <2> QED
    BY <1>1, <1>3, <2>1
       DEF QuietIsKept, Unsaved, L!OnDisk, queueVars, lockVars, history
<1> QED
  BY <1>4, <1>5, <1>6

\* The worker wakes up, never early.
LEMMA WakeIInv == ASSUME IInv, Wake PROVE IInv'
<1> USE DEF IInv
<1>1. /\ sendStep = "asleep" /\ sendStep' = "done" /\ lockPc = "idle"
      /\ clock >= workerWake /\ clock \in Nat
      /\ workerWake' = workerWake /\ workerWake \in Nat
      /\ UNCHANGED <<queueVars, lockVars, clock, pollVars, history>>
  BY DEF Wake, Control, TypeOK
<1>2. (TypeOK /\ Control /\ JobsInOrder /\ History /\ DiskNeverAhead)'
  BY <1>1, SendFrame DEF SendSteps, TypeOK, marks, history
<1>3. Marking' /\ NoSideEffectInQuiet'
  BY <1>1 DEF Marking, NoSideEffectInQuiet
<1>4. QuietIsKept'
  <2>1. \A r \in Kind : Unsaved(r) => r \in forgotten
    BY <1>1, QuietTypes DEF QuietIsKept, Unsaved
  <2> QED
    BY <1>1, <2>1 DEF QuietIsKept, Unsaved, L!OnDisk, lockVars, history
<1> QED
  BY <1>2, <1>3, <1>4

-----------------------------------------------------------------------------
(* The kill.                                                               *)

\* The process is killed and started again.
LEMMA RestartIInv == ASSUME IInv, Restart PROVE IInv'
<1> USE DEF IInv, Restart, L!Crash, Asleep
<1>1. TypeOK'
  <2>1. queue' \in Seq(Job)
    OBVIOUS
  <2>2. L!NoUntil \in [Kind -> Nat]
    BY SameNames DEF L!NoUntil
  <2> QED
    BY <2>1, <2>2, SameNames DEF TypeOK, Q!TypeOK, SendSteps
<1>2. Control' /\ Marking' /\ NoSideEffectInQuiet'
  BY DEF Control, Marking, NoSideEffectInQuiet
<1>3. JobsInOrder'
  BY DEF TypeOK, JobsInOrder
<1>4. History'
  BY DEF History, CountedFrom, BeforePending, BeforeQueue
<1>5. DiskNeverAhead' /\ QuietIsKept'
  BY DEF DiskNeverAhead, QuietIsKept, Unsaved, L!OnDisk
<1> QED
  BY <1>1, <1>2, <1>3, <1>4, <1>5

-----------------------------------------------------------------------------
(* Every step, and what follows.                                           *)

\* Every step of the worker.
LEMMA WorkerIInv == ASSUME IInv, Worker PROVE IInv'
<1>1. CASE WorkerWaits \/ WorkerPops \/ ClearActive
  BY <1>1, WorkerWaitsIInv, WorkerPopsIInv, ClearActiveIInv
<1>2. CASE CheckLock \/ TurnOffFans \/ PushFails \/ PushConfirmed
  BY <1>2, CheckLockIInv, TurnOffFansIInv, PushConfirmedIInv
<1>3. CASE MarkBegins \/ MarkWrites \/ SleepQuiet \/ Wake
  BY <1>3, MarkBeginsIInv, MarkWritesIInv, SleepQuietIInv, WakeIInv
<1> QED
  BY <1>1, <1>2, <1>3 DEF Worker

\* Every step keeps it.
LEMMA NextIInv == IInv /\ [Next]_vars => IInv'
<1> SUFFICES ASSUME IInv, [Next]_vars PROVE IInv'
  OBVIOUS
<1>1. CASE Next
  BY <1>1, TickIInv, PollerIInv, WorkerIInv, RestartIInv DEF Next
<1>2. CASE UNCHANGED vars
  <2> USE <1>2 DEF IInv, vars, queueVars, lockVars, pollVars, sendVars, history
  <2>1. TypeOK' /\ Control'
    BY DEF TypeOK, Q!TypeOK, Control
  <2>2. JobsInOrder'
    BY DEF JobsInOrder, Valid, BeforeQueue
  <2>3. History'
    BY DEF History, CountedFrom, BeforePending, BeforeQueue
  <2> QED
    BY <2>1, <2>2, <2>3, PollerFrame
<1> QED
  BY <1>1, <1>2

\* So it holds in every state.
LEMMA Inductive == Spec => []IInv
  BY InitIInv, NextIInv, PTL DEF Spec

\* The state of both threads, the file and the clock keeps its types: a unit
\* of the semaphore is never taken that is not there, and the file names never
\* hold anything but a version, nothing, or a partial temporary file.
THEOREM TypeCorrect == Spec => []TypeOK
<1>1. IInv => TypeOK
  BY DEF IInv
<1> QED
  BY <1>1, Inductive, PTL

\* sendNotification (notification_worker.c:143-219): no fan command and no
\* push inside the quiet period of an earlier confirmed notification for the
\* same recommendation, and at every moment the disk or the sleeping worker
\* keeps the period, unless a kill came before it was on disk; a push inside
\* the period needs that kill, or a read of the file that fails in this job's
\* own check.  A read that fails in a mark does no harm.
THEOREM QuietIsHonoured == Spec => [](NoSideEffectInQuiet /\ QuietIsKept)
<1>1. IInv => NoSideEffectInQuiet /\ QuietIsKept
  BY DEF IInv
<1> QED
  BY <1>1, Inductive, PTL

\* The opposite recommendations are never quiet together
\* (notification_lock.c:94): the file replacement cannot lose a running period
\* of the other slot while a worker marks one.
THEOREM OneQuiet == Spec => []OneQuietAtATime
<1>1. IInv => OneQuietAtATime
  BY HistoryIsOneQuiet DEF IInv
<1> QED
  BY <1>1, Inductive, PTL

\* A slot of the lock file never lasts longer than the confirmed notification
\* it stands for (notification_worker.c:190-203).
THEOREM DiskFollows == Spec => []DiskNeverAhead
<1>1. IInv => DiskNeverAhead
  BY DEF IInv
<1> QED
  BY <1>1, Inductive, PTL

\* However late a job is served, its quiet_until (notification_worker.c:199)
\* is not before that of the last confirmed one.
THEOREM QuietOnlyGrows == Spec => QuietNeverShrinks
<1>1. IInv /\ [Next]_vars => [\A r \in Kind : quietUntil'[r] >= quietUntil[r]]_quietUntil
  <2> SUFFICES ASSUME IInv, Next, quietUntil' # quietUntil
               PROVE  \A r \in Kind : quietUntil'[r] >= quietUntil[r]
    BY DEF vars, history
  <2>1. PushConfirmed
    BY DEF Next, Tick, Restart, history,
           Poller, PollBegin, SensorFails, PollQuietly, PollQueues, PollPosts,
           Worker, WorkerWaits, WorkerPops, CheckLock, TurnOffFans, PushFails,
           MarkBegins, MarkWrites, SleepQuiet, Wake, ClearActive, marks
  <2>2. workerPc = "send"
    BY <2>1 DEF PushConfirmed, IInv, Control
  <2>3. quietUntil[workerJob.rec] <= quiet_until /\ quiet_until \in Nat
        /\ \A r \in Kind : quietUntil[r] \in Nat
    BY <2>2, QuietGrows, QuietUntilOfJob, QuietTypes DEF IInv
  <2>4. quietUntil' = [quietUntil EXCEPT ![workerJob.rec] = quiet_until]
        /\ quietUntil \in [Kind -> Nat]
    BY <2>1 DEF PushConfirmed, IInv, TypeOK
  <2> QED
    BY <2>3, <2>4
<1> QED
  BY <1>1, Inductive, PTL DEF Spec, QuietNeverShrinks

=============================================================================
