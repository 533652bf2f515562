----------------------- MODULE NotificationQueueProofs -----------------------
(***************************************************************************)
(* Proofs about NotificationQueue for any set of jobs.                     *)
(*                                                                         *)
(* The inductive invariant is the conjunction of the four invariants of    *)
(* the specification: that no two jobs share a recommendation needs the    *)
(* poller's view of the worker to be right (ActiveNamesJob), and that the  *)
(* worker's pop finds a job needs SemMatchesQueue.                         *)
(***************************************************************************)
EXTENDS NotificationQueue, TLAPS

IInv == TypeOK /\ SemMatchesQueue /\ OneJobPerRec /\ ActiveNamesJob

\* The recommendations of the jobs in a queue are pairwise different.
Distinct(q) == \A i, k \in DOMAIN q : q[i].rec = q[k].rec => i = k

\* What the two list operations do to the recommendations in the list.
LEMMA AppendKeepsDistinct ==
    ASSUME NEW q \in Seq(Job), NEW j \in Job, Distinct(q),
           \A i \in DOMAIN q : q[i].rec # j.rec
    PROVE  /\ Append(q, j) \in Seq(Job)
           /\ Len(Append(q, j)) = Len(q) + 1
           /\ Distinct(Append(q, j))
           /\ \A i \in DOMAIN Append(q, j) :
                 \/ i \in DOMAIN q /\ Append(q, j)[i] = q[i]
                 \/ i = Len(q) + 1 /\ Append(q, j)[i] = j
<1>1. DOMAIN Append(q, j) = 1 .. Len(q) + 1 /\ DOMAIN q = 1 .. Len(q)
  OBVIOUS
<1>2. /\ \A i \in DOMAIN q : Append(q, j)[i] = q[i]
      /\ Append(q, j)[Len(q) + 1] = j
  OBVIOUS
<1>3. \A i \in DOMAIN Append(q, j) : i \in DOMAIN q \/ i = Len(q) + 1
  BY <1>1
<1>4. Distinct(Append(q, j))
  BY <1>2, <1>3 DEF Distinct
<1>5. Append(q, j) \in Seq(Job) /\ Len(Append(q, j)) = Len(q) + 1
  OBVIOUS
<1> QED
  BY <1>2, <1>3, <1>4, <1>5

\* A list without its head names no recommendation twice either.
LEMMA TailKeepsDistinct ==
    ASSUME NEW q \in Seq(Job), q # <<>>, Distinct(q)
    PROVE  /\ Head(q) \in Job
           /\ Tail(q) \in Seq(Job)
           /\ Len(q) = Len(Tail(q)) + 1
           /\ Distinct(Tail(q))
           /\ \A i \in DOMAIN Tail(q) : Tail(q)[i].rec # Head(q).rec
<1>1. Head(q) = q[1] /\ 1 \in DOMAIN q /\ Head(q) \in Job /\ Tail(q) \in Seq(Job)
  OBVIOUS
<1>2. Len(q) = Len(Tail(q)) + 1
  OBVIOUS
<1>3. \A i \in DOMAIN Tail(q) : i \in Nat /\ i + 1 \in DOMAIN q /\ Tail(q)[i] = q[i + 1]
  OBVIOUS
<1>4. Distinct(Tail(q))
  BY <1>3 DEF Distinct
<1>5. \A i \in DOMAIN Tail(q) : Tail(q)[i].rec # Head(q).rec
  BY <1>1, <1>3 DEF Distinct
<1> QED
  BY <1>1, <1>2, <1>4, <1>5

\* It holds for the empty queue.
LEMMA InitIInv == Init => IInv
<1> SUFFICES ASSUME Init PROVE IInv
  OBVIOUS
<1> USE DEF Init
<1>1. TypeOK
  BY DEF TypeOK, Recs
<1>2. SemMatchesQueue
  BY DEF SemMatchesQueue, Pending
<1>3. OneJobPerRec /\ ActiveNamesJob
  BY DEF OneJobPerRec, ActiveNamesJob
<1> QED
  BY <1>1, <1>2, <1>3 DEF IInv

\* Every step of the two threads keeps it.
LEMMA NextIInv == IInv /\ [Next]_vars => IInv'
<1> SUFFICES ASSUME IInv, [Next]_vars PROVE IInv'
  OBVIOUS
<1> USE JobAssumption DEF IInv, TypeOK, Recs, Kind, REC_NONE, REC_OPEN, REC_CLOSE
<1>0. OneJobPerRec <=> /\ Distinct(queue)
                       /\ workerPc = "send" => ~queueContainsRecLocked(workerJob.rec)
  BY DEF OneJobPerRec, Distinct
<1>0a. OneJobPerRec' <=> /\ Distinct(queue')
                         /\ workerPc' = "send" =>
                               ~\E i \in DOMAIN queue' : queue'[i].rec = workerJob'.rec
  BY DEF OneJobPerRec, Distinct, queueContainsRecLocked
<1>1. CASE \E j \in Job : EnqueueReading(j)
  <2> PICK j \in Job : EnqueueReading(j)
    BY <1>1
  <2> USE DEF EnqueueReading
  <2>1. \A i \in DOMAIN queue : queue[i].rec # j.rec
    BY DEF Duplicate, queueContainsRecLocked
  <2>2. /\ queue' \in Seq(Job)
        /\ Len(queue') = Len(queue) + 1
        /\ Distinct(queue')
        /\ \A i \in DOMAIN queue' : \/ i \in DOMAIN queue /\ queue'[i] = queue[i]
                                    \/ i = Len(queue) + 1 /\ queue'[i] = j
    BY <2>1, <1>0, AppendKeepsDistinct
  <2>3. TypeOK'
    BY <2>2
  <2>4. SemMatchesQueue'
    BY <2>2 DEF SemMatchesQueue, Pending
  <2>5. ActiveNamesJob'
    BY DEF ActiveNamesJob
  <2>6. workerPc = "send" => j.rec # workerJob.rec
    BY DEF ActiveNamesJob, Duplicate
  <2>7. OneJobPerRec'
    BY <2>2, <2>6, <1>0, <1>0a DEF queueContainsRecLocked
  <2> QED
    BY <2>3, <2>4, <2>5, <2>7
<1>2. CASE SemPost
  <2> USE <1>2 DEF SemPost
  <2>1. TypeOK' /\ ActiveNamesJob'
    BY DEF ActiveNamesJob
  <2>2. SemMatchesQueue'
    BY DEF SemMatchesQueue, Pending
  <2>3. OneJobPerRec'
    BY DEF OneJobPerRec, queueContainsRecLocked
  <2> QED
    BY <2>1, <2>2, <2>3
<1>3. CASE SemWait
  <2> USE <1>3 DEF SemWait
  <2>1. TypeOK' /\ ActiveNamesJob'
    BY DEF ActiveNamesJob
  <2>2. SemMatchesQueue'
    BY DEF SemMatchesQueue, Pending
  <2>3. OneJobPerRec'
    BY DEF OneJobPerRec, queueContainsRecLocked
  <2> QED
    BY <2>1, <2>2, <2>3
<1>4. CASE popNotificationJob
  <2> USE <1>4 DEF popNotificationJob
  <2>1. queue # <<>>
    BY DEF SemMatchesQueue, Pending
  <2>2. /\ workerJob' \in Job
        /\ queue' \in Seq(Job)
        /\ Len(queue) = Len(queue') + 1
        /\ Distinct(queue')
        /\ \A i \in DOMAIN queue' : queue'[i].rec # workerJob'.rec
    BY <2>1, <1>0, TailKeepsDistinct
  <2>3. TypeOK' /\ ActiveNamesJob'
    BY <2>1, <2>2 DEF ActiveNamesJob
  <2>4. SemMatchesQueue'
    BY <2>1, <2>2 DEF SemMatchesQueue, Pending
  <2>5. OneJobPerRec'
    BY <2>2, <1>0a
  <2> QED
    BY <2>3, <2>4, <2>5
<1>5. CASE clearActiveNotification
  <2> USE <1>5 DEF clearActiveNotification
  <2>1. TypeOK' /\ ActiveNamesJob'
    BY DEF ActiveNamesJob
  <2>2. SemMatchesQueue'
    BY DEF SemMatchesQueue, Pending
  <2>3. OneJobPerRec'
    BY DEF OneJobPerRec, queueContainsRecLocked
  <2> QED
    BY <2>1, <2>2, <2>3
<1>6. CASE UNCHANGED vars
  BY <1>6 DEF vars, SemMatchesQueue, Pending, OneJobPerRec, ActiveNamesJob,
              queueContainsRecLocked
<1> QED
  BY <1>1, <1>2, <1>3, <1>4, <1>5, <1>6 DEF Next, Poller, Worker

\* The invariants of NotificationQueue hold in every reachable state, whatever
\* readings the poller takes and however the two threads interleave.
THEOREM Invariance == Spec => [](TypeOK /\ SemMatchesQueue /\ OneJobPerRec /\ ActiveNamesJob)
<1>1. Spec => []IInv
  BY InitIInv, NextIInv, PTL DEF Spec
<1> QED
  BY <1>1, PTL DEF IInv

\* The worker never comes back from popNotificationJob with a null pointer.
THEOREM PopFindsAJob == Spec => [](workerPc = "pop" => queue # <<>>)
<1>1. TypeOK /\ SemMatchesQueue => (workerPc = "pop" => queue # <<>>)
  BY DEF TypeOK, SemMatchesQueue, Pending
<1> QED
  BY <1>1, Invariance, PTL

-----------------------------------------------------------------------------
(* The refinement of JobSlots.                                             *)

\* Every step fills, takes or frees a slot, or leaves the slots alone.
LEMMA StepsAreSlotSteps == IInv /\ [Next]_vars => [Slots!Next]_(Slots!slots)
<1> SUFFICES ASSUME IInv, [Next]_vars
             PROVE  Slots!Next \/ UNCHANGED Slots!slots
  OBVIOUS
<1> USE JobAssumption DEF IInv, TypeOK, ActiveNamesJob, Slots!slots
<1>1. CASE \E j \in Job : EnqueueReading(j)
  <2> PICK j \in Job : EnqueueReading(j)
    BY <1>1
  <2>1. ~Slots!Outstanding(j.rec)
    BY DEF EnqueueReading, Duplicate, queueContainsRecLocked, Slots!Outstanding
  <2>2. Slots!Submit(j)
    BY <2>1 DEF EnqueueReading, Slots!Submit
  <2> QED
    BY <2>2 DEF Slots!Next
<1>2. CASE SemPost
  BY <1>2 DEF SemPost
<1>3. CASE SemWait
  BY <1>3 DEF SemWait
<1>4. CASE popNotificationJob
  <2>1. queue # <<>>
    BY <1>4 DEF popNotificationJob, SemMatchesQueue, Pending
  <2>2. Slots!Start
    BY <1>4, <2>1 DEF popNotificationJob, Slots!Start
  <2> QED
    BY <2>2 DEF Slots!Next
<1>5. CASE clearActiveNotification
  <2>1. Slots!Finish
    BY <1>5 DEF clearActiveNotification, Slots!Finish
  <2> QED
    BY <2>1 DEF Slots!Next
<1>6. CASE UNCHANGED vars
  BY <1>6 DEF vars
<1> QED
  BY <1>1, <1>2, <1>3, <1>4, <1>5, <1>6 DEF Next, Poller, Worker

\* Every behaviour of the two threads is a behaviour of the abstract slots:
\* first come first served, one job at a time, one per recommendation.
THEOREM Implementation == Spec => Slots!SafeSpec
<1>1. Init => Slots!Init
  BY DEF Init, Slots!Init
<1>2. Spec => []IInv
  BY InitIInv, NextIInv, PTL DEF Spec
<1> QED
  BY <1>1, <1>2, StepsAreSlotSteps, PTL DEF Spec, Slots!SafeSpec

=============================================================================
