------------------------------ MODULE JobSlots ------------------------------
(***************************************************************************)
(* What the notification queue promises, without threads, mutex or         *)
(* semaphore: accepted jobs are served first come first served, one at a   *)
(* time, and while a recommendation is waiting or being served no second   *)
(* job for it is accepted.                                                 *)
(***************************************************************************)
EXTENDS Rec, Sequences

CONSTANTS Job,      \* the jobs that can be submitted
          NoJob     \* "nobody is being served"

VARIABLES pending,  \* accepted, not yet started
          current   \* the job being served, or NoJob

slots == <<pending, current>>

\* Some job for rec is waiting or being served.
Outstanding(rec) ==
    \/ \E i \in DOMAIN pending : pending[i].rec = rec
    \/ current # NoJob /\ current.rec = rec

Init == pending = <<>> /\ current = NoJob

Submit(j) ==
    /\ ~Outstanding(j.rec)
    /\ pending' = Append(pending, j)
    /\ UNCHANGED current

Start ==
    /\ current = NoJob
    /\ pending # <<>>
    /\ current' = Head(pending)
    /\ pending' = Tail(pending)

Finish ==
    /\ current # NoJob
    /\ current' = NoJob
    /\ UNCHANGED pending

Next == (\E j \in Job : Submit(j)) \/ Start \/ Finish

SafeSpec == Init /\ [][Next]_slots

\* Waiting jobs are started and started jobs end; nobody is obliged to submit.
Spec == SafeSpec /\ WF_slots(Start) /\ WF_slots(Finish)

=============================================================================
