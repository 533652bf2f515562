-------------------------- MODULE LockHistoryProofs --------------------------
(***************************************************************************)
(* Proofs about the lock file for any set of times and any set of failing  *)
(* calls, a failing read included.  The strengthening says what the        *)
(* running call carries: in memory the slots it read with one of them      *)
(* replaced, none of them wrong but those its read lost, and after the     *)
(* close the same in the temporary file.                                   *)
(***************************************************************************)
EXTENDS LockHistory, TLAPS

CallCarriesSlots ==
    lockPc # "idle" => /\ \A r \in Kind : lockState[r] \in {0, attempt[r]}
                       /\ \A r \in Kind \ losing : lockState[r] = attempt[r]

TmpIsComplete == lockPc \in {"remove", "rename"} => lockTmp = lockState

\* A remove that failed has left the old file as it was.
KeptOld ==
    lockPc = "rename" /\ lockFile # NoFile =>
        \A r \in Kind \ lost : OnDisk[r] = told[r]

IInv == /\ TypeOK /\ NeverPartial /\ ReadsToldOrNothing /\ SlotsKeptUnlessHurt
        /\ CallCarriesSlots /\ TmpIsComplete /\ KeptOld

\* The three sorts of file can be told apart.
LEMMA VersionsAreNotNames ==
    /\ \A v \in Versions : v # NoFile /\ v # Partial
    /\ NoUntil \in Versions
<1>1. ASSUME NEW v \in Versions PROVE v \in [Kind -> Nat]
  <2>1. Time \cup {0} \subseteq Nat
    BY LockAssumption
  <2>2. \A r \in Kind : v[r] \in Nat
    BY <2>1 DEF Versions
  <2> QED
    BY <2>2 DEF Versions
<1> QED
  BY <1>1, LockAssumption DEF Versions, NoUntil

\* What a call may read: the file, or two zeros.
LEMMA ReadsAre == \A slots \in Reads : slots \in {OnDisk, NoUntil}
  BY DEF Reads

\* The zeros of a failed read are allowed wherever the slots on disk are.
LEMMA ReadsFollowDisk ==
    ASSUME \A r \in Kind : OnDisk[r] \in {0, told[r]}
    PROVE  ReadsToldOrNothing
<1>1. \A r \in Kind : NoUntil[r] = 0
  BY DEF NoUntil
<1> QED
  BY <1>1, ReadsAre DEF ReadsToldOrNothing

\* The same in the state after a step.
LEMMA ReadsFollowDiskNext ==
    ASSUME \A r \in Kind : OnDisk'[r] \in {0, told'[r]}
    PROVE  ReadsToldOrNothing'
<1>1. \A r \in Kind : NoUntil[r] = 0
  BY DEF NoUntil
<1>2. \A slots \in Reads' : slots \in {OnDisk', NoUntil}
  BY DEF Reads, NoUntil
<1> QED
  BY <1>1, <1>2 DEF ReadsToldOrNothing

\* It holds for the files a process may find.
LEMMA InitIInv == HInit => IInv
<1> SUFFICES ASSUME HInit PROVE IInv
  OBVIOUS
<1> USE LockAssumption, VersionsAreNotNames DEF HInit, Init
<1>1. TypeOK /\ NeverPartial
  BY DEF TypeOK, NeverPartial, Files
<1>2. ReadsToldOrNothing /\ SlotsKeptUnlessHurt
  <2>1. \A r \in Kind : OnDisk[r] = 0 /\ told[r] = 0
    BY DEF OnDisk, NoUntil
  <2> QED
    BY <2>1, ReadsFollowDisk DEF SlotsKeptUnlessHurt
<1>3. CallCarriesSlots /\ TmpIsComplete /\ KeptOld
  BY DEF CallCarriesSlots, TmpIsComplete, KeptOld
<1> QED
  BY <1>1, <1>2, <1>3 DEF IInv

\* Every file system call, and every crash, keeps it.
LEMMA NextIInv == IInv /\ [Next]_vars => IInv'
<1> SUFFICES ASSUME IInv, [Next]_vars PROVE IInv'
  OBVIOUS
<1> USE DEF IInv
<1>0. OnDisk \in Versions /\ NoUntil \in Versions
  BY VersionsAreNotNames DEF TypeOK, NeverPartial, OnDisk, Files
<1>d. \A r \in Kind : OnDisk[r] \in {0, told[r]}
  BY DEF NeverPartial, ReadsToldOrNothing, Reads
<1>z. \A r \in Kind : NoUntil[r] = 0
  BY DEF NoUntil
<1>1. CASE \E rec \in Kind, until \in Time : Mark(rec, until)
  <2>1. PICK rec \in Kind, until \in Time : Mark(rec, until)
    BY <1>1
  <2>2. PICK slots \in Reads :
          /\ MarkSent(rec, until, slots)
          /\ losing' = {r \in Kind \ {rec} : r \in lost \/ slots[r] # OnDisk[r]}
    BY <2>1 DEF Mark
  <2>3. /\ lockPc = "idle" /\ lockPc' = "write" /\ lockTmp' = Partial
        /\ lockState' = [slots EXCEPT ![rec] = until]
        /\ attempt' = [told EXCEPT ![rec] = until]
        /\ UNCHANGED <<lockFile, told, lost>> /\ OnDisk' = OnDisk
    BY <2>1, <2>2 DEF Mark, MarkSent, OnDisk
  <2>4. slots \in Versions /\ told \in Versions
    BY <1>0, ReadsAre DEF TypeOK
  <2>5. TypeOK'
    BY <2>2, <2>3, <2>4 DEF TypeOK, Versions, Files
  <2>6. NeverPartial' /\ SlotsKeptUnlessHurt' /\ TmpIsComplete' /\ KeptOld'
    BY <2>3 DEF NeverPartial, SlotsKeptUnlessHurt, TmpIsComplete, KeptOld
  <2>7. ReadsToldOrNothing'
    BY <1>d, <2>3, ReadsFollowDiskNext
  <2>8. \A r \in Kind : lockState'[r] \in {0, attempt'[r]}
    <3>1. \A r \in Kind : slots[r] \in {0, told[r]}
      BY <1>d, <1>z, ReadsAre
    <3> QED
      BY <2>3, <2>4, <3>1 DEF Versions
  <2>9. \A r \in Kind \ losing' : lockState'[r] = attempt'[r]
    <3>1. \A r \in Kind \ losing' : r = rec \/ (r \notin lost /\ slots[r] = OnDisk[r])
      BY <2>2
    <3>2. \A r \in Kind \ lost : OnDisk[r] = told[r]
      BY <2>3 DEF SlotsKeptUnlessHurt
    <3> QED
      BY <2>3, <2>4, <3>1, <3>2 DEF Versions
  <2>10. CallCarriesSlots'
    BY <2>8, <2>9 DEF CallCarriesSlots
  <2> QED
    BY <2>5, <2>6, <2>7, <2>10
<1>2. CASE Write
  <2>1. CASE CloseTmp
    <3>1. OnDisk' = OnDisk /\ told' = told
      BY <1>2, <2>1 DEF Write, CloseTmp, OnDisk
    <3>2. ReadsToldOrNothing'
      BY <1>d, <3>1, ReadsFollowDiskNext
    <3> QED
      BY <1>2, <2>1, <3>1, <3>2 DEF Write, CloseTmp, TypeOK, Files, NeverPartial,
         SlotsKeptUnlessHurt, CallCarriesSlots, TmpIsComplete, KeptOld
  <2>2. CASE RemoveOld
    <3>1. lockFile' \in {NoFile, lockFile}
      BY <2>2 DEF RemoveOld
    <3>2. (TypeOK /\ NeverPartial)'
      BY <1>2, <2>2, <3>1, LockAssumption DEF Write, RemoveOld, TypeOK, Files, NeverPartial
    <3>3. OnDisk' \in {OnDisk, NoUntil} /\ told' = told
      BY <1>2, <3>1 DEF Write, OnDisk, NoUntil
    <3>4. ReadsToldOrNothing'
      BY <1>d, <1>z, <3>3, ReadsFollowDiskNext
    <3>5. (SlotsKeptUnlessHurt /\ CallCarriesSlots /\ TmpIsComplete)'
      BY <1>2, <2>2 DEF Write, RemoveOld, SlotsKeptUnlessHurt, CallCarriesSlots, TmpIsComplete
    <3>6. KeptOld'
      BY <1>2, <2>2, <3>1 DEF Write, RemoveOld, KeptOld, SlotsKeptUnlessHurt, OnDisk
    <3> QED
      BY <3>2, <3>4, <3>5, <3>6
  <2> QED
    BY <1>2, <2>1, <2>2 DEF Write
<1>3. CASE Return1
  <2> USE <1>3 DEF Return1, RenameTmp
  <2>1. lockFile' = lockState /\ lockFile' \in Versions
    BY DEF TmpIsComplete, TypeOK
  <2>2. (TypeOK /\ NeverPartial)'
    BY <2>1, VersionsAreNotNames DEF TypeOK, Files, NeverPartial
  <2>3. OnDisk' = lockState
    BY <2>1, VersionsAreNotNames DEF OnDisk
  <2>4. SlotsKeptUnlessHurt'
    BY <2>3 DEF SlotsKeptUnlessHurt, CallCarriesSlots
  <2>5. ReadsToldOrNothing'
    BY <2>3, ReadsFollowDiskNext DEF CallCarriesSlots
  <2>6. (CallCarriesSlots /\ TmpIsComplete /\ KeptOld)'
    BY DEF CallCarriesSlots, TmpIsComplete, KeptOld
  <2> QED
    BY <2>2, <2>4, <2>5, <2>6
<1>4. CASE Stopped /\ lockPc' = "idle" /\ lockFile' = lockFile
           /\ lockTmp' \in {lockTmp, NoFile} /\ lockState' \in {lockState, NoUntil}
  <2>1. OnDisk' = OnDisk /\ told' = told /\ attempt' = attempt
    BY <1>4 DEF Stopped, OnDisk
  <2>2. TypeOK' /\ NeverPartial'
    BY <1>0, <1>4 DEF Stopped, TypeOK, NeverPartial, Files
  <2>3. ReadsToldOrNothing'
    BY <1>d, <2>1, ReadsFollowDiskNext
  <2>4. CallCarriesSlots' /\ TmpIsComplete' /\ KeptOld'
    BY <1>4 DEF CallCarriesSlots, TmpIsComplete, KeptOld
  <2>5. SlotsKeptUnlessHurt'
    <3>1. CASE Cut
      BY <1>4, <3>1 DEF Stopped, SlotsKeptUnlessHurt
    <3>2. CASE lockPc # "rename"
      BY <1>4, <2>1, <3>2 DEF Stopped, Cut, SlotsKeptUnlessHurt
    <3>3. CASE lockPc = "rename" /\ lockFile # NoFile
      BY <1>4, <2>1, <3>3 DEF Stopped, Cut, KeptOld, SlotsKeptUnlessHurt
    <3> QED
      BY <3>1, <3>2, <3>3 DEF Cut
  <2> QED
    BY <2>2, <2>3, <2>4, <2>5
<1>5. CASE Return0
  BY <1>4, <1>5 DEF Return0, CloseTmpFails, RenameTmpFails
<1>6. CASE Die
  BY <1>4, <1>6 DEF Die, Crash
<1>7. CASE UNCHANGED vars
  BY <1>7 DEF vars, lockVars, TypeOK, NeverPartial, ReadsToldOrNothing, Reads, KeptOld,
     SlotsKeptUnlessHurt, CallCarriesSlots, TmpIsComplete, OnDisk
<1> QED
  BY <1>1, <1>2, <1>3, <1>5, <1>6, <1>7 DEF Next

\* So it holds in every state.
LEMMA Inductive == Spec => []IInv
  BY InitIInv, NextIInv, PTL DEF Spec

\* No interleaving of failures and crashes makes a partial file the lock.
THEOREM LockIsComplete == Spec => [](TypeOK /\ NeverPartial)
<1>1. IInv => TypeOK /\ NeverPartial
  BY DEF IInv
<1> QED
  BY <1>1, Inductive, PTL

\* A slot reads as the last mark that returned 1 left it, or as expired, by
\* a read that fails too.
THEOREM LockReadsToldOrNothing == Spec => []ReadsToldOrNothing
<1>1. IInv => ReadsToldOrNothing
  BY DEF IInv
<1> QED
  BY <1>1, Inductive, PTL

\* Both slots survive every update but a call that stopped between the remove
\* and the rename, and the other slot one whose read of the file failed.
THEOREM SlotsSurvive == Spec => []SlotsKeptUnlessHurt
<1>1. IInv => SlotsKeptUnlessHurt
  BY DEF IInv
<1> QED
  BY <1>1, Inductive, PTL

=============================================================================
