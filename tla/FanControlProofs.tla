-------------------------- MODULE FanControlProofs --------------------------
(***************************************************************************)
(* Proofs about FanControl for any number of browsers, any fan, any bound  *)
(* on attempts, and any loss of requests and answers.                      *)
(*                                                                         *)
(* The strengthening has three parts: who is inside the handlers holds     *)
(* today_control_mutex; readings are ordered (what a row shows is not      *)
(* newer than what the CGI reports, nor that than the controller); and     *)
(* the power button knows the fan as long as only its own commands have    *)
(* reached the controller since it got the mutex.  The last part holds     *)
(* however late the CGI is: while the fan is being raised, it never shows  *)
(* more than the fan runs at.                                              *)
(***************************************************************************)
EXTENDS FanControl, TLAPS

Inside == {"page", "look", "send", "settle", "log"}

MutexHeld == \A c \in Client : web[c].pc \in Inside <=> control = c

FanSleeps == ~fan.awake => fan.speed = 0

ReadingsOrdered ==
    /\ shown.at <= fan.at
    /\ today.web <= shown.at
    /\ \A c \in Client : web[c].pc = "log" =>
          web[c].seen.at <= shown.at /\ today.web <= web[c].seen.at

\* act, cmd and raising go with the place in the handler.
Places(w) ==
    /\ w.pc = "page" => w.act = "page"
    /\ w.pc \in {"look", "send", "settle"} => w.act # "page"
    /\ w.pc \in {"lock", "page", "look"} => w.ups = 0 /\ ~w.raising
    /\ w.pc = "look" => w.cmd = "toggle"
    /\ w.pc \in {"send", "settle"} /\ w.act = "toggle" =>
          w.cmd = (IF w.ups = 0 THEN "toggle" ELSE "up")
    /\ w.ups > 0 => w.raising

\* The commands of the request that have been confirmed.
Confirmed(w) == IF w.pc = "send" THEN w.ups ELSE 1 + w.ups

SinceEntry(w) ==
    w.pc \in Inside => w.start <= fan.at

\* What the controller is like when only confirmed commands of this request
\* have reached it.
PowerKnows(w) ==
    w.act = "toggle" =>
        /\ w.pc = "look" /\ fan.at = w.start => w.dark = ~fan.awake
        /\ w.pc \in {"send", "settle"} => fan.at >= w.start + Confirmed(w)
        /\ w.pc = "send" /\ w.ups = 0 /\ fan.at = w.start => w.dark = ~fan.awake
        /\ w.pc = "send" /\ w.ups > 0 /\ w.dark /\ fan.at = w.start + w.ups =>
              fan.awake /\ fan.speed = w.ups - 1
        /\ w.pc = "settle" /\ fan.at = w.start + 1 + w.ups =>
              /\ w.dark => fan.awake /\ fan.speed = w.ups
              /\ ~w.dark /\ ~w.raising => ~fan.awake
        /\ w.pc = "log" => fan.at >= w.start + 1 + w.ups
        /\ w.pc = "log" /\ fan.at = w.start + 1 + w.ups =>
              /\ w.raising /\ w.dark =>
                    fan.speed = DEF_FAN_SPEED /\ w.seen.speed <= DEF_FAN_SPEED
              /\ ~w.raising /\ ~w.dark => ~fan.awake
        /\ /\ w.pc \in {"send", "settle"} /\ w.raising /\ w.dark
           /\ fan.at = w.start + Confirmed(w)
           => shown.speed <= fan.speed

Knows(w) == Places(w) /\ SinceEntry(w) /\ PowerKnows(w)

IInv == /\ TypeOK /\ MutexHeld /\ FanSleeps /\ ReadingsOrdered
        /\ \A c \in Client : Knows(web[c])

\* No command has been counted yet.
LEMMA ZeroesAreTyped ==
    /\ 0 \in Nat /\ 0 \in Speed /\ Off \in Reading
    /\ 0 \in 0 .. SENSOR_RETRY_COUNT - 1 /\ 0 \in 0 .. DEF_FAN_SPEED
  BY FanAssumption DEF Speed, Off, Reading

\* A thread that serves nobody has its type.
LEMMA IdleThread == Client0 \in Thread
  BY ZeroesAreTyped DEF Client0, Thread

-----------------------------------------------------------------------------
(* The controller and one attempt of a command.                            *)

\* At most one command reaches the controller in a step.
FanStep == fan' = fan \/ (fan' \in Fan /\ fan'.at = fan.at + 1)

\* An obeyed command changes the controller, never its count backwards.
LEMMA Obeying ==
    ASSUME TypeOK, FanSleeps, NEW cmd \in {"up", "down", "toggle"}
    PROVE  /\ Obeyed(cmd) \in Fan
           /\ Obeyed(cmd).at = fan.at + 1
           /\ ~Obeyed(cmd).awake => Obeyed(cmd).speed = 0
<1> USE FanAssumption DEF TypeOK, FanSleeps, Fan, Speed
<1>1. fan.awake \in BOOLEAN /\ fan.speed \in 0 .. MaxSpeed /\ fan.at \in Nat
  OBVIOUS
<1>2. CASE cmd = "toggle"
  <2>1. Obeyed(cmd) = [awake |-> ~fan.awake, speed |-> 0, at |-> fan.at + 1]
    BY <1>2 DEF Obeyed
  <2> QED
    BY <1>1, <2>1
<1>3. CASE cmd = "up"
  <2>1. Obeyed(cmd) = [awake |-> fan.awake,
                       speed |-> IF fan.awake /\ fan.speed < MaxSpeed
                                   THEN fan.speed + 1 ELSE fan.speed,
                       at |-> fan.at + 1]
    BY <1>3 DEF Obeyed
  <2> QED
    BY <1>1, <2>1
<1>4. CASE cmd = "down"
  <2>1. Obeyed(cmd) = [awake |-> fan.speed > 1,
                       speed |-> IF fan.speed > 0 THEN fan.speed - 1 ELSE 0,
                       at |-> fan.at + 1]
    BY <1>4 DEF Obeyed
  <2> QED
    BY <1>1, <2>1
<1> QED
  BY <1>2, <1>3, <1>4

\* What any number of attempts of one command leaves behind.
LEMMA Attempt ==
    ASSUME TypeOK, FanSleeps, NEW cmd \in {"up", "down", "toggle"},
           NEW tries \in 0 .. SENSOR_RETRY_COUNT - 1,
           NEW result \in {"ok", "again", "failed"},
           houseSendFanCommand(cmd, tries, result)
    PROVE  /\ FanStep /\ FanSleeps' /\ fan' \in Fan
           /\ result = "ok" => fan' = Obeyed(cmd)
           /\ result = "again" => tries + 1 \in 0 .. SENSOR_RETRY_COUNT - 1
           /\ losses' \in Nat
<1>1. fan' \in {fan, Obeyed(cmd)} /\ (result = "ok" => fan' = Obeyed(cmd))
  BY DEF houseSendFanCommand
<1>2. FanStep /\ FanSleeps' /\ fan' \in Fan
  BY <1>1, Obeying DEF FanStep, FanSleeps, TypeOK
<1>3. result = "again" => tries + 1 < SENSOR_RETRY_COUNT
  BY DEF houseSendFanCommand
<1>4. losses' \in Nat
  BY DEF houseSendFanCommand, TypeOK
<1> QED
  BY <1>1, <1>2, <1>3, <1>4, FanAssumption

-----------------------------------------------------------------------------
(* What a step does to the threads it is not a step of.                    *)

\* The CGI keeps its report, or catches up with a controller that rests.
ShownStep == shown' = shown \/ (fan' = fan /\ shown'.speed = fan.speed)

\* What is known of a thread survives a command of another and a new report.
LEMMA Beside ==
    ASSUME TypeOK, FanStep, ShownStep, NEW w \in Thread, Knows(w)
    PROVE  Knows(w)'
<1> USE FanAssumption DEF Knows
<1>1. fan.at \in Nat /\ w.start \in Nat /\ w.ups \in Nat /\ w.seen.at \in Nat
  BY DEF TypeOK, Thread, Fan, Reading
<1>2. CASE fan' = fan
  <2>1. shown'.speed <= fan'.speed \/ shown' = shown
    BY <1>2 DEF ShownStep, TypeOK, Fan, Speed
  <2> QED
    BY <1>2, <2>1 DEF Places, SinceEntry, PowerKnows, Confirmed
<1>3. CASE fan'.at = fan.at + 1
  <2>1. Places(w)'
    BY DEF Places
  <2>2. SinceEntry(w)'
    BY <1>1, <1>3 DEF SinceEntry, Inside
  <2>3. PowerKnows(w)'
    BY <1>1, <1>3 DEF PowerKnows, SinceEntry, Inside, Confirmed
  <2> QED
    BY <2>1, <2>2, <2>3
<1> QED
  BY <1>2, <1>3 DEF FanStep

\* One thread steps; what is known of the others stays.
LEMMA OtherThreads ==
    ASSUME IInv, FanStep, shown' = shown, NEW c \in Client, web'[c] \in Thread,
           Knows(web[c])', web' = [web EXCEPT ![c] = web'[c]]
    PROVE  web' \in [Client -> Thread] /\ \A d \in Client : Knows(web[d])'
<1>1. web \in [Client -> Thread] /\ web' \in [Client -> Thread]
  BY DEF IInv, TypeOK
<1>2. ASSUME NEW d \in Client, d # c PROVE Knows(web[d])'
  <2>1. web'[d] = web[d] /\ web[d] \in Thread /\ Knows(web[d])
    BY <1>1, <1>2 DEF IInv
  <2>2. ASSUME NEW v \in Thread, Knows(v) PROVE Knows(v)'
    BY <2>2, Beside DEF IInv, ShownStep
  <2> QED
    BY <2>1, <2>2 DEF Knows, Places, SinceEntry, PowerKnows, Confirmed
<1> QED
  BY <1>1, <1>2

\* A thread enters, leaves, or goes on where it is.
LEMMA MutexAfter ==
    ASSUME TypeOK, MutexHeld, NEW c \in Client, web' = [web EXCEPT ![c] = web'[c]],
           \/ /\ control' = control
              /\ web[c].pc \in Inside <=> web'[c].pc \in Inside
           \/ control = Nobody /\ control' = c /\ web'[c].pc \in Inside
           \/ web[c].pc \in Inside /\ control' = Nobody /\ web'[c].pc \notin Inside
    PROVE  MutexHeld' /\ control' \in Client \cup {Nobody}
<1>1. \A d \in Client : d # c => web'[d] = web[d]
  BY DEF TypeOK
<1>2. control \in Client \cup {Nobody} /\ Nobody \notin Client
  BY FanAssumption DEF TypeOK
<1>3. CASE control' = control /\ (web[c].pc \in Inside <=> web'[c].pc \in Inside)
  BY <1>1, <1>2, <1>3 DEF MutexHeld
<1>4. CASE control = Nobody /\ control' = c /\ web'[c].pc \in Inside
  BY <1>1, <1>2, <1>4 DEF MutexHeld
<1>5. CASE web[c].pc \in Inside /\ control' = Nobody /\ web'[c].pc \notin Inside
  BY <1>1, <1>2, <1>5 DEF MutexHeld
<1> QED
  BY <1>3, <1>4, <1>5

\* What a step of one client thread has to show.
LEMMA ThreadStep ==
    ASSUME IInv, NEW c \in Client, web'[c] \in Thread, web' = [web EXCEPT ![c] = web'[c]],
           Knows(web[c])',
           FanStep, fan' \in Fan, FanSleeps', MutexHeld', control' \in Client \cup {Nobody},
           web'[c].pc = "log" =>
               web'[c].seen.at <= shown.at /\ today.web <= web'[c].seen.at,
           \/ today' = today
           \/ /\ web[c].pc = "log" /\ web'[c].pc # "log"
              /\ today' = [speed |-> web[c].seen.speed, web |-> web[c].seen.at],
           requests' \in Nat, losses' \in Nat, UNCHANGED <<shown, poll, worker, polls>>
    PROVE  IInv'
<1>1. web' \in [Client -> Thread] /\ \A d \in Client : Knows(web[d])'
  BY OtherThreads
<1>2. web[c] \in Thread /\ shown \in Reading /\ \A d \in Client : web[d] \in Thread
  BY DEF IInv, TypeOK
<1>3. TypeOK'
  BY <1>1, <1>2 DEF IInv, TypeOK, Thread, Reading
<1>4. \A d \in Client : d # c => web'[d] = web[d]
  BY DEF IInv, TypeOK
<1>5. ReadingsOrdered'
  <2>1. shown.at \in Nat /\ fan.at \in Nat /\ fan'.at \in Nat /\ today.web \in Nat
    BY DEF IInv, TypeOK, Reading, Fan
  <2>2. shown'.at <= fan'.at
    BY <2>1 DEF FanStep, IInv, ReadingsOrdered
  <2>3. CASE today' = today
    BY <1>4, <2>2, <2>3 DEF IInv, ReadingsOrdered
  <2>4. CASE /\ web[c].pc = "log" /\ web'[c].pc # "log"
             /\ today' = [speed |-> web[c].seen.speed, web |-> web[c].seen.at]
    <3>1. today'.web = web[c].seen.at /\ web[c].seen.at <= shown.at
      BY <2>4 DEF IInv, ReadingsOrdered
    <3>2. \A d \in Client : web'[d].pc # "log"
      BY <1>4, <2>4 DEF IInv, MutexHeld, Inside
    <3> QED
      BY <2>2, <3>1, <3>2 DEF ReadingsOrdered
  <2> QED
    BY <2>3, <2>4
<1> QED
  BY <1>1, <1>3, <1>5 DEF IInv

-----------------------------------------------------------------------------
(* The steps of a client thread.                                           *)

\* A browser sends a request.
LEMMA RequestIInv ==
    ASSUME IInv, NEW c \in Client, NEW act \in {"page", "up", "down", "toggle"},
           Request(c, act)
    PROVE  IInv'
<1> DEFINE w == [Client0 EXCEPT !.pc = "lock", !.act = act]
<1>0. web \in [Client -> Thread] /\ web[c].pc = "idle"
  BY DEF IInv, TypeOK, Request
<1>1. web'[c] = w /\ web' = [web EXCEPT ![c] = w]
  BY <1>0 DEF Request
<1>2. w \in Thread
  BY IdleThread DEF Thread
<1>2a. w.pc = "lock" /\ w.ups = 0 /\ ~w.raising
  BY DEF Client0
<1> HIDE DEF w
<1>3. Knows(web[c])'
  BY <1>1, <1>2a DEF Knows, Places, SinceEntry, PowerKnows, Inside, Confirmed
<1>4. MutexHeld' /\ control' \in Client \cup {Nobody}
  BY <1>0, <1>1, <1>2a, MutexAfter DEF Inside, IInv, Request
<1>6. requests' \in Nat /\ losses' \in Nat /\ FanStep /\ fan' \in Fan /\ FanSleeps'
  BY DEF IInv, TypeOK, FanStep, FanSleeps, Request
<1> QED
  BY <1>0, <1>1, <1>2, <1>2a, <1>3, <1>4, <1>6, ThreadStep DEF Request

\* A thread that leaves the handlers releases the mutex it held.
LEMMA Leaving ==
    ASSUME IInv, NEW c \in Client, web[c].pc \in Inside, Leave(c, "idle"),
           FanStep, fan' \in Fan, FanSleeps', losses' \in Nat,
           UNCHANGED <<shown, poll, worker, today, requests, polls>>
    PROVE  IInv'
<1>1. web'[c] = Client0 /\ web' = [web EXCEPT ![c] = web'[c]] /\ control' = Nobody
  BY DEF Leave, Left, IInv, TypeOK
<1>2. Client0.pc = "idle" /\ Client0.ups = 0
  BY DEF Client0
<1>3. Knows(web[c])'
  BY <1>1, <1>2 DEF Knows, Places, SinceEntry, PowerKnows, Inside, Confirmed
<1>4. MutexHeld' /\ control' \in Client \cup {Nobody}
  BY <1>1, <1>2, MutexAfter DEF Inside, IInv
<1>5. requests' \in Nat
  BY DEF IInv, TypeOK
<1> QED
  BY <1>1, <1>2, <1>3, <1>4, <1>5, IdleThread, ThreadStep

\* A request gets the mutex, or is refused before it.
LEMMA EnterIInv == ASSUME IInv, NEW c \in Client, Enter(c) PROVE IInv'
<1> DEFINE pc == CASE web[c].act = "page" -> "page"
                   [] web[c].act = "toggle" -> "look"
                   [] OTHER -> "send"
           cmd == IF web[c].act = "page" THEN "toggle" ELSE web[c].act
           start == IF web[c].act = "toggle" THEN fan.at ELSE 0
           dark == web[c].act = "toggle" => ~fan.awake
           w == [web[c] EXCEPT !.pc = pc, !.cmd = cmd, !.start = start, !.dark = dark]
<1>0. web[c] \in Thread /\ web[c].pc = "lock" /\ Places(web[c])
  BY DEF IInv, TypeOK, Enter, Knows
<1>1. web'[c] = w /\ web' = [web EXCEPT ![c] = w]
  BY DEF Enter, IInv, TypeOK
<1>2. /\ pc \in {"page", "look", "send"} /\ cmd \in {"up", "down", "toggle"}
      /\ pc = "page" <=> web[c].act = "page"
      /\ pc = "look" <=> web[c].act = "toggle"
      /\ pc = "look" => cmd = "toggle"
  BY <1>0 DEF Thread
<1>3. /\ fan.at \in Nat /\ start \in Nat /\ start <= fan.at /\ dark \in BOOLEAN
      /\ web[c].act = "toggle" => start = fan.at /\ dark = ~fan.awake
  BY DEF IInv, TypeOK, Fan
<1> HIDE DEF pc, cmd, start, dark
<1>4. /\ w \in Thread
      /\ w.pc = pc /\ w.cmd = cmd /\ w.start = start /\ w.dark = dark
      /\ w.act = web[c].act /\ w.ups = 0 /\ ~w.raising
  BY <1>0, <1>2, <1>3 DEF Thread, Places
<1> HIDE DEF w
<1>5. UNCHANGED <<fan, shown, poll, worker, today, requests, polls, losses>> /\ control = Nobody /\ control' = c
  BY DEF Enter, TakesMutex
<1>7. MutexHeld' /\ control' \in Client \cup {Nobody}
  BY <1>1, <1>2, <1>4, <1>5, MutexAfter DEF Inside, IInv
<1>8. Knows(web[c])'
  BY <1>1, <1>2, <1>3, <1>4, <1>5 DEF Knows, Places, SinceEntry, PowerKnows, Inside, Confirmed
<1>9. requests' \in Nat /\ losses' \in Nat /\ FanStep /\ fan' \in Fan /\ FanSleeps'
  BY <1>5 DEF IInv, TypeOK, FanStep, FanSleeps
<1> QED
  BY <1>1, <1>2, <1>4, <1>5, <1>7, <1>8, <1>9, ThreadStep

\* The poll on page access, inside the mutex.
LEMMA PagePollIInv == ASSUME IInv, NEW c \in Client, PagePoll(c) PROVE IInv'
<1> DEFINE w == [web[c] EXCEPT !.pc = "log", !.seen = shown]
<1>0. web[c] \in Thread /\ web[c].pc = "page" /\ web[c].act = "page" /\ shown \in Reading
  BY DEF IInv, TypeOK, PagePoll, Knows, Places
<1>1. UNCHANGED <<fan, shown, poll, worker, today, requests, polls, losses>>
  BY DEF PagePoll
<1>2. requests' \in Nat /\ losses' \in Nat /\ FanStep /\ fan' \in Fan /\ FanSleeps'
  BY <1>1 DEF IInv, TypeOK, FanStep, FanSleeps
<1>3. CASE Leave(c, "idle")
  BY <1>0, <1>1, <1>2, <1>3, Leaving DEF Inside
<1>4. CASE web' = [web EXCEPT ![c].pc = "log", ![c].seen = shown] /\ control' = control
  <2>1. web'[c] = w /\ web' = [web EXCEPT ![c] = w]
    BY <1>4 DEF IInv, TypeOK
  <2>2. w \in Thread /\ w.pc = "log" /\ w.seen = shown /\ w.act = "page" /\ w.start = web[c].start
        /\ w.ups = web[c].ups /\ w.raising = web[c].raising
    BY <1>0 DEF Thread
  <2> HIDE DEF w
  <2>3. Knows(web[c])'
    BY <1>0, <1>1, <2>1, <2>2 DEF IInv, Knows, Places, SinceEntry, PowerKnows, Inside
  <2>4. MutexHeld' /\ control' \in Client \cup {Nobody}
    BY <1>0, <1>4, <2>1, <2>2, MutexAfter DEF Inside, IInv
  <2>5. w.seen.at <= shown.at /\ today.web <= w.seen.at
    BY <2>2, <1>0 DEF IInv, ReadingsOrdered, Reading
  <2> QED
    BY <1>1, <1>2, <2>1, <2>2, <2>3, <2>4, <2>5, ThreadStep
<1> QED
  BY <1>3, <1>4 DEF PagePoll

\* The power button reads the fan and toggles one that runs.
LEMMA PowerLookIInv == ASSUME IInv, NEW c \in Client, PowerLook(c) PROVE IInv'
<1> DEFINE w == [web[c] EXCEPT !.pc = "send", !.raising = (shown.speed = 0)]
<1>0. web[c] \in Thread /\ web[c].pc = "look" /\ Knows(web[c]) /\ shown \in Reading
  BY DEF IInv, TypeOK, PowerLook
<1>1. UNCHANGED <<fan, shown, poll, worker, today, requests, polls, losses>>
  BY DEF PowerLook
<1>2. requests' \in Nat /\ losses' \in Nat /\ FanStep /\ fan' \in Fan /\ FanSleeps'
  BY <1>1 DEF IInv, TypeOK, FanStep, FanSleeps
<1>3. CASE Leave(c, "idle")
  BY <1>0, <1>1, <1>2, <1>3, Leaving DEF Inside
<1>4. CASE /\ web' = [web EXCEPT ![c].pc = "send", ![c].raising = (shown.speed = 0)]
           /\ control' = control
  <2>1. web'[c] = w /\ web' = [web EXCEPT ![c] = w]
    BY <1>4 DEF IInv, TypeOK
  <2>2. /\ w \in Thread /\ w.pc = "send" /\ w.ups = 0
        /\ w.act = web[c].act /\ w.start = web[c].start /\ w.cmd = "toggle"
        /\ w.dark = web[c].dark /\ w.start \in Nat
    BY <1>0 DEF Thread, Knows, Places
  <2>2a. w.raising => shown.speed <= fan.speed
    <3>1. w.raising => shown.speed = 0
      BY <1>0 DEF Thread
    <3>2. fan.speed \in Nat
      BY DEF IInv, TypeOK, Fan, Speed
    <3> HIDE DEF w
    <3> QED
      BY <3>1, <3>2
  <2> HIDE DEF w
  <2>3. Knows(web[c])'
    BY <1>0, <1>1, <2>1, <2>2, <2>2a DEF Knows, Places, SinceEntry, PowerKnows, Inside, Confirmed
  <2>4. MutexHeld' /\ control' \in Client \cup {Nobody}
    BY <1>0, <1>4, <2>1, <2>2, MutexAfter DEF Inside, IInv
  <2> QED
    BY <1>1, <1>2, <2>1, <2>2, <2>3, <2>4, ThreadStep
<1> QED
  BY <1>3, <1>4 DEF PowerLook

\* The power-on branch sends a speed that is below the default, so the step
\* up that is confirmed was one the fan could take.
LEMMA CommandOk ==
    ASSUME IInv, NEW c \in Client, web[c].pc = "send",
           houseSendFanCommand(web[c].cmd, web[c].tries, "ok"),
           web' = [web EXCEPT ![c].pc = "settle", ![c].tries = 0],
           UNCHANGED <<control, shown, poll, worker, today, requests, polls>>
    PROVE  IInv'
<1> DEFINE w == [web[c] EXCEPT !.pc = "settle", !.tries = 0]
<1>0. web[c] \in Thread /\ Knows(web[c]) /\ fan \in Fan
  BY DEF IInv, TypeOK
<1>0a. /\ web[c].cmd \in {"up", "down", "toggle"} /\ web[c].tries \in 0 .. SENSOR_RETRY_COUNT - 1
       /\ web[c].ups \in 0 .. DEF_FAN_SPEED
  BY <1>0 DEF Thread
<1>1. fan' = Obeyed(web[c].cmd) /\ fan'.at = fan.at + 1 /\ FanStep /\ fan' \in Fan /\ FanSleeps'
  BY <1>0a, Attempt, Obeying DEF IInv
<1>2. web'[c] = w /\ web' = [web EXCEPT ![c] = w]
  BY DEF IInv, TypeOK
<1>3. /\ w \in Thread /\ w.pc = "settle" /\ w.ups = web[c].ups /\ w.act = web[c].act
      /\ w.start = web[c].start /\ w.cmd = web[c].cmd /\ w.raising = web[c].raising
      /\ w.dark = web[c].dark /\ w.start \in Nat
  BY <1>0, ZeroesAreTyped DEF Thread
<1>3a. w.ups \in Nat /\ web[c].ups \in Nat
  BY <1>0a, <1>3, FanAssumption
<1> HIDE DEF w
<1>4. fan.at \in Nat /\ fan.speed \in 0 .. MaxSpeed /\ shown.speed \in 0 .. MaxSpeed
  BY <1>0 DEF Fan, Speed, IInv, TypeOK, Reading
<1>5. web[c].cmd = "toggle" => fan'.awake = ~fan.awake /\ fan'.speed = 0
  BY <1>1 DEF Obeyed
<1>6. web[c].cmd = "up" /\ fan.awake /\ fan.speed < MaxSpeed =>
          fan'.awake /\ fan'.speed = fan.speed + 1
  BY <1>1 DEF Obeyed
<1>7. ASSUME web[c].act = "toggle", fan'.at = w.start + 1 + w.ups
      PROVE  /\ w.dark => fan'.awake /\ fan'.speed = w.ups
             /\ ~w.dark /\ ~w.raising => ~fan'.awake
             /\ w.raising /\ w.dark => shown.speed <= fan'.speed
  <2>0. web[c].raising /\ web[c].dark /\ fan.at = web[c].start + web[c].ups =>
            shown.speed <= fan.speed
    BY <1>0, <1>3, <1>7 DEF Knows, PowerKnows, Confirmed
  <2>1. fan.at = web[c].start + web[c].ups
    BY <1>1, <1>3, <1>3a, <1>4, <1>7
  <2>2. CASE web[c].ups = 0
    <3>1. /\ w.dark => fan'.awake /\ fan'.speed = w.ups
          /\ ~w.dark /\ ~w.raising => ~fan'.awake
      BY <1>0, <1>3, <1>5, <1>7, <2>1, <2>2 DEF Knows, Places, PowerKnows
    <3>2. w.raising /\ w.dark => shown.speed <= fan'.speed
      <4>1. w.dark => fan.speed = 0
        <5>1. fan.at = web[c].start
          BY <1>3, <1>4, <2>1, <2>2
        <5>2. w.dark => ~fan.awake
          BY <1>0, <1>3, <1>7, <2>2, <5>1 DEF Knows, PowerKnows
        <5> QED
          BY <5>2 DEF FanSleeps, IInv
      <4>2. w.raising /\ w.dark => shown.speed <= 0 /\ fan'.speed = 0
        BY <1>3, <2>0, <2>1, <2>2, <3>1, <4>1
      <4> QED
        BY <1>4, <4>2
    <3> QED
      BY <3>1, <3>2
  <2>3. CASE web[c].ups > 0
    <3>1. web[c].cmd = "up" /\ web[c].raising
      BY <1>0, <1>7, <2>3 DEF Knows, Places
    <3>2. web[c].dark => fan.awake /\ fan.speed = web[c].ups - 1
      BY <1>0, <1>3a, <1>7, <2>1, <2>3 DEF Knows, PowerKnows
    <3>3. web[c].ups - 1 < MaxSpeed
      BY <1>0a, FanAssumption
    <3> QED
      BY <1>3, <1>3a, <1>4, <1>6, <2>0, <2>1, <3>1, <3>2, <3>3, FanAssumption
  <2> QED
    BY <1>0a, <2>2, <2>3
<1>8. Knows(web[c])'
  <2>1. Places(web[c])'
    BY <1>0, <1>2, <1>3 DEF Knows, Places
  <2>2. SinceEntry(web[c])'
    BY <1>0, <1>1, <1>2, <1>3, <1>4 DEF Knows, SinceEntry, Inside
  <2>3. web[c].act = "toggle" => fan'.at >= w.start + 1 + w.ups
    BY <1>0, <1>1, <1>3, <1>3a, <1>4 DEF Knows, PowerKnows, Confirmed
  <2>4. PowerKnows(web[c])'
    BY <1>1, <1>2, <1>3, <1>3a, <1>4, <1>7, <2>3 DEF PowerKnows, Confirmed
  <2> QED
    BY <2>1, <2>2, <2>4 DEF Knows
<1>9. MutexHeld' /\ control' \in Client \cup {Nobody}
  BY <1>2, <1>3, MutexAfter DEF Inside, IInv
<1>10. requests' \in Nat /\ losses' \in Nat
  BY <1>0a, Attempt DEF IInv, TypeOK
<1> QED
  BY <1>1, <1>2, <1>3, <1>8, <1>9, <1>10, ThreadStep

\* One step up or down.
LEMMA CommandIInv == ASSUME IInv, NEW c \in Client, Command(c) PROVE IInv'
<1>0. web[c] \in Thread /\ Knows(web[c]) /\ fan \in Fan /\ web[c].pc = "send"
  BY DEF IInv, TypeOK, Command
<1>0a. web[c].cmd \in {"up", "down", "toggle"} /\ web[c].tries \in 0 .. SENSOR_RETRY_COUNT - 1
  BY <1>0 DEF Thread
<1>1. UNCHANGED <<shown, poll, worker, today, requests, polls>>
  BY DEF Command
<1>2. PICK result \in {"ok", "again", "failed"} :
          /\ houseSendFanCommand(web[c].cmd, web[c].tries, result)
          /\ \/ /\ result = "ok"
                /\ web' = [web EXCEPT ![c].pc = "settle", ![c].tries = 0]
                /\ UNCHANGED control
             \/ /\ result = "again"
                /\ web' = [web EXCEPT ![c].tries = @ + 1]
                /\ UNCHANGED control
             \/ result = "failed" /\ Leave(c, "idle")
  BY DEF Command
<1>3. /\ FanStep /\ FanSleeps' /\ fan' \in Fan /\ losses' \in Nat
      /\ result = "again" => web[c].tries + 1 \in 0 .. SENSOR_RETRY_COUNT - 1
  BY <1>0a, <1>2, Attempt DEF IInv
<1>4. CASE result = "ok"
  BY <1>0, <1>1, <1>2, <1>4, CommandOk
<1>5. CASE result = "failed"
  BY <1>0, <1>1, <1>2, <1>3, <1>5, Leaving DEF Inside
<1>6. CASE result = "again"
  <2> DEFINE w == [web[c] EXCEPT !.tries = @ + 1]
  <2>1. web' = [web EXCEPT ![c] = w] /\ control' = control
    BY <1>2, <1>6
  <2>2. web'[c] = w
    BY <2>1 DEF IInv, TypeOK
  <2>3. /\ w \in Thread /\ w.pc = "send" /\ w.act = web[c].act /\ w.ups = web[c].ups
        /\ w.raising = web[c].raising /\ w.cmd = web[c].cmd /\ w.start = web[c].start
        /\ w.dark = web[c].dark /\ w.seen = web[c].seen
    BY <1>0, <1>3, <1>6 DEF Thread
  <2> HIDE DEF w
  <2>4. Knows(web[c])'
    <3>1. ASSUME NEW v \in Thread, Knows(v) PROVE Knows(v)'
      BY <1>1, <1>3, <3>1, Beside DEF IInv, ShownStep
    <3>2. PICK v \in Thread : v = web[c]
      BY <1>0
    <3>3. Knows(v)'
      BY <1>0, <3>1, <3>2
    <3> QED
      BY <1>0, <1>1, <2>2, <2>3, <3>2, <3>3 DEF Knows, Places, SinceEntry, PowerKnows, Confirmed
  <2>5. MutexHeld' /\ control' \in Client \cup {Nobody}
    BY <1>0, <2>1, <2>2, <2>3, MutexAfter DEF Inside, IInv
  <2>6. requests' \in Nat
    BY <1>1 DEF IInv, TypeOK
  <2> QED
    BY <1>1, <1>3, <2>1, <2>2, <2>3, <2>4, <2>5, <2>6, ThreadStep
<1> QED
  BY <1>4, <1>5, <1>6

\* The reading after the fan has settled, which may ask for one step more.
LEMMA SettledReadIInv == ASSUME IInv, NEW c \in Client, SettledRead(c) PROVE IInv'
<1> DEFINE more == KeepsRaising(c)
           pc == IF more THEN "send" ELSE "log"
           cmd == IF more THEN "up" ELSE web[c].cmd
           ups == IF more THEN web[c].ups + 1 ELSE web[c].ups
           seen == IF more THEN web[c].seen ELSE shown
           w == [web[c] EXCEPT !.seen = seen, !.pc = pc, !.cmd = cmd, !.ups = ups]
<1>0. web[c] \in Thread /\ Knows(web[c]) /\ fan \in Fan /\ web[c].pc = "settle" /\ shown \in Reading
  BY DEF IInv, TypeOK, SettledRead
<1>0a. /\ web[c].ups \in 0 .. DEF_FAN_SPEED /\ web[c].start \in Nat /\ fan.at \in Nat
       /\ web[c].cmd \in {"up", "down", "toggle"} /\ shown.at \in Nat /\ shown.speed \in 0 .. MaxSpeed
       /\ fan.speed \in 0 .. MaxSpeed
       /\ web[c].ups \in Nat
  BY <1>0, FanAssumption DEF Thread, Fan, Reading, Speed
<1>1. UNCHANGED <<fan, shown, poll, worker, today, requests, polls, losses>>
  BY DEF SettledRead
<1>2. requests' \in Nat /\ losses' \in Nat /\ FanStep /\ fan' \in Fan /\ FanSleeps'
  BY <1>1 DEF IInv, TypeOK, FanStep, FanSleeps
<1>4. more => web[c].raising /\ web[c].ups < DEF_FAN_SPEED
  BY DEF KeepsRaising
<1>5. ~more => \/ ~web[c].raising \/ shown.speed >= DEF_FAN_SPEED \/ web[c].ups >= DEF_FAN_SPEED
  BY <1>0a, FanAssumption DEF KeepsRaising
<1>6. CASE Leave(c, "idle")
  BY <1>0, <1>1, <1>2, <1>6, Leaving DEF Inside
<1>7. CASE ~Leave(c, "idle")
  <2>0. /\ web' = IF more
                   THEN [web EXCEPT ![c].pc = "send", ![c].cmd = "up", ![c].ups = @ + 1]
                   ELSE [web EXCEPT ![c].pc = "log", ![c].seen = shown]
        /\ control' = control
    BY <1>7 DEF SettledRead
  <2> HIDE DEF more
  <2>1. web'[c] = w /\ web' = [web EXCEPT ![c] = w]
    <3>0. web \in [Client -> Thread] /\ web[c] \in Thread
      BY DEF IInv, TypeOK
    <3>1. CASE more
      <4>1. w = [web[c] EXCEPT !.pc = "send", !.cmd = "up", !.ups = @ + 1]
        BY <1>0, <3>1 DEF Thread
      <4> HIDE DEF w
      <4> QED
        BY <2>0, <3>0, <3>1, <4>1
    <3>2. CASE ~more
      <4>1. w = [web[c] EXCEPT !.pc = "log", !.seen = shown]
        BY <1>0, <3>2 DEF Thread
      <4> HIDE DEF w
      <4> QED
        BY <2>0, <3>0, <3>2, <4>1
    <3> QED
      BY <3>1, <3>2
  <2>2. pc \in {"send", "log"} /\ cmd \in {"up", "down", "toggle"} /\ ups \in 0 .. DEF_FAN_SPEED
    BY <1>0a, <1>4, FanAssumption
  <2>3. /\ w \in Thread /\ w.seen = seen /\ w.pc = pc /\ w.cmd = cmd /\ w.ups = ups
        /\ w.act = web[c].act /\ w.raising = web[c].raising /\ w.start = web[c].start
        /\ w.dark = web[c].dark
    BY <1>0, <2>2 DEF Thread
  <2> HIDE DEF w, pc, cmd, ups, seen
  <2>4. CASE more
    <3>1. pc = "send" /\ cmd = "up" /\ ups = web[c].ups + 1
      BY <2>4 DEF pc, cmd, ups
    <3>2. Knows(web[c])'
      BY <1>0, <1>0a, <1>1, <1>4, <2>1, <2>3, <2>4, <3>1
         DEF Knows, Places, SinceEntry, PowerKnows, Inside, Confirmed
    <3>3. MutexHeld' /\ control' \in Client \cup {Nobody}
      BY <1>0, <2>0, <2>1, <2>3, <3>1, MutexAfter DEF Inside, IInv
    <3> QED
      BY <1>1, <1>2, <2>1, <2>3, <3>1, <3>2, <3>3, ThreadStep
  <2>5. CASE ~more
    <3>1. pc = "log" /\ cmd = web[c].cmd /\ ups = web[c].ups /\ seen = shown
      BY <2>5 DEF pc, cmd, ups, seen
    <3>2. Places(web[c])' /\ SinceEntry(web[c])'
      BY <1>0, <1>0a, <1>1, <2>1, <2>3, <3>1
         DEF Knows, Places, SinceEntry, Inside
    <3>3. PowerKnows(web[c])'
      <4>1. ASSUME web[c].act = "toggle", fan.at = web[c].start + 1 + web[c].ups
            PROVE  /\ web[c].raising /\ web[c].dark =>
                         fan.speed = DEF_FAN_SPEED /\ shown.speed <= DEF_FAN_SPEED
                   /\ ~web[c].raising /\ ~web[c].dark => ~fan.awake
        <5>1. web[c].raising /\ web[c].dark =>
                  fan.speed = web[c].ups /\ shown.speed <= fan.speed
          BY <1>0, <1>0a, <4>1 DEF Knows, PowerKnows, Confirmed
        <5>2. ~web[c].raising /\ ~web[c].dark => ~fan.awake
          BY <1>0, <4>1 DEF Knows, PowerKnows
        <5> QED
          BY <1>0a, <1>5, <2>5, <5>1, <5>2, FanAssumption
      <4>2. web[c].act = "toggle" => fan.at >= web[c].start + 1 + web[c].ups
        BY <1>0, <1>0a DEF Knows, PowerKnows, Confirmed
      <4> QED
        BY <1>1, <2>1, <2>3, <3>1, <4>1, <4>2 DEF PowerKnows
    <3>4. MutexHeld' /\ control' \in Client \cup {Nobody}
      BY <1>0, <2>0, <2>1, <2>3, <3>1, MutexAfter DEF Inside, IInv
    <3>5. w.seen.at <= shown.at /\ today.web <= w.seen.at
      BY <1>0a, <2>3, <3>1 DEF IInv, ReadingsOrdered
    <3>6. Knows(web[c])'
      BY <3>2, <3>3 DEF Knows
    <3> QED
      BY <1>1, <1>2, <2>1, <2>3, <3>1, <3>4, <3>5, <3>6, ThreadStep
  <2> QED
    BY <2>4, <2>5
<1> QED
  BY <1>6, <1>7

\* The row of a request.
LEMMA LogSnapshotIInv == ASSUME IInv, NEW c \in Client, LogSnapshot(c) PROVE IInv'
<1> DEFINE w == [Client0 EXCEPT !.pc = "answer", !.seen.speed = web[c].seen.speed]
<1>0. web[c] \in Thread /\ Knows(web[c]) /\ web[c].pc = "log"
  BY DEF IInv, TypeOK, LogSnapshot
<1>1. UNCHANGED <<fan, shown, poll, worker, requests, polls, losses>>
  BY DEF LogSnapshot
<1>2. requests' \in Nat /\ losses' \in Nat /\ FanStep /\ fan' \in Fan /\ FanSleeps'
  BY <1>1 DEF IInv, TypeOK, FanStep, FanSleeps
<1>3. CASE Leave(c, "idle") /\ UNCHANGED today
  BY <1>0, <1>1, <1>2, <1>3, Leaving DEF Inside
<1>4. ASSUME today' = [speed |-> web[c].seen.speed, web |-> web[c].seen.at],
             NEW to \in {"idle", "answer"}, Leave(c, to)
      PROVE  IInv'
  <2> DEFINE v == IF to = "idle" THEN Client0 ELSE w
  <2>1. web'[c] = v /\ web' = [web EXCEPT ![c] = v] /\ control' = Nobody
    BY <1>4 DEF Leave, Left, IInv, TypeOK
  <2>2. w \in Thread /\ w.pc = "answer" /\ w.act = "page" /\ w.ups = 0
    BY <1>0, ZeroesAreTyped DEF Thread, Client0, Off, Reading
  <2>3. v \in Thread /\ v.pc \in {"idle", "answer"}
    BY <2>2, IdleThread DEF Client0
  <2>4. Knows(web[c])'
    <3>1. CASE to = "idle"
      BY <2>1, <3>1 DEF Client0, Knows, Places, SinceEntry, PowerKnows, Inside, Confirmed
    <3>2. CASE to = "answer"
      <4>1. web'[c] = w
        BY <2>1, <3>2
      <4> HIDE DEF w
      <4> QED
        BY <1>0, <2>2, <4>1 DEF Knows, Places, SinceEntry, PowerKnows, Inside, Confirmed
    <3> QED
      BY <3>1, <3>2
  <2> HIDE DEF v
  <2>5. MutexHeld' /\ control' \in Client \cup {Nobody}
    BY <1>0, <2>1, <2>3, MutexAfter DEF Inside, IInv
  <2> QED
    BY <1>0, <1>1, <1>2, <1>4, <2>1, <2>3, <2>4, <2>5, ThreadStep
<1> QED
  BY <1>3, <1>4 DEF LogSnapshot

\* The answer, after the mutex has been released.
LEMMA AnswerIInv == ASSUME IInv, NEW c \in Client, Answer(c) PROVE IInv'
<1>0. web[c].pc = "answer" /\ UNCHANGED <<fan, shown, control, poll, worker, today, requests, polls, losses>>
  BY DEF Answer
<1>1. web'[c] = Client0 /\ web' = [web EXCEPT ![c] = web'[c]]
  BY DEF Answer, IInv, TypeOK
<1>2. Client0.pc = "idle" /\ Client0.ups = 0
  BY DEF Client0
<1>3. Knows(web[c])'
  BY <1>1, <1>2 DEF Knows, Places, SinceEntry, PowerKnows, Inside, Confirmed
<1>4. MutexHeld' /\ control' \in Client \cup {Nobody}
  BY <1>0, <1>1, <1>2, MutexAfter DEF Inside, IInv
<1>5. requests' \in Nat /\ losses' \in Nat /\ FanStep /\ fan' \in Fan /\ FanSleeps'
  BY <1>0 DEF IInv, TypeOK, FanStep, FanSleeps
<1> QED
  BY <1>0, <1>1, <1>2, <1>3, <1>4, <1>5, IdleThread, ThreadStep

-----------------------------------------------------------------------------
(* The steps of everyone else.                                             *)

\* A step that leaves the client threads alone: the controller may have
\* obeyed the worker, and what is shown may have caught up.
LEMMA NoThreadStep ==
    ASSUME IInv, UNCHANGED <<web, control>>, FanStep, fan' \in Fan, FanSleeps',
           shown' \in Reading, shown.at <= shown'.at, shown'.at <= fan'.at,
           today'.web = today.web, today' \in [speed : Speed, web : Nat],
           poll' \in [pc : {"read", "queue", "log"}, speed : Speed],
           worker' \in [pc : {"wait", "send", "log"}, speed : Speed,
                        tries : 0 .. SENSOR_RETRY_COUNT - 1],
           ShownStep, requests' \in Nat, polls' \in Nat, losses' \in Nat
    PROVE  IInv'
<1>1. TypeOK' /\ MutexHeld'
  BY DEF IInv, TypeOK, MutexHeld
<1>2. ReadingsOrdered'
  <2>1. \A c \in Client : web[c] \in Thread /\ web[c].seen.at \in Nat
    BY DEF IInv, TypeOK, Thread, Reading
  <2>2. shown.at \in Nat /\ shown'.at \in Nat /\ today.web \in Nat
    BY DEF IInv, TypeOK, Reading
  <2> QED
    BY <2>1, <2>2 DEF IInv, ReadingsOrdered
<1>3. ASSUME NEW c \in Client PROVE Knows(web[c])'
  <2>1. ASSUME NEW v \in Thread, Knows(v) PROVE Knows(v)'
    BY <2>1, Beside DEF IInv
  <2>2. PICK v \in Thread : v = web[c]
    BY DEF IInv, TypeOK
  <2>3. Knows(v)'
    BY <2>1, <2>2 DEF IInv
  <2> QED
    BY <2>2, <2>3 DEF Knows, Places, SinceEntry, PowerKnows, Confirmed
<1> QED
  BY <1>1, <1>2, <1>3 DEF IInv

\* The report catches up with the controller.
LEMMA SettleIInv == ASSUME IInv, Settle PROVE IInv'
<1>1. /\ shown' = [speed |-> fan.speed, at |-> fan.at] /\ fan \in Fan /\ shown \in Reading
      /\ UNCHANGED <<fan, control, web, poll, worker, today, requests, polls, losses>>
  BY DEF Settle, IInv, TypeOK
<1>2. shown' \in Reading /\ shown.at <= shown'.at /\ shown'.at <= fan'.at
  BY <1>1 DEF IInv, ReadingsOrdered, Fan, Reading
<1> QED
  BY <1>1, <1>2, NoThreadStep DEF IInv, TypeOK, FanStep, ShownStep, FanSleeps

\* The poller reads, queues and logs.
LEMMA PollerIInv == ASSUME IInv, Poller PROVE IInv'
<1> USE ZeroesAreTyped DEF IInv
<1>1. /\ UNCHANGED <<fan, shown, control, web, requests, losses>>
      /\ shown \in Reading /\ shown.speed \in Speed /\ poll.speed \in Speed
      /\ shown.at <= shown'.at /\ shown'.at <= fan'.at
  BY DEF Poller, PollerReads, PollerQueues, PollerLogs, TypeOK, Reading, Fan, ReadingsOrdered
<1>2. /\ poll' \in [pc : {"read", "queue", "log"}, speed : Speed]
      /\ worker' \in [pc : {"wait", "send", "log"}, speed : Speed,
                      tries : 0 .. SENSOR_RETRY_COUNT - 1]
      /\ polls' \in Nat
      /\ today'.web = today.web /\ today' \in [speed : Speed, web : Nat]
  <2>1. CASE PollerReads
    BY <1>1, <2>1 DEF PollerReads, TypeOK
  <2>2. CASE PollerQueues
    BY <1>1, <2>2 DEF PollerQueues, TypeOK
  <2>3. CASE PollerLogs
    BY <1>1, <2>3 DEF PollerLogs, TypeOK
  <2> QED
    BY <2>1, <2>2, <2>3 DEF Poller
<1> QED
  BY <1>1, <1>2, NoThreadStep DEF TypeOK, FanStep, ShownStep, FanSleeps

\* The worker toggles the fan off and logs.
LEMMA WorkerIInv == ASSUME IInv, Worker PROVE IInv'
<1>0. /\ worker.speed \in Speed /\ worker.tries \in 0 .. SENSOR_RETRY_COUNT - 1
      /\ shown \in Reading /\ shown.at \in Nat /\ fan.at \in Nat /\ shown.at <= fan.at
  BY DEF IInv, TypeOK, Reading, Fan, ReadingsOrdered
<1>1. CASE WorkerTurnsOff
  <2>1. UNCHANGED <<shown, control, web, poll, today, requests, polls>>
    BY <1>1 DEF WorkerTurnsOff
  <2>2. PICK result \in {"ok", "again", "failed"} :
            /\ houseSendFanCommand("toggle", worker.tries, result)
            /\ worker' = IF result = "again" THEN [worker EXCEPT !.tries = @ + 1]
                         ELSE [worker EXCEPT !.pc = "log"]
    BY <1>1 DEF WorkerTurnsOff
  <2>3. /\ FanStep /\ FanSleeps' /\ fan' \in Fan /\ losses' \in Nat
        /\ result = "again" => worker.tries + 1 \in 0 .. SENSOR_RETRY_COUNT - 1
    BY <1>0, <2>2, Attempt DEF IInv
  <2>4. worker' \in [pc : {"wait", "send", "log"}, speed : Speed,
                     tries : 0 .. SENSOR_RETRY_COUNT - 1]
    BY <2>2, <2>3 DEF IInv, TypeOK
  <2>5. shown'.at <= fan'.at
    BY <1>0, <2>1, <2>3 DEF FanStep
  <2> QED
    BY <1>0, <2>1, <2>3, <2>4, <2>5, NoThreadStep DEF IInv, TypeOK, ShownStep
<1>2. CASE WorkerLogs
  <2>1. UNCHANGED <<fan, shown, control, web, poll, requests, polls, losses>>
    BY <1>2 DEF WorkerLogs
  <2>2. /\ worker' \in [pc : {"wait", "send", "log"}, speed : Speed,
                        tries : 0 .. SENSOR_RETRY_COUNT - 1]
        /\ today'.web = today.web /\ today' \in [speed : Speed, web : Nat]
    BY <1>0, <1>2, ZeroesAreTyped DEF WorkerLogs, IInv, TypeOK
  <2> QED
    BY <1>0, <2>1, <2>2, NoThreadStep DEF IInv, TypeOK, FanStep, ShownStep, FanSleeps
<1> QED
  BY <1>1, <1>2 DEF Worker

-----------------------------------------------------------------------------
(* The invariant and what follows from it.                                 *)

\* It holds before the first request.
LEMMA InitIInv == Init => IInv
<1> SUFFICES ASSUME Init PROVE IInv
  OBVIOUS
<1>1. TypeOK
  BY ZeroesAreTyped, IdleThread DEF Init, TypeOK, Fan
<1>2. \A c \in Client : web[c] = Client0
  BY DEF Init
<1>3. MutexHeld
  BY <1>2, FanAssumption DEF Init, MutexHeld, Client0, Inside
<1>4. FanSleeps
  BY DEF Init, FanSleeps
<1>5. ReadingsOrdered
  BY <1>2 DEF Init, ReadingsOrdered, Client0, Off
<1>6. \A c \in Client : Knows(web[c])
  <2>1. Client0.pc = "idle" /\ Client0.ups = 0 /\ Client0.act = "page"
    BY DEF Client0
  <2>2. Places(Client0)
    BY <2>1 DEF Places
  <2>3. SinceEntry(Client0) /\ PowerKnows(Client0)
    BY <2>1 DEF SinceEntry, PowerKnows, Inside
  <2> QED
    BY <1>2, <2>2, <2>3 DEF Knows
<1> QED
  BY <1>1, <1>3, <1>4, <1>5, <1>6 DEF IInv

\* Every step keeps it.
LEMMA NextIInv == IInv /\ [Next]_vars => IInv'
<1> SUFFICES ASSUME IInv, [Next]_vars PROVE IInv'
  OBVIOUS
<1>1. CASE Settle
  BY <1>1, SettleIInv
<1>2. CASE Requests
  BY <1>2, RequestIInv DEF Requests
<1>3. ASSUME NEW c \in Client, ClientStep(c) PROVE IInv'
  BY <1>3, EnterIInv, PagePollIInv, PowerLookIInv, CommandIInv, SettledReadIInv,
     LogSnapshotIInv, AnswerIInv DEF ClientStep
<1>4. CASE Poller
  BY <1>4, PollerIInv
<1>5. CASE Worker
  BY <1>5, WorkerIInv
<1>6. CASE UNCHANGED vars
  <2>1. UNCHANGED <<web, control, fan, shown, today, poll, worker, requests, polls, losses>>
    BY <1>6 DEF vars
  <2>2. shown.at <= shown'.at
    BY <2>1 DEF IInv, TypeOK, Reading
  <2> QED
    BY <2>1, <2>2, NoThreadStep DEF IInv, TypeOK, FanStep, ShownStep, FanSleeps, ReadingsOrdered
<1> QED
  BY <1>1, <1>2, <1>3, <1>4, <1>5, <1>6 DEF Next

\* So it holds in every state.
LEMMA Inductive == Spec => []IInv
  BY InitIInv, NextIInv, PTL DEF Spec

\* The controller, the threads and the log keep their types, and the attempts
\* of a command and the steps of the power button stay within their bounds.
THEOREM TypeCorrect == Spec => []TypeOK
<1>1. IInv => TypeOK
  BY DEF IInv
<1> QED
  BY <1>1, Inductive, PTL

\* At most one client thread is inside a control or a page poll.
THEOREM OneInside ==
    Spec => [](\A c, d \in Client : web[c].pc \in Inside /\ web[d].pc \in Inside => c = d)
<1>1. IInv => \A c, d \in Client : web[c].pc \in Inside /\ web[d].pc \in Inside => c = d
  BY DEF IInv, MutexHeld
<1> QED
  BY <1>1, Inductive, PTL

\* The power button ends at the default speed or stops the fan when only its
\* own confirmed commands reached the controller, for every default speed and
\* however far the readings its loop goes by lag behind the controller.
THEOREM PowerIsAsPressed == Spec => []PowerDoesAsPressed
<1>1. IInv => PowerDoesAsPressed
  <2> SUFFICES ASSUME IInv, NEW c \in Client, web[c].pc = "log", web[c].act = "toggle"
               PROVE  /\ web[c].raising /\ web[c].dark /\ fan.at = web[c].start + 1 + web[c].ups
                            => fan.speed = DEF_FAN_SPEED /\ web[c].seen.speed <= DEF_FAN_SPEED
                      /\ ~web[c].raising /\ ~web[c].dark /\ fan.at = web[c].start + 1
                            => ~fan.awake
    BY DEF PowerDoesAsPressed
  <2>1. Knows(web[c]) /\ web[c] \in Thread
    BY DEF IInv, TypeOK
  <2>2. web[c].ups \in Nat /\ web[c].start \in Nat /\ (~web[c].raising => web[c].ups = 0)
    BY <2>1, FanAssumption DEF Knows, Places, Thread
  <2> QED
    BY <2>1, <2>2 DEF Knows, PowerKnows
<1> QED
  BY <1>1, Inductive, PTL

\* Rows of the controls and the page polls are in the order of their readings.
THEOREM RowsAreInOrder == Spec => WebRowsInOrder
<1>1. IInv /\ [Next]_vars => [today'.web >= today.web]_vars
  <2> SUFFICES ASSUME IInv, Next PROVE today'.web >= today.web
    OBVIOUS
  <2>0. today.web \in Nat
    BY DEF IInv, TypeOK
  <2>1. ASSUME NEW c \in Client, LogSnapshot(c) PROVE today'.web >= today.web
    <3>1. /\ web[c].pc = "log"
          /\ \/ today' = [speed |-> web[c].seen.speed, web |-> web[c].seen.at]
             \/ today' = today
      BY <2>1 DEF LogSnapshot
    <3>2. today.web <= web[c].seen.at /\ web[c].seen.at \in Nat
      BY <3>1 DEF IInv, ReadingsOrdered, TypeOK, Thread, Reading
    <3> QED
      BY <2>0, <3>1, <3>2
  <2>2. CASE PollerLogs \/ WorkerLogs
    BY <2>0, <2>2 DEF PollerLogs, WorkerLogs, IInv, TypeOK
  <2>3. CASE UNCHANGED today
    BY <2>0, <2>3
  <2> QED
    BY <2>1, <2>2, <2>3 DEF Next, Settle, Requests, Request, ClientStep, Enter, PagePoll,
       PowerLook, Command, SettledRead, Answer, Poller, PollerReads, PollerQueues, Worker,
       WorkerTurnsOff
<1> QED
  BY <1>1, Inductive, PTL DEF Spec, WebRowsInOrder

=============================================================================
