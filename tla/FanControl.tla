----------------------------- MODULE FanControl -----------------------------
(***************************************************************************)
(* Everyone who reads or commands the whole-house fan: the browser's       *)
(* controls and page polls, one client thread each, serialised by          *)
(* today_control_mutex; the poller; and the notification worker, which     *)
(* turns the fan off without that mutex.  A command is an HTTP request     *)
(* whose answer can be lost after the controller has obeyed, and which     *)
(* houseSendFanCommand then repeats.  Of a log row the model keeps the     *)
(* speed it shows and how many commands the controller had obeyed when     *)
(* that speed was read.                                                    *)
(***************************************************************************)
EXTENDS Integers

CONSTANTS Client,             \* client threads of the web server
          Nobody,             \* today_control_mutex is free
          DEF_FAN_SPEED, MaxSpeed,
          SENSOR_RETRY_COUNT,
          MaxLosses,          \* bound on the requests and answers that get lost
          MaxRequests, MaxPolls

ASSUME FanAssumption ==
    /\ Nobody \notin Client
    /\ DEF_FAN_SPEED \in Nat \ {0} /\ MaxSpeed \in Nat /\ DEF_FAN_SPEED <= MaxSpeed
    /\ SENSOR_RETRY_COUNT \in Nat \ {0}
    /\ MaxLosses \in Nat /\ MaxRequests \in Nat /\ MaxPolls \in Nat

VARIABLES fan,       \* the controller: awake, speed, and commands obeyed so far
          shown,     \* what the CGI reports of it, which may lag behind
          control,   \* holder of today_control_mutex
          web,       \* per client thread, see Client0
          poll,      \* the poller: where it is and what it read
          worker,    \* the notification worker: where, its job's reading, tries
          today,     \* the newest log row with readings; web is the age of the
                     \* newest row written under today_control_mutex
          requests, polls, losses

vars == <<fan, shown, control, web, poll, worker, today, requests, polls, losses>>

Speed == 0 .. MaxSpeed
Reading == [speed : Speed, at : Nat]
Off == [speed |-> 0, at |-> 0]

\* For the power button, start is the number of commands obeyed, and dark
\* whether the fan was off, when the thread got the mutex.
Client0 == [pc |-> "idle", act |-> "page", cmd |-> "toggle", raising |-> FALSE,
            tries |-> 0, ups |-> 0, seen |-> Off, start |-> 0, dark |-> TRUE]

Init ==
    /\ fan = [awake |-> FALSE, speed |-> 0, at |-> 0]
    /\ shown = Off
    /\ control = Nobody
    /\ web = [c \in Client |-> Client0]
    /\ poll = [pc |-> "read", speed |-> 0]
    /\ worker = [pc |-> "wait", speed |-> 0, tries |-> 0]
    /\ today = [speed |-> 0, web |-> 0]
    /\ requests = 0 /\ polls = 0 /\ losses = 0

-----------------------------------------------------------------------------
(* The controller.                                                         *)

\* The shutoff URL is the power button: it opens the shutters of a sleeping
\* fan without starting its motor, and stops one that is awake.  The speed
\* buttons move a fan that is awake by one step; slowed to nothing it sleeps.
Obeyed(cmd) ==
    LET next == CASE cmd = "toggle" -> [awake |-> ~fan.awake, speed |-> 0]
                  [] cmd = "up" -> [awake |-> fan.awake,
                        speed |-> IF fan.awake /\ fan.speed < MaxSpeed
                                    THEN fan.speed + 1 ELSE fan.speed]
                  [] OTHER -> [awake |-> fan.speed > 1,
                        speed |-> IF fan.speed > 0 THEN fan.speed - 1 ELSE 0]
    IN  [awake |-> next.awake, speed |-> next.speed, at |-> fan.at + 1]

Settled == shown = [speed |-> fan.speed, at |-> fan.at]

\* web_controls.c:183: the controller acknowledges a command before the CGI
\* reports the new speed, and nothing says how long before.
Settle ==
    /\ ~Settled
    /\ shown' = [speed |-> fan.speed, at |-> fan.at]
    /\ UNCHANGED <<fan, control, web, poll, worker, today, requests, polls, losses>>

\* Mutant: one attempt too many.
houseSendFanCommand_OneMore(cmd, tries, result) ==
    \/ result = "ok" /\ fan' = Obeyed(cmd) /\ UNCHANGED losses
    \/ /\ result = (IF tries < SENSOR_RETRY_COUNT THEN "again" ELSE "failed")
       /\ losses < MaxLosses /\ losses' = losses + 1
       /\ fan' \in {fan, Obeyed(cmd)}

\* One attempt of houseSendFanCommand.  A lost answer leaves the controller
\* having obeyed; the loop repeats until its attempts are used up.
houseSendFanCommand(cmd, tries, result) ==
    \/ result = "ok" /\ fan' = Obeyed(cmd) /\ UNCHANGED losses
    \/ /\ result = (IF tries + 1 < SENSOR_RETRY_COUNT THEN "again" ELSE "failed")
       /\ losses < MaxLosses /\ losses' = losses + 1
       /\ fan' \in {fan, Obeyed(cmd)}

-----------------------------------------------------------------------------
(* A client thread: a control request or a page that polls on access.      *)

\* The browser posts a control or asks for a page (one request per turn).
Request(c, act) ==
    /\ web[c].pc = "idle" /\ requests < MaxRequests
    /\ requests' = requests + 1
    /\ web' = [web EXCEPT ![c] = [Client0 EXCEPT !.pc = "lock", !.act = act]]
    /\ UNCHANGED <<fan, shown, control, poll, worker, today, polls, losses>>

\* Mutant: only the controls take the mutex, page polls do not.
TakesMutex_PagesFree(c) == IF web[c].act = "page" THEN UNCHANGED control
                           ELSE control = Nobody /\ control' = c

\* loggerWebMutexLock(&server->today_control_mutex), in both callers.
TakesMutex(c) == control = Nobody /\ control' = c

Enter(c) ==
    /\ web[c].pc = "lock" /\ TakesMutex(c)
    /\ web' = [web EXCEPT ![c].pc = CASE web[c].act = "page" -> "page"
                                      [] web[c].act = "toggle" -> "look"
                                      [] OTHER -> "send",
                          ![c].cmd = IF web[c].act = "page" THEN "toggle" ELSE web[c].act,
                          ![c].start = IF web[c].act = "toggle" THEN fan.at ELSE 0,
                          ![c].dark = web[c].act = "toggle" => ~fan.awake]
    /\ UNCHANGED <<fan, shown, poll, worker, today, requests, polls, losses>>

\* What is left of a thread's variables once its handler has returned.
Left(thread, to) ==
    IF to = "idle" THEN Client0 ELSE [Client0 EXCEPT !.pc = to, !.seen.speed = thread.seen.speed]

\* Mutant: the 500 path returns with the mutex held.
Leave_Locked(c, to) ==
    /\ web' = [web EXCEPT ![c] = Left(@, to)]
    /\ control' = IF to = "idle" THEN control ELSE Nobody

\* The mutex is released on every path out of the handler: "idle" after a 500
\* or a page poll, "answer" when the handler succeeded.
Leave(c, to) ==
    /\ web' = [web EXCEPT ![c] = Left(@, to)]
    /\ control' = Nobody

\* A page poll reads at once; the sensor row of a failed read has no readings.
PagePoll(c) ==
    /\ web[c].pc = "page"
    /\ \/ /\ web' = [web EXCEPT ![c].pc = "log", ![c].seen = shown]
          /\ UNCHANGED control
       \/ Leave(c, "idle")
    /\ UNCHANGED <<fan, shown, poll, worker, today, requests, polls, losses>>

\* The power button reads first and decides by the speed it sees.
PowerLook(c) ==
    /\ web[c].pc = "look"
    /\ \/ /\ web' = [web EXCEPT ![c].pc = "send", ![c].raising = (shown.speed = 0)]
          /\ UNCHANGED control
       \/ Leave(c, "idle")
    /\ UNCHANGED <<fan, shown, poll, worker, today, requests, polls, losses>>

Command(c) ==
    /\ web[c].pc = "send"
    /\ \E result \in {"ok", "again", "failed"} :
          /\ houseSendFanCommand(web[c].cmd, web[c].tries, result)
          /\ \/ /\ result = "ok"
                /\ web' = [web EXCEPT ![c].pc = "settle", ![c].tries = 0]
                /\ UNCHANGED control
             \/ /\ result = "again"
                /\ web' = [web EXCEPT ![c].tries = @ + 1]
                /\ UNCHANGED control
             \/ result = "failed" /\ Leave(c, "idle")
    /\ UNCHANGED <<shown, poll, worker, today, requests, polls>>

\* Mutant: the loop of the power button is bounded one step short.
KeepsRaising_OneShort(c) ==
    web[c].raising /\ shown.speed < DEF_FAN_SPEED /\ web[c].ups + 1 < DEF_FAN_SPEED

\* The power button raises a fan it found off, step by step, to its default.
KeepsRaising(c) ==
    web[c].raising /\ shown.speed < DEF_FAN_SPEED /\ web[c].ups < DEF_FAN_SPEED

\* loggerWebWaitForFanShutters and loggerWebReadSettledFan: a sleep of fixed
\* length and one reading, of whatever the CGI reports by then.
SettledRead(c) ==
    /\ web[c].pc = "settle"
    /\ \/ /\ web' = IF KeepsRaising(c)
                    THEN [web EXCEPT ![c].pc = "send", ![c].cmd = "up", ![c].ups = @ + 1]
                    ELSE [web EXCEPT ![c].pc = "log", ![c].seen = shown]
          /\ UNCHANGED control
       \/ Leave(c, "idle")
    /\ UNCHANGED <<fan, shown, poll, worker, today, requests, polls, losses>>

\* loggerWebLogFanSnapshot: a row that cannot be written fails the request.
LogSnapshot(c) ==
    /\ web[c].pc = "log"
    /\ \/ /\ today' = [speed |-> web[c].seen.speed, web |-> web[c].seen.at]
          /\ Leave(c, IF web[c].act = "page" THEN "idle" ELSE "answer")
       \/ Leave(c, "idle") /\ UNCHANGED today
    /\ UNCHANGED <<fan, shown, poll, worker, requests, polls, losses>>

\* The 200 answer carries the newest row of the log, read after the mutex was
\* released; it leaves the process and changes nothing here.
Answer(c) ==
    /\ web[c].pc = "answer"
    /\ web' = [web EXCEPT ![c] = Client0]
    /\ UNCHANGED <<fan, shown, control, poll, worker, today, requests, polls, losses>>

-----------------------------------------------------------------------------
(* The poller and the worker.                                              *)

PollerReads ==
    /\ poll.pc = "read" /\ polls < MaxPolls
    /\ polls' = polls + 1
    /\ poll' = [pc |-> "queue", speed |-> shown.speed]
    /\ UNCHANGED <<fan, shown, control, web, worker, today, requests, losses>>

\* A close recommendation is handed to the worker unless it still has one.
PollerQueues ==
    /\ poll.pc = "queue"
    /\ poll' = [poll EXCEPT !.pc = "log"]
    /\ \/ /\ worker.pc = "wait"
          /\ worker' = [pc |-> IF poll.speed > 0 THEN "send" ELSE "log",
                        speed |-> poll.speed, tries |-> 0]
       \/ UNCHANGED worker
    /\ UNCHANGED <<fan, shown, control, web, today, requests, polls, losses>>

PollerLogs ==
    /\ poll.pc = "log"
    /\ today' = [today EXCEPT !.speed = poll.speed]
    /\ poll' = [pc |-> "read", speed |-> 0]
    /\ UNCHANGED <<fan, shown, control, web, worker, requests, polls, losses>>

\* houseTurnOffFans, on the strength of the job's reading and outside
\* today_control_mutex.
WorkerTurnsOff ==
    /\ worker.pc = "send"
    /\ \E result \in {"ok", "again", "failed"} :
          /\ houseSendFanCommand("toggle", worker.tries, result)
          /\ worker' = IF result = "again" THEN [worker EXCEPT !.tries = @ + 1]
                       ELSE [worker EXCEPT !.pc = "log"]
    /\ UNCHANGED <<shown, control, web, poll, today, requests, polls>>

\* "fan auto off", "close notif" and "notify failed" rows repeat the job's
\* reading.
WorkerLogs ==
    /\ worker.pc = "log"
    /\ today' = [today EXCEPT !.speed = worker.speed]
    /\ worker' = [pc |-> "wait", speed |-> 0, tries |-> 0]
    /\ UNCHANGED <<fan, shown, control, web, poll, requests, polls, losses>>

ClientStep(c) ==
    \/ Enter(c) \/ PagePoll(c) \/ PowerLook(c) \/ Command(c) \/ SettledRead(c)
    \/ LogSnapshot(c) \/ Answer(c)

Requests == \E c \in Client, act \in {"page", "up", "down", "toggle"} : Request(c, act)
Poller == PollerReads \/ PollerQueues \/ PollerLogs
Worker == WorkerTurnsOff \/ WorkerLogs

Next == Settle \/ Requests \/ (\E c \in Client : ClientStep(c)) \/ Poller \/ Worker

Spec == Init /\ [][Next]_vars

\* curl has timeouts and the sleeps are finite, so a client thread that has
\* work goes on.  Nobody has to press a button, the poller and the worker may
\* stop, and the CGI never has to catch up.
FairSpec == Spec /\ \A c \in Client : WF_vars(ClientStep(c))

-----------------------------------------------------------------------------
(* Properties.                                                             *)

Fan == [awake : BOOLEAN, speed : Speed, at : Nat]
Thread ==
    [pc : {"idle", "lock", "page", "look", "send", "settle", "log", "answer"},
     act : {"page", "up", "down", "toggle"}, cmd : {"up", "down", "toggle"},
     raising : BOOLEAN, tries : 0 .. SENSOR_RETRY_COUNT - 1,
     ups : 0 .. DEF_FAN_SPEED, seen : Reading, start : Nat, dark : BOOLEAN]

TypeOK ==
    /\ fan \in Fan
    /\ shown \in Reading
    /\ control \in Client \cup {Nobody}
    /\ web \in [Client -> Thread]
    /\ poll \in [pc : {"read", "queue", "log"}, speed : Speed]
    /\ worker \in [pc : {"wait", "send", "log"}, speed : Speed,
                   tries : 0 .. SENSOR_RETRY_COUNT - 1]
    /\ today \in [speed : Speed, web : Nat]
    /\ requests \in Nat /\ polls \in Nat /\ losses \in Nat

\* web_controls.c:121 "send only the speed changes still needed to reach the
\* configured default": when nobody else's and no repeated command reached the
\* controller meanwhile, the power button leaves a fan that was off at its
\* default speed and stops one that was on, however far the readings the loop
\* goes by lag behind.  The row it is about to log may lag too, but it never
\* shows more than the default.
PowerDoesAsPressed ==
    \A c \in Client :
        web[c].pc = "log" /\ web[c].act = "toggle" =>
            /\ web[c].raising /\ web[c].dark /\ fan.at = web[c].start + 1 + web[c].ups
                  => fan.speed = DEF_FAN_SPEED /\ web[c].seen.speed <= DEF_FAN_SPEED
            /\ ~web[c].raising /\ ~web[c].dark /\ fan.at = web[c].start + 1
                  => ~fan.awake

\* loggerWebRoutes.c:205 "Keep those operations serialized": rows written by
\* the controls and the page polls are in the order in which their readings
\* were taken, so a slow page poll never puts an old speed after a control's
\* new one.
WebRowsInOrder == [][today'.web >= today.web]_vars

\* Every control request and page poll gets through: the mutex is released on
\* every path and the retries end.
RequestsAnswered == \A c \in Client : web[c].pc = "lock" ~> web[c].pc = "idle"

\* houseApi.c:75 "only called from recommendation flow after a live reading
\* says fans are on": the worker's command never finds the fan off.
OffOnlyWhenOn == [][worker' # worker /\ fan' # fan => fan.speed > 0]_vars

\* loggerWebToday.c:525 "Send that snapshot back so the browser can display
\* the final hardware state": the row a 200 answer reads is the one its
\* callback logged.
AnswersWithOwnRow ==
    [][\A c \in Client : web[c].pc = "answer" /\ web'[c].pc = "idle"
            => today.speed = web[c].seen.speed]_vars

=============================================================================
