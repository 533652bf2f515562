# Verification of the house temperature notifier

TLA+ specifications of the notifier's own logic, the TLC runs that check them on
small instances, and proofs that TLAPS checks for every value of the constants.
Source paths are relative to the repository; `worker.c` is
`src/notification/notification_worker.c`, `lock.c` is
`src/notification/notification_lock.c`; the names of other files are given without
the directory that the table below gives.

## The system

One process (`src/houseNotif.c`) runs for months on a small machine under a
service manager. Three kinds of threads share it: the poller (the main thread),
one notification worker, and the web server's accept and client threads.

| Component | State it keeps | Operations | Talks to |
|---|---|---|---|
| Poller (`house/poller.c`) | time of the last trim, the cycle's time stamp | read the sensor every 300 s, decide, queue, log | house API, policy, queue, logger |
| Policy (`house/rec.c`) | none (and the C library's shared `struct tm`) | recommendation of a reading, length of a quiet period | called by every thread |
| Notification queue and worker (`worker.c`) | linked FIFO, active recommendation, mutex, semaphore | queue a reading; pop; send; sleep; clear | poller, house API, Pushover, lock file |
| Notification lock (`lock.c`) | a file with two "quiet until" times, a temporary file | active until; mark sent | worker only |
| House API (`house/houseApi.c`), HTTP, JSON | none here; the fan and its controller | sensor read and fan commands with ten tries, push | poller, worker, web threads |
| Web controls (`logApp/web_controls.c`) | none | speed up, slow down, power toggle, each logging a fresh reading | house API, logger, Today panel |
| Logger (`logger/logger.c`) | the log file under a mutex | append, trim | poller, worker, web |
| Web server (`logger/web/loggerWeb*.c`) | listening socket, client count, columns and series under `active_server_mutex` | start, stop, accept, serve | logger's file, Today panel, graphs |
| Today panel (`graph/loggerWebToday.c`) | controls, `today_control_mutex` | show the newest row, run one control at a time | web controls |
| Log rows, graphs | none across requests | newest rows in a ring buffer; ranges, spans, statistics, 304 by version | log file |
| Process lifecycle (`houseNotif.c`, `lock/instanceLock.c`) | the instance lock | ordered start, no orderly stop | all |
| Configuration, portable layer, templates, scripts | - | - | - |

What is hard here, and what makes each part right:

* **Queue and worker.** The job is linked under the mutex and the semaphore is
  posted after it; the duplicate check spans the list and the job being sent,
  which may last twelve hours. Right: no lost wake-up, no wake-up for nothing,
  one job per recommendation, and a recommendation is never silenced by a job
  that is gone.
* **Quiet periods.** Kept twice, by the worker's sleep and by a file, because
  the process may be killed at any point (it has no signal handler) and any
  file operation may fail. Right: no second notification, and no second fan
  command, before the next window; nothing suppressed that was not announced.
* **Policy.** Windows and quiet periods are computed from the time of day. Right:
  a quiet period ends exactly where the next window begins, across midnight too.
* **Fan.** The shutoff URL is a toggle, commands are retried, readings age in the
  queue and lag behind the controller, and web and worker threads act on the same
  fan. Right: the power button does what it says when nobody interferes, a slow page
  never logs an old speed after a new one, every request ends.
* **Web server.** Client threads are detached and counted; they run while the server
  is being stopped. Right: nothing is used after it is freed, nothing is leaked by a
  start that fails half-way, the stop ends.
* **Process.** Acquired in order, given back on some paths only, with `atexit` for the
  rest. Right: one process at a time polls, and none leaves anything behind.
* **Log and pages.** Readers do not take the logger's mutex; rows are stamped before
  they are written; a disk may be full. Right: trimming loses no young row, and a
  page, a graph or a 304 shows what the log holds, with the exceptions below.

`PROJECT.json` lists these as hazards, each at its line.

## Modules

| Module | Stands for | Built on |
|---|---|---|
| `Rec` | the enum of `house/rec.h` | |
| `JobSlots` | abstract: what the queue promises | `Rec` |
| `NotificationQueue` | `worker.c`: FIFO, mutex, semaphore, the two threads | `Rec`, `JobSlots` (refined) |
| `RecPolicy` | `rec.c` as operators | `Rec` |
| `RecClock` | the policy while time passes and readings change | `RecPolicy` |
| `NotificationLock` | `lock.c`, one action per file system call | `Rec` |
| `LockHistory` | any caller of the lock file, with what callers were told | `NotificationLock` |
| `NotificationService` | `pollerRun`, `sendNotification`, restarts and the clock | the queue, lock and policy |
| `FanControl` | `web_controls.c`, the control handler of `loggerWebToday.c`, the page poll of `loggerWebRoutes.c`, `houseSendFanCommand`, and what the poller and the worker do to the fan | |
| `ServerLife` | abstract: what the web viewer promises its owner | |
| `WebServer` | `loggerWebServer.c`, start, stop and navigation links of `loggerWeb.c` | `ServerLife` (refined) |
| `GraphConfig` | the set-up calls of `loggerWebGraphConfig.c`, `loggerWebToday.c`, `loggerWeb.c` as operators | |
| `ProcessLifecycle` | `main`, `instanceLock.c`, `app_startup.c`, the `atexit` handler, a second process | `WebServer`, `GraphConfig` |
| `LogPages` | rows page, Today panel, points, statistics, events and spans of a graph as operators on the lines of the log | |
| `LogFile` | `logger.c` with its writers, the trimmer, kills, and a browser that keeps asking for graphs | `LogPages` |
| `GraphRange` | `loggerWebGraphRange.c` in a calendar whose clock is changed | |
| `MC...` | constants for TLC; `MCRecClock` puts `RecClock` and `GraphRange` on one clock | |
| `FoldFacts` | lemmas only: induction over numbers and sequences, and folds, for the proofs about loops | |
| `...Proofs` | theorems | the module named |

How state and code correspond:

* `NotificationQueue`. `queue` is the list from `notification_head` to
  `notification_tail`. A section from `pthread_mutex_lock` to `unlock` is one
  action (`EnqueueReading`, `popNotificationJob`, `clearActiveNotification`);
  `sem_post` and `sem_wait` are actions of their own, and `pollerPc`/`workerPc`
  say which of the steps a thread is at. A duplicate and a failed `malloc` change
  nothing, so they are the poller's stuttering. `sem_post`/`sem_wait` errors end
  the process: that is a restart, see below.
* `RecPolicy`. A time counts from a local midnight; `localtime()` is the remainder
  by the day. There is no daylight-saving change, and every call has a `struct tm`
  of its own (in the code the buffer is shared between threads; see below).
* `NotificationLock`. `lockFile`/`lockTmp` are what is at the path and at the
  path with `.tmp`; `lockPc` is where `writeState` stands. `fopen(.., "w")` leaves
  a `Partial` file until `fclose`; `IOFaults` names the calls that may fail. A
  reading that fails returns the two zeros of a missing file (`Reads`), to the check
  and to `notificationLockMarkSent` alike. In `LockHistory`, `told` and `attempt`
  are what callers know, `lost` the slots the file has lost without being asked.
* `NotificationService`. `pollNow` is `currentNow`, taken before the sensor is
  read. `sendStep` walks through `sendNotification`: check the lock, fan, push,
  mark (the lock file's own steps), sleep, clear. `clock` may advance between any
  two steps, so retries, timeouts and late wake-ups need no model of their own.
  `Restart` is the process killed at any point and started again: the queue, the
  active recommendation and both sleeps are gone, the files stay. `quietUntil`,
  `forgotten` (whose period a kill left unsaved) and `misread` (whose check could
  not read the file) are history: they appear in no guard.
* `FanControl`. `fan` is the controller, `shown` what its CGI reports, which may lag
  behind a command for as long as it likes: the code sleeps a fixed second, or ten
  after waking the fan, and reads once (`web_controls.c:176-206`), so `SettledRead`
  takes whatever is reported. `web[c]` is a client thread, `pc` its
  place in `loggerWebHandleTodayControl` and the callback; `control` is
  `today_control_mutex`. One attempt of `houseSendFanCommand` is one step: obeyed
  and answered, lost before, or obeyed and the answer lost, which it then repeats.
  A reading carries how many commands the controller had obeyed (`at`); `start` and
  `dark` remember what the thread found when it got the mutex.
* `WebServer`. `driver` is the thread that starts and stops, `stage` the next of the
  six things a start acquires, `held` those that exist; `loop` the accept thread,
  `conn[c]` a connection and the thread that serves it. Serving is two kinds of
  answer: one that walks the navigation links without a lock (`ReadNav`) and the
  Today panel, sent with `active_server_mutex` held. Without memory or a thread for
  a client the accept thread goes through the same steps itself (`Inline`).
* `ProcessLifecycle`. `main` is where `main()` is. `Setup` is the list of calls that
  `appStartLoggerWebOnPort` makes; each takes the display to one of the displays it
  may leave (`Outcomes`), including those of an allocation that fails half-way. The
  list and the values of its strings come from `app_startup.c:64-131`; a call that
  names no graph is one on `"viewer"`. A call of `MayFail` may run out of memory
  while fewer than `Failures` calls have failed. `done` is history, the calls that
  returned 1, and `Succeeded` what those asked of one graph, in their order.
* `LogFile`. A file is its lines, whether the last one lacks its newline, and its
  modification second. A row is what the pages make of it: time, numeric columns,
  event, length; a line that does not parse is `Torn`. A full disk loses a row,
  leaves a torn part of it, or all of it but the newline (`Unended`): that one still
  parses, until the next row is written to the same line. `thread[t].row` is the row
  that `logger_log` has stamped and not yet written. `inode` counts the renames, so
  that a reader that opened the file before one reads on in the old file
  (`page.pc = "old"`). `page` is one request for the graph data, `cache` what the
  browser holds. A pass over the file that cannot open it, cannot get its memory or
  is cut short answers with what it has (`whole` is FALSE) under the version taken
  before. `kept`, `tail`, `cutoff` and `hurt` are history: the rows on lines of
  their own, how the last line ends, the oldest time the last trim kept, and a
  copy that was cut off. The loops over the lines
  are folds (`Those` copies the lines that pass a test, `readTodaySnapshot`,
  `Stats` and `Spans` carry what the loop of that name carries); the properties
  say what they should find without a loop (`QuietSpans`: one span for every close
  with an open since the close before it).

Definitions whose comment begins with "Mutant:" are the code with a plausible bug;
no specification uses them. With one of them in the place of the definition it
varies, TLC reports the property it is paired with in `PROJECT.json`.

## Runs

| Run | Configuration | Shows |
|---|---|---|
| `queue` | `MCNotificationQueue.cfg` | four invariants, and with fair threads the refinement of `JobSlots`, liveness included |
| `policy` | `MCRecClock.cfg` | quiet periods end at the next window; no contradiction between two readings of one moment; the graphs' windows hold the moment they are asked for, on any night of a clock change |
| `lock_file` | `MCLockHistory.cfg` | what a reader of the lock file can find under every failure, of readings too, and every crash |
| `lock_slots_lost` | `MCLockSlotsKept.cfg` | *violation*: a crash between remove and rename loses the other slot |
| `service` | `MCNotificationService.cfg` | quiet periods honoured, kept, disjoint and never announced in vain, under every failure and restart |
| `service_resend` | `MCNotificationResend.cfg` | *violation*: a restart between the confirmed push and the mark resends |
| `fan` | `MCFanControl.cfg` | the power button does what it says, web rows are in the order of their readings, every request ends, with requests and answers lost and readings that lag |
| `fan_off_stale` | `MCFanOffStale.cfg` | *violation*: the worker toggles a fan that is off, and wakes it |
| `fan_answer` | `MCFanAnswer.cfg` | *violation*: a control request is answered with the poller's older reading |
| `lifecycle` | `MCProcessLifecycle.cfg` | memory outlives its users, nothing leaks, the display is what was asked for, a failed start ends, and the server implements `ServerLife`, liveness included |
| `lock_for_life` | `MCLockForLife.cfg` | *violation*: a failed start serves on after the instance lock is released |
| `logs` | `MCLogFile.cfg` | trimming keeps rows; rows page, Today panel, graphs and 304 agree with the log; the browser catches up |

Bounds, and why they are enough:

* `queue`: six jobs (two recommendations, three speeds), so that jobs for one
  recommendation differ. The duplicate check bounds the list to two jobs; nothing
  else is bounded.
* `policy`: two days in half hours with the hours of `settings.h`, three
  temperatures (below, equal, above). The policy compares whole hours and adds
  lengths, so minutes add nothing; the windows of the graphs round to two hours, and
  half hours tell a moment on the hour from one after it. The clock goes forward or
  back by an hour at two in the morning of any of the ten days a window can reach.
* `lock_file`: two times, hence older and newer values in either slot; calls,
  failures and crashes are not bounded.
* `service`: a day of 5 units with windows [1,3) and [3,5), the clock up to
  `MaxClock` = 8 from any start on the first day: two close windows, an open one
  and the midnight between, with any number of polls and restarts. Readings lie
  on either side of the house's temperature, the fan is on or off. `PollInterval`
  is one unit. Every file operation may fail, any number of times.
* `fan`: two browsers, two requests and one poll in all, two attempts a command, two
  lost requests or answers (`MaxLosses`), a default speed of 1 below a maximum of 2.
  Two requests meet each other and the worker; one poll brings one worker job; two
  losses use up the attempts of one command, or repeat one of two; a fan can be
  raised past its default by somebody else. The violating runs have one browser,
  a default of 2 below 3, and lose nothing.
* `lifecycle`: two connections, any failure while starting, and one call of the
  set-up that runs out of memory (`Failures` = 1), of each kind (`MayFail`: either
  graph, a marker that grows its array, a span, the Today panel). Two client threads
  suffice for the counter to pass one on its way to zero. The theorem
  `ShowsSucceeded` covers any number of failing calls.
* `logs`: three rows, two while a browser has the page, on a clock of three seconds
  with a retention of one and a trim every two, one mishap (a full disk, a failing
  rename, a failing pass of a reader, or a kill): rows are trimmed, appended, torn and joined in all orders, and
  the ring buffer of two or three rows wraps round. The limit on the address line is
  taken modulo 8.

`CHECK_DEADLOCK FALSE` stands where a bound on the clock, the requests or the rows
ends every behaviour, and where the process exits.

## Fairness

* `queue`: weak fairness of `sem_post`, which does not block, and of the worker,
  whose calls all return (curl has connect and total timeouts, retries are counted,
  sleeps are finite). The poller is not obliged to have anything to send.
* `fan`: weak fairness of each client thread, for the same reasons, and of nothing
  else: poller and worker may stop, and the report need never catch up. A client that waits for
  `today_control_mutex` is served under weak fairness because the others' requests
  are bounded in number. Nobody is obliged to press a button.
* `lifecycle`: weak fairness of the accept thread and of the stopping thread;
  strong fairness of each client thread and of `main`, which take mutexes that
  are released again and again. This includes that a browser sends its request and
  reads its answer. The sockets have no timeout, so the code does not enforce it: a
  client that stops reading while the Today panel is sent holds
  `active_server_mutex`, and with it the stop, for as long as it likes.
* `logs`: weak fairness of the browser and its requests: it asks again by
  `setInterval`, and a request reads a file to its end.

All other runs check safety and assume no fairness.

## What the violations mean

All of them are consequences of the order in which things are done, and each
disagrees with a comment that `PROJECT.json` quotes.

* `service_resend`, `lock_slots_lost`. `sendNotification` pushes first and records
  afterwards, so a kill in between sends the recommendation again at the first poll
  after the restart. And `writeState` removes the old lock file before it renames the
  new one (for Windows, `lock.c:104`), so a kill in between loses both slots. The
  passing properties give the exact extent. `NoSideEffectInQuiet` excuses a
  recommendation in `forgotten`, and one in `misread`: a lock file that cannot be
  opened reads as if nothing had been sent (`lock.c:57-61`). `SlotsKeptUnlessHurt`
  excuses the slots in `lost`: both when a call is cut between remove and rename,
  the other one when a call that succeeds could not read the file before. `OneQuietAtATime` shows why losing the *other* slot does no harm
  in the service: two quiet periods never run at once.
* `fan_off_stale`. The worker decides by the speed its job was queued with and does
  not take `today_control_mutex`. If someone has turned the fan off since, the toggle
  turns it on. `PowerDoesAsPressed` says what is left of a button's promise: it
  holds when nobody else's command came between.
* `fan_answer`. The mutex is released before the newest row is read back, so what
  the browser is sent may be another row than the one its request logged.
* `lock_for_life`. After a failed `notificationWorkerStart` the lock is released, then
  `main` returns, and only then does `atexit` stop the server. `NoUseAfterFree` and
  `ExitIsClean` show that the server itself winds down properly. `config` and
  `logger`, however, live in `main`'s frame, and a callback of a client thread may
  still use them.

## Limits that the passing properties state

* `NotModifiedIsTrue` excepts a trim in the second of the last append that leaves
  a file of the same length: the version is made of the modification second and the
  size, and cannot see it. The second exception is a pass that failed: when a
  graph's `fopen` or `calloc` fails the 200 goes out with empty data and the current
  version (`loggerWebGraphJson.c:345-357`), the page keeps it
  (`loggerWebGraph.js:172-187`) and is told 304 until the log changes.
  `BrowserCatchesUp` has the same two exceptions.
* `LogKeepsRows` says which rows a full disk costs. A row that was cut off is lost,
  except when only its newline is missing: then it still reads as a row, until the
  next row joins its line and both are lost. And the property is void after a trim
  whose copy did not fit: `logger_trim` does not look at the results of its writes
  and puts the short copy in place.
* `RowsAreNewest`, `TodayIsOneRow` and `GraphIsFaithful` are about one state of the
  file. Only the passes of the graphs are interleaved with the writers.
  `TodayIsOneRow` means the last row with readings in the file, which need not be
  the one stamped last.
* `PowerDoesAsPressed` speaks of a press during which nobody else's and no repeated
  command reached the controller. Then the fan ends at its default although the
  readings may lag; the row that is logged may still show less.
* `GraphIsFaithful` needs the clock to be monotone, and only the worker to write
  the rows that open and close a span, as in the code.
* `NavArrayStays` holds because the application adds two links and the first array
  has room for four (`ServerAssumption`); a fifth would move it under a reader.
* `WindowsHoldNow` lets the end of a window lie before the moment itself within an
  hour of a clock change, where `mktime` may choose between two times.
* `ShowsWhatSucceeded` depends on the titles of the application's graphs being
  different. A comment in `loggerWebInsertGraphSeries` announces a check for that;
  the code has none, and decorations go to the first graph of a title. It also
  depends on the order of the Today calls: `loggerWebShowToday` clears the status
  provider.

## Theorems

TLAPS checks every proof. Every invariant and every action property of the passing
runs is a theorem, and so are the safety halves of both refinements. Nothing is
assumed but the named assumptions on the constants, which TLC evaluates on each run:

| Assumption | Says | In the code |
|---|---|---|
| `JobAssumption` | jobs carry a recommendation | `pollerRun` queues no other reading |
| `WindowAssumption` | 0 < close window < open window < day, any integers | `settings.h` |
| `TempsAssumption` | temperatures are numbers | |
| `LockAssumption`, `ServiceAssumption` | times are naturals, the file markers are no versions | |
| `FanAssumption` | at least one attempt, a default speed not above the maximum | `settings.h` |
| `ServerAssumption` | finitely many connections, at most four links | `app_startup.c:128-130` adds two |
| `HourAssumption` | an hour has a positive length | |
| `PagesAssumption` | there are columns and the fan's is not among them; the default limit lies in 1 .. maximum, the maximum below `ULONG_MAX` | `loggerWebInternal.h:95-100` |
| `LogAssumption` | the poller is a thread; a trim interval is positive | `poller.c:49` |
| `RowsAssumption` | a row has all readings or none; only one thread logs rows that open or close a span | rows are a `SensorReading` or status rows with dashes; `open notif` and `close notif` are written at `notification_worker.c:195` only |

The number of jobs, browsers, connections, threads and rows, the length of the day,
the windows, speeds, readings, retries, failures and the number of kills are
arbitrary. (`DEF_FAN_SPEED` is positive and at most `MaxSpeed`.)

| Module | Proved |
|---|---|
| `NotificationQueueProofs` | `Invariance` (the four invariants), `PopFindsAJob`, `Implementation` of `JobSlots!SafeSpec` |
| `RecClockProofs` | `QuietPeriods`, `NoContradiction`, `WindowsAreRight`, and the lemmas on the policy that the service needs |
| `LockHistoryProofs` | `LockIsComplete`, `LockReadsToldOrNothing`, `SlotsSurvive` |
| `NotificationServiceProofs` | `TypeCorrect`, `QuietIsHonoured`, `OneQuiet`, `DiskFollows`, `QuietOnlyGrows` |
| `FanControlProofs` | `TypeCorrect`, `OneInside`, `PowerIsAsPressed`, `RowsAreInOrder` |
| `ProcessLifecycleProofs` | `TypeCorrect`, `CounterIsRight`, `MemoryOutlivesUsers`, `EverythingIsReturned`, `LinksStayPut`, `PollerIsAlone`, `LeavesNothingBehind`, `ShowsSucceeded`, and `ServesAndStops`: every step is one of `ServerLife` or leaves it alone |
| `LogFileProofs` | `TypeCorrect`, `KeepsRows`, `NotModified`, `TodayShowsOneRow`, `RowsPageIsNewest`, `GraphsAreFaithful` |

The inductive invariants, each called `IInv` unless another name is given:

* Queue: the four invariants together. That no two jobs share a recommendation
  needs `ActiveNamesJob`, because the duplicate check sees the job being sent only
  through `active_notification_rec`; that a pop finds a job needs the count in
  `SemMatchesQueue`.
* Lock file: the invariants, and what the running call carries: in memory
  (`CallCarriesSlots`) and, after the close, in the temporary file
  (`TmpIsComplete`), where each slot is the one told or, for those in `losing`, zero.
  Without them the rename could put anything in place. `KeptOld` covers a remove
  that failed: the old file still stands when the rename fails too.
* Service: `JobsInOrder` and `History` order the time stamps. The jobs' stamps
  increase along the queue, from the job being sent to the poller's, and each lies
  in the window of its recommendation; a running quiet period was counted from a
  stamp not after any of those. With the policy's lemma that a quiet period covers
  no moment of the opposite window, the job being sent is never inside the quiet
  period of the opposite recommendation (`OthersAreOver`). So replacing the lock
  file, which may lose the other slot, loses none that runs, and a new quiet
  period does not end before the one it replaces (`QuietGrows`).
* Fan: who is inside the handlers holds the mutex (`MutexHeld`), a sleeping fan
  stands still, and readings are never younger than the controller
  (`ReadingsOrdered`). The rest follows a request step by step: how many commands
  the controller had obeyed when it started, how many of its own came since, and, as
  long as those are all, which speed that gives. However late the CGI is, while the fan
  is being raised it never shows more than the fan runs at: so the loop does not stop
  early, and its bound stops it at the default.
* Process: `WInv` ties what exists (`HeldNow`), the accept thread (`LoopNow`) and the
  links (`NavNow`) to where the starting and stopping thread is. Its core is
  `NobodyLeft`: from the moment the stopping thread has seen the counter at zero
  nobody uses the server, because the accept thread, the only one to add a client,
  was joined before and the counter is the number of counted threads
  (`CountIsLive`). `MInv` adds what `main` holds at each of its steps.
* Display: `DInv`. Until the server is published nothing is set up (`Fresh`); while
  it is, the display `Shows` exactly what the calls before `setup` left in `done`,
  and the links are counted (`Links`). `Shows` also says that no two graphs share a
  title (`OneOfATitle`): without it a decoration could go to another graph
  than the one it names. There is a lemma for each kind of call, which takes `Shows`
  from the call before to the call after, whether it succeeds, fails, or fails
  after the array has grown.
* Log: `LogInv`, in five parts. `WritersOK` says that the trimmer is the one that
  holds the mutex, so that nobody appends between copy and rename. `FilesOK` gives
  the files their types. `HistoryOK` compares the copy, while it waits for its rename, with the log it
  replaces: trimming twice is trimming once, and the oldest time kept only moves
  forward. Its part `TailOK` says that the last line ends as the history says, so
  that a row runs into a row, or into part of one, just when `tail` has it.
  `BrowserOK` is about an answer that was read whole and the file it was taken from (`Fits`):
  as long as no trim has replaced that file its size only grows, by at least one
  for every line that is written or torn, so an answer whose version has the size of
  the log holds all its lines. `OrderOK` is what makes spans right in a log that is
  not sorted: one thread logs the rows that open and close them, each stamped after
  the one before was written, and a trim takes rows away without moving any.

The windows of the graphs need no invariant but the calendar's arithmetic: a midnight
is two hours away from the change, so `mktime` has one answer for it and the window
of whole days is exact. An even hour of the day graph may fall on the change; then
its window may end before the moment, but only within an hour of the change, which is
the exception that `WindowsHold` makes.

Induction over data. The induction theorems of the library take the statement as an
operator, which the installed provers cannot instantiate. `FoldFacts` gets around
that: it takes the statement as a *set*, proves from well-foundedness that a set with
0 and all successors holds every natural number, and carries this over to sequences.
What a loop does is its constant operator `body`, which a module gives by `INSTANCE
FoldFacts WITH body <- ...`. One lemma for each loop says that it is the fold of that
instance; from there every proof about the lines of a log is an ordinary induction.
`NotificationServiceProofs` takes the policy's lemmas from `RecClockProofs` in the same
way, by `INSTANCE`.

Only model-checked: liveness (`RequestsAnswered`, `FailedStartExits`,
`BrowserCatchesUp`, the liveness halves of `ImplementsSlots` and `ImplementsLife`),
because fairness and ENABLED are out of the prover's reach. The violations are runs,
not theorems.

## Not modelled, and why

* The shared `struct tm` of `localtime()`: poller, worker and web threads may
  overwrite each other's result between the call and its use. The torn value can
  combine any two moments, so no property of the windows survives it; it is listed
  as a hazard.
* In the policy, daylight-saving changes and a clock that is set back: the code does
  not handle them. (The windows of the graphs are checked across clock changes.)
* How often Pushover delivers a message whose answer was lost: the code promises
  nothing about it.
* The text of messages, rows and pages; the comparison of tokens; configuration
  parsing, templates, assets, styles, rendering in the browser: no state that the
  properties speak of. Log rows appear as what the pages read in them.
* `loggerWebSetAuthToken` and `loggerWebShowRefreshButton`, which nothing in the
  application calls; the Windows variants.
* A browser that fetches the graphs while `main` is still configuring them: it keeps
  the smaller page until the log changes.
* `notifLock.sh`, run by hand or on deployment, which overwrites the lock file.

## Plan

Done: queue, policy, lock file, service, fan, web server, process, log, pages, graph
windows, set-up calls, and the proofs above. What could follow:

1. An abstract log (a set of rows with a cutoff) that `LogFile` implements, so that
   the pages and the writers can be reasoned about apart.
2. The steps that liveness rests on, as far as they are safety: for each state in
   which a thread waits, that another thread is on its way to release it.
3. What the events and the points of a graph show (`Events`, `Points`), with the
   markers of two event names, in the way of `GraphIsFaithful`.
4. The service over a lock file that another program overwrites (`notifLock.sh`).
