-------------------------- MODULE ProcessLifecycle --------------------------
(***************************************************************************)
(* main (houseNotif.c) around the web server: the order in which it        *)
(* acquires the instance lock (lock/instanceLock.c), libcurl, the logger   *)
(* and the server, what it gives back when the worker cannot be started,   *)
(* and the atexit handler that stops the server.  A second process waits   *)
(* for the instance lock.                                                  *)
(***************************************************************************)
EXTENDS WebServer, GraphConfig, SequencesExt

CONSTANTS MayFail,  \* the calls of Setup that may run out of memory
          Failures  \* one more may while fewer than this have failed

VARIABLES main,       \* where main is
          lock,       \* the processes that hold the lock on the lock file
          ready,      \* of {"curl", "logger"}, what is initialised
          stop_registered,
          display,    \* what the server shows
          setup,      \* the next call of Setup
          done        \* the calls that returned 1

setupVars == <<display, setup, done>>
mainVars == <<main, lock, ready, stop_registered, setupVars>>

LifeInit ==
    /\ Init
    /\ main = "config" /\ lock = {} /\ ready = {} /\ stop_registered = FALSE
    /\ display = NoDisplay /\ setup = 1 /\ done = {}

\* configLoad and logger_init_file; a failure returns from main at once.
MainConfig ==
    /\ main = "config"
    /\ \/ main' = "lock" /\ ready' = {"logger"}
       \/ main' = "exit" /\ UNCHANGED ready
    /\ UNCHANGED <<vars, lock, stop_registered, setupVars>>

\* Mutant: a lock that is held elsewhere does not stop the process.
instanceLockAcquire_Shared ==
    main' = "curl" /\ lock' = lock \cup {"main"} /\ UNCHANGED ready

\* F_SETLK does not wait: the second process gives up.  open may fail too.
instanceLockAcquire ==
    \/ lock = {} /\ main' = "curl" /\ lock' = {"main"} /\ UNCHANGED ready
    \/ main' = "exit" /\ ready' = ready \ {"logger"} /\ UNCHANGED lock

MainLocks ==
    /\ main = "lock" /\ instanceLockAcquire
    /\ UNCHANGED <<vars, stop_registered, setupVars>>

MainCurl ==
    /\ main = "curl"
    /\ \/ main' = "log" /\ ready' = ready \cup {"curl"}
       \/ main' = "destroyed" /\ ready' = {}
    /\ UNCHANGED <<vars, lock, stop_registered, setupVars>>

\* appWriteStartupLog, then loggerWebStartWithConfig up to its check.
MainStartsWeb ==
    /\ main = "log" /\ StartCheck
    /\ main' = "web"
    /\ UNCHANGED <<lock, ready, stop_registered, setupVars>>

\* Mutant: the server is never registered to be stopped.
MainPublishes_Unregistered ==
    main = "web" /\ Publish /\ UNCHANGED mainVars

MainPublishes ==
    /\ main = "web" /\ Publish
    /\ stop_registered' = TRUE
    /\ UNCHANGED <<main, lock, ready, setupVars>>

MainStarting ==
    /\ main = "web"
    /\ StartStep \/ StartFails
    /\ UNCHANGED mainVars

Called(ok) ==
    /\ setup' = setup + 1
    /\ done' = IF ok THEN done \cup {setup} ELSE done

\* A call of appStartLoggerWebOnPort; the results are not looked at.
MainConfigures ==
    /\ main = "web" /\ driver = "on" /\ active_server_mutex = Free
    /\ setup \in DOMAIN Setup /\ Setup[setup].op # "nav"
    /\ \E r \in Outcomes(display, Setup[setup]) :
          /\ \/ r.ok
             \/ setup \in MayFail /\ Cardinality((1 .. setup - 1) \ done) < Failures
             \/ \A x \in Outcomes(display, Setup[setup]) : ~x.ok
          /\ display' = r.display /\ Called(r.ok)
    /\ UNCHANGED <<vars, main, lock, ready, stop_registered>>

MainAddsLink ==
    /\ main = "web" /\ setup \in DOMAIN Setup /\ Setup[setup].op = "nav"
    /\ AddNavLink
    /\ Called(nav'.count > nav.count)
    /\ UNCHANGED <<main, lock, ready, stop_registered, display>>

\* The process goes on without a viewer when it could not be started.
MainStartsWorker ==
    /\ main = "web" /\ driver \in {"off", "on"}
    /\ driver = "on" => setup \notin DOMAIN Setup
    /\ \/ main' = "poll" /\ UNCHANGED ready
       \/ main' = "destroyed" /\ ready' = {}
    /\ UNCHANGED <<vars, lock, stop_registered, setupVars>>

MainReleases ==
    /\ main = "destroyed"
    /\ lock' = {} /\ main' = "exit"
    /\ UNCHANGED <<vars, ready, stop_registered, setupVars>>

\* atexit(loggerWebStop) runs after main has returned.
ExitStops ==
    /\ main = "exit" /\ stop_registered /\ StopTake
    /\ stop_registered' = FALSE
    /\ UNCHANGED <<main, lock, ready, setupVars>>

Exited ==
    /\ main = "exit" /\ ~stop_registered /\ driver \in {"off", "on"}
    /\ main' = "gone"
    /\ UNCHANGED <<vars, lock, ready, stop_registered, setupVars>>

OtherProcess ==
    /\ \/ lock = {} /\ lock' = {"other"}
       \/ "other" \in lock /\ lock' = lock \ {"other"}
    /\ UNCHANGED <<vars, main, ready, stop_registered, setupVars>>

Main == MainConfig \/ MainLocks \/ MainCurl \/ MainStartsWeb \/ MainPublishes
        \/ MainStarting \/ MainConfigures \/ MainAddsLink \/ MainStartsWorker \/ MainReleases \/ ExitStops \/ Exited

ServerThreads == Stop \/ SpuriousWake \/ Loop \/ \E c \in Conn : Connect(c) \/ Client(c)

\* A step of the server beside main; FreeServer frees what it shows.
Beside(step) ==
    /\ step /\ main # "gone"
    /\ display' = IF driver = "free" /\ driver' = "off" THEN NoDisplay ELSE display
    /\ UNCHANGED <<main, lock, ready, stop_registered, setup, done>>

LifeNext == Main \/ OtherProcess \/ Beside(ServerThreads)

lifeVars == <<vars, mainVars>>

LifeSpec ==
    /\ LifeInit /\ [][LifeNext]_lifeVars
    /\ SF_lifeVars(Main)
    /\ WF_lifeVars(Beside(Stop))
    /\ WF_lifeVars(Beside(Loop))
    /\ \A c \in Conn : SF_lifeVars(Beside(Client(c)))

-----------------------------------------------------------------------------
(* Properties.                                                             *)

\* instanceLock.c:90: while one process polls, sends notifications and writes
\* the log, the other cannot be past its lock.
PollsAlone == main = "poll" => lock = {"main"} /\ ready = {"curl", "logger"}

\* houseNotif.c:53-59: the failed start runs down in the end, with its server
\* stopped and no client thread left in freed memory.
ExitIsClean == main = "gone" => held = {} /\ Users = {}

\* app_startup.c:66-130: nobody looks at the results of the set-up calls, so
\* one that fails must leave a smaller display, never a wrong one: what a page
\* shows is exactly what the calls that returned 1 asked for, on the graph they
\* named, and a graph that could not be inserted takes its decorations along.
Succeeded(op, on) ==
    FoldLeft(LAMBDA items, i : IF i \in done /\ Setup[i].op = op /\ Setup[i].on = on
                                 THEN Append(items, Setup[i].item) ELSE items,
             <<>>, [i \in 1 .. setup - 1 |-> i])

ShowsWhatSucceeded ==
    driver = "on" =>
        /\ nav.count = Len(Succeeded("nav", "viewer"))
        /\ display.options =
              {Setup[i].item : i \in {j \in done : Setup[j].op \in {"set", "today"}}}
        /\ {display.graphs[i].title : i \in DOMAIN display.graphs} =
              {Setup[i].on : i \in {j \in done : Setup[j].on # "viewer"}}
        /\ Len(display.graphs) <= display.graph_capacity
        /\ \A i \in DOMAIN display.graphs :
              LET g == display.graphs[i]
              IN  /\ g.verts.items = Succeeded("vert", g.title)
                  /\ g.spans.items = Succeeded("span", g.title)
                  /\ g.colored = (Succeeded("color", g.title) # <<>>)
                  /\ Len(g.verts.items) <= g.verts.cap /\ Len(g.spans.items) <= g.spans.cap

FailedStartExits == main = "destroyed" ~> main = "gone"

\* houseNotif.c:33 "Hold the process lock for the full lifetime of the
\* application": the process does not serve requests without it.
LockForLife == loop.pc # "none" => lock = {"main"}

=============================================================================
