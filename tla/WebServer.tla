----------------------------- MODULE WebServer -----------------------------
(***************************************************************************)
(* The web viewer (logger/web/loggerWeb.c, loggerWebServer.c): one thread  *)
(* starts, configures and stops it, an accept thread hands connections to  *)
(* detached client threads, and a counter under client_mutex with a        *)
(* condition lets the stopping thread wait for the last of them.  The      *)
(* setters and the Today panel share active_server_mutex.                  *)
(***************************************************************************)
EXTENDS Integers, FiniteSets, Sequences

CONSTANTS Conn,        \* connections, and the client threads that serve them
          Free,        \* nobody holds the mutex
          NavLinks     \* loggerWebAddNavLink calls after a start

ASSUME ServerAssumption ==
    /\ Free \notin Conn /\ IsFiniteSet(Conn)
    /\ NavLinks \in 0 .. 4

VARIABLES driver,      \* the starting, configuring and stopping thread
          stage,       \* the next resource a start acquires
          held,        \* resources of the server that exist
          active,      \* active_server # NULL
          stop_requested,
          loop,        \* the accept thread: where it is, and its connection
          conn,        \* per connection
          active_client_count,
          client_mutex, active_server_mutex,
          nav,         \* nav_links: count, capacity and how often it moved
          seen         \* per connection: the nav array a page is reading

vars == <<driver, stage, held, active, stop_requested, loop, conn,
          active_client_count, client_mutex, active_server_mutex, nav, seen>>

server == <<held, active, stop_requested>>
mutexes == <<client_mutex, active_server_mutex>>

NoNav == [count |-> 0, cap |-> 0, moves |-> 0]

Init ==
    /\ driver = "off" /\ stage = 1 /\ held = {}
    /\ active = FALSE /\ stop_requested = FALSE
    /\ loop = [pc |-> "none", fd |-> Free]
    /\ conn = [c \in Conn |-> "none"]
    /\ active_client_count = 0
    /\ client_mutex = Free /\ active_server_mutex = Free
    /\ nav = NoNav
    /\ seen = [c \in Conn |-> NoNav]

-----------------------------------------------------------------------------
(* Starting.                                                               *)

\* What loggerWebStartWithConfig and loggerWebStartServer acquire, in order.
Stages == <<"memory", "display", "sockets", "sync", "socket", "thread">>
Resources == {Stages[i] : i \in DOMAIN Stages}

\* Mutant: the failure paths of loggerWebStartServer keep the mutexes.
Unwound_KeepsSync(i) == {Stages[k] : k \in 1 .. i - 1} \ {"sync"}

\* What the failure path of the i-th acquisition gives back.
Unwound(i) == {Stages[k] : k \in 1 .. i - 1}

StartCheck ==
    /\ driver = "off" /\ active_server_mutex = Free /\ ~active
    /\ driver' = "starting" /\ stage' = 1
    /\ UNCHANGED <<server, loop, conn, active_client_count, mutexes, nav, seen>>

\* The memory is zeroed by calloc; the accept thread runs from its creation.
StartStep ==
    /\ driver = "starting" /\ stage \in DOMAIN Stages
    /\ held' = held \cup {Stages[stage]}
    /\ stage' = stage + 1
    /\ stop_requested' = IF Stages[stage] = "memory" THEN FALSE ELSE stop_requested
    /\ loop' = IF Stages[stage] = "thread" THEN [pc |-> "top", fd |-> Free] ELSE loop
    /\ UNCHANGED <<driver, active, conn, active_client_count, mutexes, nav, seen>>

\* A client that has already connected to a socket whose accept thread cannot
\* be created is dropped with it.
StartFails ==
    /\ driver = "starting" /\ stage \in DOMAIN Stages
    /\ held' = held \ Unwound(stage)
    /\ driver' = "off" /\ stage' = 1
    /\ conn' = [c \in Conn |-> IF conn[c] = "backlog" THEN "none" ELSE conn[c]]
    /\ UNCHANGED <<active, stop_requested, loop, active_client_count, mutexes, nav, seen>>

Publish ==
    /\ driver = "starting" /\ stage \notin DOMAIN Stages
    /\ active_server_mutex = Free
    /\ active' = TRUE /\ driver' = "on" /\ stage' = 1
    /\ UNCHANGED <<held, stop_requested, loop, conn, active_client_count, mutexes, nav, seen>>

\* Mutant: the array starts with one place.
Capacity_One(cap) == IF cap = 0 THEN 1 ELSE cap * 2

Capacity(cap) == IF cap = 0 THEN 4 ELSE cap * 2

\* realloc moves the array when it is full; the count follows the entry.  Out
\* of memory, the array may have moved all the same.
AddNavLink ==
    /\ driver = "on" /\ active_server_mutex = Free /\ active
    /\ nav.count < NavLinks
    /\ LET room == IF nav.count = nav.cap
                     THEN [nav EXCEPT !.cap = Capacity(@), !.moves = @ + 1]
                     ELSE nav
       IN  nav' \in {nav, room, [room EXCEPT !.count = @ + 1]}
    /\ UNCHANGED <<driver, stage, server, loop, conn, active_client_count, mutexes, seen>>

-----------------------------------------------------------------------------
(* The accept thread.                                                      *)

Connect(c) ==
    /\ conn[c] = "none" /\ "socket" \in held
    /\ conn' = [conn EXCEPT ![c] = "backlog"]
    /\ UNCHANGED <<driver, stage, server, loop, active_client_count, mutexes, nav, seen>>

LoopTop ==
    /\ loop.pc = "top"
    /\ loop' = [loop EXCEPT !.pc = IF stop_requested THEN "gone" ELSE "accept"]
    /\ UNCHANGED <<driver, stage, server, conn, active_client_count, mutexes, nav, seen>>

Accept(c) ==
    /\ loop.pc = "accept" /\ conn[c] = "backlog" /\ "socket" \in held
    /\ loop' = [pc |-> "got", fd |-> c]
    /\ conn' = [conn EXCEPT ![c] = "accepted"]
    /\ UNCHANGED <<driver, stage, server, active_client_count, mutexes, nav, seen>>

\* portableSocketClose shuts the socket down, which wakes a blocked accept.
AcceptFails ==
    /\ loop.pc = "accept" /\ "socket" \notin held
    /\ loop' = [loop EXCEPT !.pc = IF stop_requested THEN "gone" ELSE "top"]
    /\ UNCHANGED <<driver, stage, server, conn, active_client_count, mutexes, nav, seen>>

\* A connection that its browser gave up: accept fails and the loop goes on.
AcceptAborted(c) ==
    /\ loop.pc = "accept" /\ conn[c] = "backlog" /\ "socket" \in held
    /\ loop' = [loop EXCEPT !.pc = IF stop_requested THEN "gone" ELSE "top"]
    /\ conn' = [conn EXCEPT ![c] = "none"]
    /\ UNCHANGED <<driver, stage, server, active_client_count, mutexes, nav, seen>>

\* Mutant: the thread counts itself once it runs.
CountClient_Late == UNCHANGED active_client_count

\* The client is counted before its thread exists.
CountClient == active_client_count' = active_client_count + 1

\* Without memory or a thread for it, the accept thread serves the client.
TakesBack ==
    /\ loop' = [loop EXCEPT !.pc = "inline"]
    /\ conn' = [conn EXCEPT ![loop.fd] = "serving"]

\* startClient up to pthread_create, or no memory for the job.
StartClient ==
    /\ loop.pc = "got"
    /\ \/ /\ client_mutex = Free /\ CountClient
          /\ loop' = [loop EXCEPT !.pc = "create"] /\ UNCHANGED conn
       \/ TakesBack /\ UNCHANGED active_client_count
    /\ UNCHANGED <<driver, stage, server, mutexes, nav, seen>>

CreateClient ==
    /\ loop.pc = "create"
    /\ conn' = [conn EXCEPT ![loop.fd] = "serving"]
    /\ loop' = [pc |-> "top", fd |-> Free]
    /\ UNCHANGED <<driver, stage, server, active_client_count, mutexes, nav, seen>>

\* Mutant: the last client leaves without waking the stopping thread.
Uncount_Silent ==
    /\ active_client_count > 0
    /\ active_client_count' = active_client_count - 1
    /\ UNCHANGED driver

\* The section of finishClient: the last client wakes everyone who waits.
Uncount ==
    /\ active_client_count > 0
    /\ active_client_count' = active_client_count - 1
    /\ driver' = IF active_client_count = 1 /\ driver = "asleep" THEN "drain" ELSE driver

\* pthread_create fails: finishClient in the accept thread.
CreateFails ==
    /\ loop.pc = "create" /\ client_mutex = Free
    /\ Uncount /\ TakesBack
    /\ UNCHANGED <<stage, server, mutexes, nav, seen>>

\* It has been served, by the steps of a client thread, and is closed.
ServeInline ==
    /\ loop.pc = "inline" /\ conn[loop.fd] = "closed"
    /\ conn' = [conn EXCEPT ![loop.fd] = "none"]
    /\ loop' = [pc |-> "top", fd |-> Free]
    /\ UNCHANGED <<driver, stage, server, active_client_count, mutexes, nav, seen>>

-----------------------------------------------------------------------------
(* A client thread, or the accept thread in its place.                     *)

\* loggerWebHandleClient sends most answers without a lock, loggerWebSendNav
\* reading the links; the Today panel is sent to the client with
\* active_server_mutex held.
ReadNav(c) ==
    /\ conn[c] = "serving"
    /\ seen' = [seen EXCEPT ![c] = nav]
    /\ conn' = [conn EXCEPT ![c] = "nav"]
    /\ UNCHANGED <<driver, stage, server, loop, active_client_count, mutexes, nav>>

WantsPanel(c) ==
    /\ conn[c] = "serving"
    /\ conn' = [conn EXCEPT ![c] = "wait"]
    /\ UNCHANGED <<driver, stage, server, loop, active_client_count, mutexes, nav, seen>>

Panel(c) ==
    /\ conn[c] = "wait" /\ active_server_mutex = Free
    /\ active_server_mutex' = c
    /\ conn' = [conn EXCEPT ![c] = "panel"]
    /\ UNCHANGED <<driver, stage, server, loop, active_client_count, client_mutex, nav, seen>>

\* The answer has been sent and the socket is closed.
Served(c) ==
    /\ conn[c] \in {"serving", "nav", "panel"}
    /\ active_server_mutex' = IF active_server_mutex = c THEN Free ELSE active_server_mutex
    /\ conn' = [conn EXCEPT ![c] = "closed"]
    /\ seen' = [seen EXCEPT ![c] = NoNav]
    /\ UNCHANGED <<driver, stage, server, loop, active_client_count, client_mutex, nav>>

Inline(c) == loop.pc = "inline" /\ loop.fd = c

FinishClient(c) ==
    /\ conn[c] = "closed" /\ ~Inline(c) /\ client_mutex = Free
    /\ client_mutex' = c
    /\ Uncount
    /\ conn' = [conn EXCEPT ![c] = "unlock"]
    /\ UNCHANGED <<stage, server, loop, active_server_mutex, nav, seen>>

Unlock(c) ==
    /\ conn[c] = "unlock"
    /\ client_mutex' = Free
    /\ conn' = [conn EXCEPT ![c] = "none"]
    /\ UNCHANGED <<driver, stage, server, loop, active_client_count, active_server_mutex, nav, seen>>

-----------------------------------------------------------------------------
(* Stopping.                                                               *)

StopTake ==
    /\ driver = "on" /\ active_server_mutex = Free
    /\ active' = FALSE /\ stop_requested' = TRUE
    /\ driver' = "close"
    /\ UNCHANGED <<stage, held, loop, conn, active_client_count, mutexes, nav, seen>>

CloseSocket ==
    /\ driver = "close"
    /\ held' = held \ {"socket"}
    /\ conn' = [c \in Conn |-> IF conn[c] = "backlog" THEN "none" ELSE conn[c]]
    /\ driver' = "join"
    /\ UNCHANGED <<stage, active, stop_requested, loop, active_client_count, mutexes, nav, seen>>

\* Mutant: the accept thread is detached instead of joined.
Join_Detached ==
    /\ driver = "join"
    /\ held' = held \ {"thread"}
    /\ driver' = "drain"
    /\ UNCHANGED <<stage, active, stop_requested, loop, conn, active_client_count, mutexes, nav, seen>>

Join ==
    /\ driver = "join" /\ loop.pc = "gone"
    /\ held' = held \ {"thread"}
    /\ loop' = [loop EXCEPT !.pc = "none"]
    /\ driver' = "drain"
    /\ UNCHANGED <<stage, active, stop_requested, conn, active_client_count, mutexes, nav, seen>>

\* Mutant: nobody is waited for.
Drain_Not ==
    /\ driver = "drain" /\ client_mutex = Free
    /\ driver' = "destroy"
    /\ UNCHANGED <<stage, server, loop, conn, active_client_count, mutexes, nav, seen>>

\* The test and the wait are one section of client_mutex.
Drain ==
    /\ driver = "drain" /\ client_mutex = Free
    /\ driver' = IF active_client_count = 0 THEN "destroy" ELSE "asleep"
    /\ UNCHANGED <<stage, server, loop, conn, active_client_count, mutexes, nav, seen>>

SpuriousWake ==
    /\ driver = "asleep" /\ driver' = "drain"
    /\ UNCHANGED <<stage, server, loop, conn, active_client_count, mutexes, nav, seen>>

Destroy ==
    /\ driver = "destroy"
    /\ held' = held \ {"sync", "sockets"}
    /\ driver' = "free"
    /\ UNCHANGED <<stage, active, stop_requested, loop, conn, active_client_count, mutexes, nav, seen>>

FreeServer ==
    /\ driver = "free"
    /\ held' = held \ {"display", "memory"}
    /\ nav' = NoNav
    /\ driver' = "off"
    /\ UNCHANGED <<stage, active, stop_requested, loop, conn, active_client_count, mutexes, seen>>

Loop == LoopTop \/ AcceptFails \/ StartClient \/ CreateClient \/ CreateFails
        \/ ServeInline \/ \E c \in Conn : Accept(c) \/ AcceptAborted(c)
Client(c) == ReadNav(c) \/ WantsPanel(c) \/ Panel(c) \/ Served(c) \/ FinishClient(c) \/ Unlock(c)
Stop == CloseSocket \/ Join \/ Drain \/ Destroy \/ FreeServer
Driver == StartCheck \/ StartStep \/ StartFails \/ Publish \/ AddNavLink
          \/ StopTake \/ SpuriousWake \/ Stop

Next == Driver \/ Loop \/ \E c \in Conn : Connect(c) \/ Client(c)

Spec == Init /\ [][Next]_vars

\* Every thread that can go on does, which for a client thread also says that
\* the browser sends its request and reads the answer (the sockets have no
\* timeout).  It is strong for the clients: a mutex that is released again and
\* again is granted to each of them.  Nobody needs to connect, to start or to stop the server.
FairSpec == Spec /\ WF_vars(Loop) /\ WF_vars(Stop)
                 /\ \A c \in Conn : SF_vars(Client(c))

-----------------------------------------------------------------------------
(* Properties.                                                             *)

\* Counted connections: from CountClient to Uncount.
Counted == {c \in Conn : \/ /\ conn[c] \in {"serving", "nav", "wait", "panel", "closed"}
                             /\ ~Inline(c)
                          \/ (loop.pc = "create" /\ loop.fd = c)}

\* Connections whose thread has or will use the server's memory.
Users == {c \in Conn : conn[c] \in {"accepted", "serving", "nav", "wait", "panel", "closed", "unlock"}}

TypeOK ==
    /\ driver \in {"off", "starting", "on", "close", "join", "drain", "asleep",
                   "destroy", "free"}
    /\ stage \in 1 .. Len(Stages) + 1
    /\ held \subseteq Resources
    /\ active \in BOOLEAN /\ stop_requested \in BOOLEAN
    /\ loop \in [pc : {"none", "top", "accept", "got", "create", "inline", "gone"},
                 fd : Conn \cup {Free}]
    /\ conn \in [Conn -> {"none", "backlog", "accepted", "serving", "nav", "wait",
                          "panel", "closed", "unlock"}]
    /\ active_client_count \in Nat
    /\ client_mutex \in Conn \cup {Free} /\ active_server_mutex \in Conn \cup {Free}
    /\ nav \in [count : 0 .. 4, cap : {0, 4}, moves : 0 .. 1]
    /\ seen \in [Conn -> [count : 0 .. 4, cap : {0, 4}, moves : 0 .. 1]]

\* loggerWebServer.c:134: active_client_count is what the stopping thread knows
\* of the detached threads, also when pthread_create fails half way.
CountIsLive == active_client_count = Cardinality(Counted)

\* loggerWeb.c:165: no thread that still serves, or still holds client_mutex
\* on its way out, sees the server's locks destroyed or its memory freed.
NoUseAfterFree ==
    Users # {} => {"memory", "display", "sync"} \subseteq held

\* loggerWebServer.c:45-106: a start that fails at any step, and a stop, give
\* back everything that was acquired.
NothingLeaks == driver = "off" => held = {} /\ ~active

\* loggerWebTemplate.c:152 reads nav_links without a lock: the array it walks
\* is not moved under it by a later loggerWebAddNavLink.
NavArrayStays ==
    \A c \in Conn : conn[c] = "nav" /\ seen[c].count > 0 => seen[c].moves = nav.moves

\* The threads implement the abstract life of the server.
Life == INSTANCE ServerLife WITH
    phase <- CASE driver \in {"off", "starting"} /\ "thread" \notin held -> "off"
               [] driver \in {"starting", "on"} /\ "thread" \in held -> "open"
               [] OTHER -> "closing",
    live <- Users
ImplementsLife == Life!Spec

=============================================================================
