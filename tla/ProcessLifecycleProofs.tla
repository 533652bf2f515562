------------------------ MODULE ProcessLifecycleProofs ------------------------
(***************************************************************************)
(* Proofs about the process for any finite set of connections.             *)
(*                                                                         *)
(* The web server's part of the invariant ties what exists (held), the     *)
(* accept thread and the client threads to where the starting and stopping *)
(* thread is: from the moment it has seen the counter at zero nobody uses  *)
(* the server any more, because the accept thread, the only one to add a   *)
(* client, has been joined before.                                         *)
(***************************************************************************)
EXTENDS ProcessLifecycle, FiniteSetTheorems, TLAPS

\* The accept thread does not exist.
NoLoop ==
    \/ driver \in {"off", "drain", "asleep", "destroy", "free"}
    \/ driver = "starting" /\ stage # 7

Acquired(s) == {Stages[k] : k \in 1 .. s - 1}

HeldNow ==
    /\ driver = "off" => held = {}
    /\ driver = "starting" => held = Acquired(stage)
    /\ driver \in {"on", "close"} => held = Resources
    /\ driver = "join" => held = Resources \ {"socket"}
    /\ driver \in {"drain", "asleep", "destroy"} => held = Resources \ {"socket", "thread"}
    /\ driver = "free" => held = {"memory", "display"}
    /\ active <=> driver = "on"

LoopNow ==
    /\ loop.pc = "none" <=> NoLoop
    /\ \A c \in Conn : conn[c] = "accepted" <=>
          loop.fd = c /\ loop.pc \in {"got", "create"}
    /\ \A c \in Conn : Inline(c) => conn[c] \in {"serving", "nav", "wait", "panel", "closed"}
    /\ loop.pc \in {"got", "create", "inline"} => loop.fd \in Conn

Unlocking == \A c \in Conn : conn[c] = "unlock" <=> client_mutex = c

NobodyLeft ==
    driver \in {"off", "destroy", "free"} \/ (driver = "starting" /\ stage # 7)
        => Users = {}

NavNow ==
    /\ nav.count <= nav.cap /\ nav.count <= NavLinks
    /\ nav.cap = (IF nav.moves = 0 THEN 0 ELSE 4)
    /\ \A c \in Conn : conn[c] = "nav" /\ seen[c].count > 0 =>
          nav.moves = 1 /\ seen[c].moves = 1

WInv == TypeOK /\ HeldNow /\ LoopNow /\ Unlocking /\ NobodyLeft /\ NavNow /\ CountIsLive

\* main holds the lock while it acquires and polls; a server exists from the
\* moment the start is logged, and is registered as long as it is published.
MInv ==
    /\ main \in {"config", "lock", "curl", "log", "web", "poll", "destroyed", "exit", "gone"}
    /\ main \in {"curl", "log", "web", "poll", "destroyed"} => lock = {"main"}
    /\ main \in {"lock", "curl"} => ready = {"logger"}
    /\ main \in {"log", "web", "poll"} => ready = {"curl", "logger"}
    /\ main \in {"config", "lock", "curl", "log", "gone"} => driver = "off"
    /\ stop_registered <=> driver = "on"

IInv == WInv /\ MInv

-----------------------------------------------------------------------------
(* Lemmas about the resources of a start and about the counted clients.    *)

\* The six resources of a start, and what is acquired before and after all of them.
LEMMA StageFacts ==
    /\ DOMAIN Stages = 1 .. 6 /\ Len(Stages) = 6
    /\ Stages[1] = "memory" /\ Stages[2] = "display" /\ Stages[3] = "sockets"
    /\ Stages[4] = "sync" /\ Stages[5] = "socket" /\ Stages[6] = "thread"
    /\ Resources = {"memory", "display", "sockets", "sync", "socket", "thread"}
    /\ Acquired(1) = {} /\ Acquired(7) = Resources
<1>1. /\ DOMAIN Stages = 1 .. 6 /\ Len(Stages) = 6
      /\ Stages[1] = "memory" /\ Stages[2] = "display" /\ Stages[3] = "sockets"
      /\ Stages[4] = "sync" /\ Stages[5] = "socket" /\ Stages[6] = "thread"
  BY DEF Stages
<1>2. Resources = {"memory", "display", "sockets", "sync", "socket", "thread"}
  BY <1>1 DEF Resources
<1>3. Acquired(1) = {} /\ Acquired(7) = Resources
  BY <1>1 DEF Acquired, Resources
<1> QED
  BY <1>1, <1>2, <1>3

\* What is acquired grows by the next resource; a failed start gives it back.
LEMMA AcquireNext ==
    ASSUME NEW s \in 1 .. 6
    PROVE  /\ Acquired(s + 1) = Acquired(s) \cup {Stages[s]}
           /\ Acquired(s) \ Unwound(s) = {} /\ Acquired(s) \subseteq Resources
  BY StageFacts DEF Acquired, Unwound, Resources

\* The counted clients are connections.
LEMMA CountedFinite == IsFiniteSet(Counted)
  BY FS_Subset, ServerAssumption DEF Counted

\* A counter at zero means that there is no client thread.
LEMMA ZeroIsNobody ==
    ASSUME CountIsLive, active_client_count = 0
    PROVE  Counted = {}
  BY CountedFinite, FS_EmptySet DEF CountIsLive

-----------------------------------------------------------------------------
(* Each part of WInv, step by step.  The steps are taken in groups: of the *)
(* starting thread, the accept thread, the clients and the stopping thread.*)

Starts == StartCheck \/ StartStep \/ StartFails \/ Publish
Accepts == LoopTop \/ AcceptFails \/ StartClient \/ CreateClient \/ CreateFails \/ ServeInline
Serves(c) == Accept(c) \/ AcceptAborted(c) \/ Connect(c) \/ Client(c)
Stops == StopTake \/ SpuriousWake \/ Stop

\* The groups cover every step.
LEMMA NextIs ==
    Next <=> Starts \/ AddNavLink \/ Accepts \/ Stops \/ \E c \in Conn : Serves(c)
  BY DEF Next, Driver, Loop, Starts, Accepts, Serves, Stops

\* The links of one start need at most the first array.
LEMMA NavType ==
    ASSUME TypeOK, NavNow, AddNavLink
    PROVE  /\ nav' \in [count : 0 .. 4, cap : {0, 4}, moves : 0 .. 1]
           /\ nav'.count <= nav'.cap /\ nav'.count <= NavLinks
           /\ nav'.cap = (IF nav'.moves = 0 THEN 0 ELSE 4)
           /\ nav.moves <= nav'.moves /\ (nav.count > 0 => nav'.moves = nav.moves)
<1> DEFINE grown == [nav EXCEPT !.cap = 4]
           first == [grown EXCEPT !.moves = 1]
           room == IF nav.count = nav.cap
                     THEN [nav EXCEPT !.cap = Capacity(@), !.moves = @ + 1] ELSE nav
<1>1. /\ nav \in [count : 0 .. 4, cap : {0, 4}, moves : 0 .. 1]
      /\ nav.count \in 0 .. 4 /\ nav.cap \in {0, 4} /\ nav.moves \in 0 .. 1
      /\ nav.count < NavLinks /\ NavLinks \in 0 .. 4
  BY ServerAssumption DEF TypeOK, AddNavLink
<1>2. /\ grown \in [count : 0 .. 4, cap : {0, 4}, moves : 0 .. 1]
      /\ grown.count = nav.count /\ grown.cap = 4
  BY <1>1
<1>3. /\ first \in [count : 0 .. 4, cap : {0, 4}, moves : 0 .. 1]
      /\ first.count = nav.count /\ first.cap = 4 /\ first.moves = 1
  <2> HIDE DEF grown
  <2> QED
    BY <1>2
<1>4. /\ room \in [count : 0 .. 4, cap : {0, 4}, moves : 0 .. 1]
      /\ room.count = nav.count /\ room.cap = 4 /\ room.moves = 1 /\ nav.count < 4
      /\ nav.count > 0 => nav.moves = 1
  <2>1. CASE nav.count = nav.cap
    <3>1. nav.cap = 0 /\ nav.moves = 0
      BY <1>1, <2>1 DEF NavNow
    <3>2. room = first
      BY <2>1, <3>1 DEF Capacity
    <3> HIDE DEF room, first
    <3> QED
      BY <1>1, <1>3, <2>1, <3>1, <3>2
  <2>2. CASE nav.count # nav.cap
    <3>1. room = nav /\ nav.cap = 4 /\ nav.moves = 1
      BY <1>1, <2>2 DEF NavNow
    <3> HIDE DEF room
    <3> QED
      BY <1>1, <3>1
  <2> QED
    BY <2>1, <2>2
<1> HIDE DEF room, first, grown
<1>5. /\ [room EXCEPT !.count = @ + 1] \in [count : 0 .. 4, cap : {0, 4}, moves : 0 .. 1]
      /\ [room EXCEPT !.count = @ + 1].count = nav.count + 1
      /\ [room EXCEPT !.count = @ + 1].cap = 4 /\ [room EXCEPT !.count = @ + 1].moves = 1
  BY <1>1, <1>4
<1>6. nav' \in {nav, room, [room EXCEPT !.count = @ + 1]}
  BY DEF AddNavLink, room
<1>7. CASE nav' = nav
  BY <1>1, <1>7 DEF NavNow
<1>8. CASE nav' = room
  BY <1>1, <1>4, <1>8
<1>9. CASE nav' = [room EXCEPT !.count = @ + 1]
  BY <1>1, <1>4, <1>5, <1>9
<1> QED
  BY <1>6, <1>7, <1>8, <1>9

\* Every step keeps the types.
LEMMA TypeOKKept == ASSUME WInv, Next PROVE TypeOK'
<1> USE StageFacts, ServerAssumption DEF WInv, TypeOK, LoopNow, server, mutexes
<1>1. CASE StartCheck
  BY <1>1 DEF StartCheck
<1>2. CASE StartStep
  <2>1. stage \in 1 .. 6 /\ Stages[stage] \in Resources /\ Resources' = Resources
    BY <1>2, StageFacts DEF StartStep, Resources
  <2>2. held' \subseteq Resources
    BY <1>2, <2>1 DEF StartStep
  <2>4. stage' \in 1 .. Len(Stages) + 1
    BY <1>2, <2>1 DEF StartStep
  <2>3. loop' \in [pc : {"none", "top", "accept", "got", "create", "inline", "gone"},
                   fd : Conn \cup {Free}]
    BY <1>2 DEF StartStep
  <2> QED
    BY <1>2, <2>2, <2>3, <2>4 DEF StartStep
<1>3. CASE StartFails
  <2>1. conn' \in [Conn -> {"none", "backlog", "accepted", "serving", "nav", "wait",
                            "panel", "closed", "unlock"}]
    BY <1>3 DEF StartFails
  <2>2. held' \subseteq Resources
    BY <1>3 DEF StartFails
  <2>3. stage' \in 1 .. Len(Stages) + 1
    BY <1>3 DEF StartFails
  <2> QED
    BY <1>3, <2>1, <2>2, <2>3 DEF StartFails
<1>4. CASE Publish
  BY <1>4 DEF Publish
<1>5. CASE AddNavLink
  BY <1>5, NavType DEF AddNavLink
<1>6. CASE Accepts
  BY <1>6 DEF Accepts, LoopTop, AcceptFails, StartClient, CreateClient,
     CreateFails, ServeInline, CountClient, Uncount, TakesBack
<1>7. ASSUME NEW c \in Conn, Serves(c) PROVE TypeOK'
  <2>1. conn' \in [Conn -> {"none", "backlog", "accepted", "serving", "nav", "wait",
                            "panel", "closed", "unlock"}]
    BY <1>7 DEF Serves, Client, Accept, AcceptAborted, Connect, ReadNav, WantsPanel, Panel,
       Served, FinishClient, Unlock
  <2>2. loop' \in [pc : {"none", "top", "accept", "got", "create", "inline", "gone"},
                   fd : Conn \cup {Free}]
    BY <1>7 DEF Serves, Client, Accept, AcceptAborted, Connect, ReadNav, WantsPanel, Panel,
       Served, FinishClient, Unlock
  <2>3. seen' \in [Conn -> [count : 0 .. 4, cap : {0, 4}, moves : 0 .. 1]]
    BY <1>7 DEF Serves, Client, Accept, AcceptAborted, Connect, ReadNav, WantsPanel, Panel,
       Served, FinishClient, Unlock, NoNav
  <2>4. active_client_count' \in Nat /\ driver' \in {driver, "drain"}
    BY <1>7 DEF Serves, Client, Accept, AcceptAborted, Connect, ReadNav, WantsPanel, Panel,
       Served, FinishClient, Unlock, Uncount
  <2>5. /\ client_mutex' \in Conn \cup {Free} /\ active_server_mutex' \in Conn \cup {Free}
        /\ UNCHANGED <<stage, server, nav>>
    BY <1>7 DEF Serves, Client, Accept, AcceptAborted, Connect, ReadNav, WantsPanel, Panel,
       Served, FinishClient, Unlock
  <2> QED
    BY <2>1, <2>2, <2>3, <2>4, <2>5
<1>8. CASE StopTake
  BY <1>8 DEF StopTake
<1>9. CASE SpuriousWake
  BY <1>9 DEF SpuriousWake
<1>10. CASE CloseSocket
  BY <1>10 DEF CloseSocket
<1>11. CASE Join
  BY <1>11 DEF Join
<1>12. CASE Drain
  BY <1>12 DEF Drain
<1>13. CASE Destroy
  BY <1>13 DEF Destroy
<1>14. CASE FreeServer
  BY <1>14 DEF FreeServer, NoNav
<1> QED
  BY <1>1, <1>2, <1>3, <1>4, <1>5, <1>6, <1>7, <1>8, <1>9, <1>10, <1>11, <1>12, <1>13, <1>14, NextIs DEF Starts, Stops, Stop

\* What exists keeps going with where the starting and stopping thread is.
LEMMA HeldNowKept == ASSUME WInv, Next PROVE HeldNow'
<1> USE StageFacts, ServerAssumption DEF WInv, TypeOK, HeldNow, server, mutexes
<1>1. CASE StartCheck
  BY <1>1 DEF StartCheck
<1>2. CASE StartStep
  BY <1>2, AcquireNext DEF StartStep
<1>3. CASE StartFails
  BY <1>3, AcquireNext DEF StartFails
<1>4. CASE Publish
  BY <1>4 DEF Publish
<1>5. CASE AddNavLink
  BY <1>5 DEF AddNavLink
<1>6. CASE Accepts
  BY <1>6 DEF Accepts, LoopTop, AcceptFails, StartClient, CreateClient,
     CreateFails, ServeInline, CountClient, Uncount, TakesBack
<1>7. ASSUME NEW c \in Conn, Serves(c) PROVE HeldNow'
  <2>1. /\ UNCHANGED <<stage, held, active>>
        /\ driver' = driver \/ (driver = "asleep" /\ driver' = "drain")
    BY <1>7 DEF Serves, Client, Accept, AcceptAborted, Connect, ReadNav, WantsPanel, Panel,
       Served, FinishClient, Unlock, Uncount
  <2> QED
    BY <2>1 DEF Acquired, Resources
<1>8. CASE StopTake
  BY <1>8 DEF StopTake
<1>9. CASE SpuriousWake
  BY <1>9 DEF SpuriousWake
<1>10. CASE CloseSocket
  BY <1>10 DEF CloseSocket
<1>11. CASE Join
  BY <1>11 DEF Join
<1>12. CASE Drain
  BY <1>12 DEF Drain
<1>13. CASE Destroy
  BY <1>13 DEF Destroy
<1>14. CASE FreeServer
  BY <1>14 DEF FreeServer, NoNav
<1> QED
  BY <1>1, <1>2, <1>3, <1>4, <1>5, <1>6, <1>7, <1>8, <1>9, <1>10, <1>11, <1>12, <1>13, <1>14, NextIs DEF Starts, Stops, Stop

\* The accept thread exists between its creation and its join.
LEMMA LoopNowKept == ASSUME WInv, Next PROVE LoopNow'
<1> USE StageFacts, ServerAssumption DEF WInv, TypeOK, LoopNow, NoLoop, NobodyLeft, Users, Counted, Inline, server, mutexes
<1>1. CASE StartCheck
  BY <1>1 DEF StartCheck
<1>2. CASE StartStep
  BY <1>2, AcquireNext DEF StartStep
<1>3. CASE StartFails
  BY <1>3, AcquireNext DEF StartFails
<1>4. CASE Publish
  BY <1>4 DEF Publish
<1>5. CASE AddNavLink
  BY <1>5 DEF AddNavLink
<1>6. CASE Accepts
  BY <1>6 DEF Accepts, LoopTop, AcceptFails, StartClient, CreateClient,
     CreateFails, ServeInline, CountClient, Uncount, TakesBack
<1>7. ASSUME NEW c \in Conn, Serves(c) PROVE LoopNow'
  BY <1>7 DEF Serves, Client, Accept, AcceptAborted, Connect, ReadNav, WantsPanel, Panel,
     Served, FinishClient, Unlock, Uncount, NoNav
<1>8. CASE StopTake
  BY <1>8 DEF StopTake
<1>9. CASE SpuriousWake
  BY <1>9 DEF SpuriousWake
<1>10. CASE CloseSocket
  BY <1>10 DEF CloseSocket
<1>11. CASE Join
  BY <1>11 DEF Join
<1>12. CASE Drain
  BY <1>12 DEF Drain
<1>13. CASE Destroy
  BY <1>13 DEF Destroy
<1>14. CASE FreeServer
  BY <1>14 DEF FreeServer, NoNav
<1> QED
  BY <1>1, <1>2, <1>3, <1>4, <1>5, <1>6, <1>7, <1>8, <1>9, <1>10, <1>11, <1>12, <1>13, <1>14, NextIs DEF Starts, Stops, Stop

\* Only the client that holds client_mutex is about to unlock it.
LEMMA UnlockingKept == ASSUME WInv, Next PROVE Unlocking'
<1> USE StageFacts, ServerAssumption DEF WInv, TypeOK, Unlocking, LoopNow, server, mutexes
<1>1. CASE StartCheck
  BY <1>1 DEF StartCheck
<1>2. CASE StartStep
  BY <1>2, AcquireNext DEF StartStep
<1>3. CASE StartFails
  BY <1>3, AcquireNext DEF StartFails
<1>4. CASE Publish
  BY <1>4 DEF Publish
<1>5. CASE AddNavLink
  BY <1>5 DEF AddNavLink
<1>6. CASE Accepts
  BY <1>6 DEF Accepts, LoopTop, AcceptFails, StartClient, CreateClient,
     CreateFails, ServeInline, CountClient, Uncount, TakesBack
<1>7. ASSUME NEW c \in Conn, Serves(c) PROVE Unlocking'
  BY <1>7 DEF Serves, Client, Accept, AcceptAborted, Connect, ReadNav, WantsPanel, Panel,
     Served, FinishClient, Unlock, Uncount, NoNav
<1>8. CASE StopTake
  BY <1>8 DEF StopTake
<1>9. CASE SpuriousWake
  BY <1>9 DEF SpuriousWake
<1>10. CASE CloseSocket
  BY <1>10 DEF CloseSocket
<1>11. CASE Join
  BY <1>11 DEF Join
<1>12. CASE Drain
  BY <1>12 DEF Drain
<1>13. CASE Destroy
  BY <1>13 DEF Destroy
<1>14. CASE FreeServer
  BY <1>14 DEF FreeServer, NoNav
<1> QED
  BY <1>1, <1>2, <1>3, <1>4, <1>5, <1>6, <1>7, <1>8, <1>9, <1>10, <1>11, <1>12, <1>13, <1>14, NextIs DEF Starts, Stops, Stop

\* Nobody uses a server that is not there yet or is about to go.
LEMMA NobodyLeftKept == ASSUME WInv, Next PROVE NobodyLeft'
<1> USE StageFacts, ServerAssumption DEF WInv, TypeOK, HeldNow, LoopNow, NoLoop, NobodyLeft, Users, Counted, Inline, Unlocking, server, mutexes
<1>1. CASE StartCheck
  BY <1>1 DEF StartCheck
<1>2. CASE StartStep
  BY <1>2, AcquireNext DEF StartStep
<1>3. CASE StartFails
  BY <1>3, AcquireNext DEF StartFails
<1>4. CASE Publish
  BY <1>4 DEF Publish
<1>5. CASE AddNavLink
  BY <1>5 DEF AddNavLink
<1>6. CASE Accepts
  BY <1>6 DEF Accepts, LoopTop, AcceptFails, StartClient, CreateClient,
     CreateFails, ServeInline, CountClient, Uncount, TakesBack
<1>7. ASSUME NEW c \in Conn, Serves(c) PROVE NobodyLeft'
  BY <1>7 DEF Serves, Client, Accept, AcceptAborted, Connect, ReadNav, WantsPanel, Panel,
     Served, FinishClient, Unlock, Uncount, NoNav
<1>8. CASE StopTake
  BY <1>8 DEF StopTake
<1>9. CASE SpuriousWake
  BY <1>9 DEF SpuriousWake
<1>10. CASE CloseSocket
  BY <1>10 DEF CloseSocket
<1>11. CASE Join
  BY <1>11 DEF Join
<1>12. CASE Drain
  BY <1>12, ZeroIsNobody DEF Drain
<1>13. CASE Destroy
  BY <1>13 DEF Destroy
<1>14. CASE FreeServer
  BY <1>14 DEF FreeServer, NoNav
<1> QED
  BY <1>1, <1>2, <1>3, <1>4, <1>5, <1>6, <1>7, <1>8, <1>9, <1>10, <1>11, <1>12, <1>13, <1>14, NextIs DEF Starts, Stops, Stop

\* The links stay in the first array, which a reader has seen whole.
LEMMA NavNowKept == ASSUME WInv, Next PROVE NavNow'
<1> USE StageFacts, ServerAssumption DEF WInv, TypeOK, NavNow, NobodyLeft, Users, Counted, Inline, server, mutexes
<1>1. CASE StartCheck
  BY <1>1 DEF StartCheck
<1>2. CASE StartStep
  BY <1>2, AcquireNext DEF StartStep
<1>3. CASE StartFails
  BY <1>3, AcquireNext DEF StartFails
<1>4. CASE Publish
  BY <1>4 DEF Publish
<1>5. CASE AddNavLink
  BY <1>5, NavType DEF AddNavLink
<1>6. CASE Accepts
  BY <1>6 DEF Accepts, LoopTop, AcceptFails, StartClient, CreateClient,
     CreateFails, ServeInline, CountClient, Uncount, TakesBack
<1>7. ASSUME NEW c \in Conn, Serves(c) PROVE NavNow'
  BY <1>7 DEF Serves, Client, Accept, AcceptAborted, Connect, ReadNav, WantsPanel, Panel,
     Served, FinishClient, Unlock, Uncount, NoNav
<1>8. CASE StopTake
  BY <1>8 DEF StopTake
<1>9. CASE SpuriousWake
  BY <1>9 DEF SpuriousWake
<1>10. CASE CloseSocket
  BY <1>10 DEF CloseSocket
<1>11. CASE Join
  BY <1>11 DEF Join
<1>12. CASE Drain
  BY <1>12 DEF Drain
<1>13. CASE Destroy
  BY <1>13 DEF Destroy
<1>14. CASE FreeServer
  BY <1>14 DEF FreeServer, NoNav
<1> QED
  BY <1>1, <1>2, <1>3, <1>4, <1>5, <1>6, <1>7, <1>8, <1>9, <1>10, <1>11, <1>12, <1>13, <1>14, NextIs DEF Starts, Stops, Stop

-----------------------------------------------------------------------------
(* The counter.  Three steps change it, each with the set it counts.       *)

\* Counting one more client.
LEMMA CountOneMore ==
    ASSUME TypeOK, CountIsLive, NEW c, c \notin Counted, Counted' = Counted \cup {c},
           active_client_count' = active_client_count + 1
    PROVE  CountIsLive'
  BY CountedFinite, FS_AddElement DEF CountIsLive

\* Counting one less.
LEMMA CountOneLess ==
    ASSUME TypeOK, CountIsLive, NEW c, c \in Counted, Counted' = Counted \ {c},
           active_client_count' = active_client_count - 1
    PROVE  CountIsLive'
  BY CountedFinite, FS_RemoveElement DEF CountIsLive

\* The counter changes with the set it counts.
LEMMA CountIsLiveKept == ASSUME WInv, Next PROVE CountIsLive'
<1> USE DEF WInv
<1>1. ASSUME UNCHANGED active_client_count, Counted' = Counted PROVE CountIsLive'
  BY <1>1 DEF CountIsLive
<1>2. CASE StartCheck \/ StartFails \/ Publish \/ AddNavLink
  <2>1. UNCHANGED active_client_count /\ Counted' = Counted
    BY <1>2 DEF StartCheck, StartFails, Publish, AddNavLink, Counted, Inline
  <2> QED
    BY <1>1, <2>1
<1>3. CASE StartStep
  <2>1. UNCHANGED active_client_count /\ Counted' = Counted
    BY <1>3, StageFacts DEF StartStep, Counted, Inline, LoopNow, NoLoop, TypeOK
  <2> QED
    BY <1>1, <2>1
<1>4. CASE LoopTop \/ AcceptFails \/ ServeInline
  <2>1. UNCHANGED active_client_count /\ Counted' = Counted
    BY <1>4 DEF LoopTop, AcceptFails, ServeInline, Counted, Inline, LoopNow, TypeOK
  <2> QED
    BY <1>1, <2>1
<1>5. CASE StartClient
  <2>1. CASE CountClient /\ loop' = [loop EXCEPT !.pc = "create"] /\ UNCHANGED conn
    <3>1. loop.fd \notin Counted /\ Counted' = Counted \cup {loop.fd}
      BY <1>5, <2>1 DEF StartClient, Counted, Inline, LoopNow, TypeOK
    <3> QED
      BY <2>1, <3>1, CountOneMore DEF CountClient
  <2>2. CASE TakesBack /\ UNCHANGED active_client_count
    <3>1. Counted' = Counted
      BY <1>5, <2>2 DEF StartClient, TakesBack, Counted, Inline, LoopNow, TypeOK
    <3> QED
      BY <1>1, <2>2, <3>1
  <2> QED
    BY <1>5, <2>1, <2>2 DEF StartClient
<1>6. CASE CreateClient
  <2>1. UNCHANGED active_client_count /\ Counted' = Counted
    BY <1>6, ServerAssumption DEF CreateClient, Counted, Inline, LoopNow, TypeOK
  <2> QED
    BY <1>1, <2>1
<1>7. CASE CreateFails
  <2>1. loop.fd \in Counted /\ Counted' = Counted \ {loop.fd}
    BY <1>7 DEF CreateFails, TakesBack, Counted, Inline, LoopNow, TypeOK
  <2> QED
    BY <1>7, <2>1, CountOneLess DEF CreateFails, Uncount
<1>8. ASSUME NEW c \in Conn, Serves(c) PROVE CountIsLive'
  <2>1. CASE FinishClient(c)
    <3>1. c \in Counted /\ Counted' = Counted \ {c}
      BY <2>1 DEF FinishClient, Counted, Inline, LoopNow, TypeOK
    <3> QED
      BY <2>1, <3>1, CountOneLess DEF FinishClient, Uncount
  <2>2. CASE ~FinishClient(c)
    <3>1. UNCHANGED active_client_count /\ Counted' = Counted
      BY <1>8, <2>2 DEF Serves, Client, Accept, AcceptAborted, Connect, ReadNav, WantsPanel, Panel,
         Served, Unlock, Counted, Inline, LoopNow, TypeOK
    <3> QED
      BY <1>1, <3>1
  <2> QED
    BY <2>1, <2>2
<1>9. CASE Stops
  <2>1. UNCHANGED active_client_count /\ Counted' = Counted
    BY <1>9 DEF Stops, Stop, StopTake, SpuriousWake, CloseSocket, Join, Drain, Destroy,
       FreeServer, Counted, Inline, TypeOK
  <2> QED
    BY <1>1, <2>1
<1> QED
  BY <1>2, <1>3, <1>4, <1>5, <1>6, <1>7, <1>8, <1>9, NextIs DEF Starts, Accepts

-----------------------------------------------------------------------------
(* The server's invariant, in every step of the process.                   *)

\* The process adds no step to the server.
LEMMA LifeStepIs ==
    ASSUME [LifeNext]_lifeVars
    PROVE  [Next]_vars
  BY DEF LifeNext, lifeVars, vars, Main, MainConfig, MainLocks, instanceLockAcquire, MainCurl,
     MainStartsWeb, MainPublishes, MainStarting, MainConfigures, MainAddsLink, MainStartsWorker,
     MainReleases, ExitStops, Exited, OtherProcess, Beside, ServerThreads, Next, Driver

\* No server, no client.
LEMMA WInvInit == Init => WInv
<1> SUFFICES ASSUME Init PROVE WInv
  OBVIOUS
<1>1. TypeOK
  <2>1. NoNav \in [count : 0 .. 4, cap : {0, 4}, moves : 0 .. 1]
    BY DEF NoNav
  <2>2. 1 \in 1 .. Len(Stages) + 1
    BY StageFacts
  <2> QED
    BY <2>1, <2>2 DEF Init, TypeOK
<1>2. Users = {} /\ Counted = {}
  BY <1>1, ServerAssumption DEF Init, Users, Counted, Inline
<1>3. HeldNow /\ LoopNow /\ Unlocking
  BY ServerAssumption, <1>1 DEF Init, HeldNow, LoopNow, NoLoop, Inline, Unlocking
<1>4. NavNow
  BY ServerAssumption, <1>1 DEF Init, NavNow, NoNav
<1>5. CountIsLive
  BY <1>2, FS_EmptySet DEF CountIsLive, Init
<1> QED
  BY <1>1, <1>2, <1>3, <1>4, <1>5 DEF WInv, NobodyLeft

\* The server keeps its invariant.
LEMMA WInvStep == ASSUME WInv, [Next]_vars PROVE WInv'
<1>1. CASE Next
  BY <1>1, TypeOKKept, HeldNowKept, LoopNowKept, UnlockingKept, NobodyLeftKept, NavNowKept,
     CountIsLiveKept DEF WInv
<1>2. CASE UNCHANGED vars
  BY <1>2 DEF vars, WInv, TypeOK, HeldNow, LoopNow, NoLoop, Unlocking, NobodyLeft, NavNow,
     CountIsLive, Users, Counted, Inline
<1> QED
  BY <1>1, <1>2

-----------------------------------------------------------------------------
(* main's invariant.                                                       *)

\* main keeps its part.
LEMMA MInvKept == ASSUME IInv, [LifeNext]_lifeVars PROVE MInv'
<1> USE DEF IInv, MInv
<1>1. CASE MainConfig \/ MainLocks \/ MainCurl \/ MainReleases
  <2>1. UNCHANGED <<driver, stop_registered>>
    BY <1>1 DEF MainConfig, MainLocks, MainCurl, MainReleases, vars
  <2>2. CASE MainConfig
    BY <2>1, <2>2 DEF MainConfig
  <2>3. CASE MainLocks
    BY <2>1, <2>3 DEF MainLocks, instanceLockAcquire
  <2>4. CASE MainCurl
    BY <2>1, <2>4 DEF MainCurl
  <2>5. CASE MainReleases
    BY <2>1, <2>5 DEF MainReleases
  <2> QED
    BY <1>1, <2>2, <2>3, <2>4, <2>5
<1>2. CASE MainStartsWeb
  BY <1>2 DEF MainStartsWeb, StartCheck
<1>3. CASE MainPublishes
  BY <1>3 DEF MainPublishes, Publish
<1>4. CASE MainStarting
  BY <1>4 DEF MainStarting, StartStep, StartFails, mainVars
<1>5. CASE MainConfigures
  BY <1>5 DEF MainConfigures, vars
<1>6. CASE MainAddsLink
  BY <1>6 DEF MainAddsLink, AddNavLink
<1>7. CASE MainStartsWorker
  BY <1>7 DEF MainStartsWorker, vars
<1>8. CASE ExitStops
  BY <1>8 DEF ExitStops, StopTake
<1>9. CASE Exited
  BY <1>9 DEF Exited, vars, WInv, HeldNow
<1>10. CASE OtherProcess
  BY <1>10 DEF OtherProcess, vars
<1>11. CASE Beside(ServerThreads)
  <2>1. UNCHANGED <<main, lock, ready, stop_registered>> /\ main # "gone"
    BY <1>11 DEF Beside
  <2>2. CASE Stop \/ SpuriousWake
    <3>1. driver \notin {"off", "on"} /\ driver' # "on"
      BY <2>2 DEF Stop, SpuriousWake, CloseSocket, Join, Drain, Destroy, FreeServer
    <3> QED
      BY <2>1, <3>1
  <2>3. CASE Loop
    <3>1. UNCHANGED driver \/ (driver = "asleep" /\ driver' = "drain")
      BY <2>3 DEF Loop, LoopTop, AcceptFails, StartClient, CreateClient, CreateFails,
         ServeInline, Accept, AcceptAborted, TakesBack, Uncount
    <3> QED
      BY <2>1, <3>1
  <2>4. ASSUME NEW c \in Conn, Connect(c) \/ Client(c) PROVE MInv'
    <3>1. UNCHANGED driver \/ (driver = "asleep" /\ driver' = "drain")
      BY <2>4 DEF Connect, Client, ReadNav, WantsPanel, Panel, Served, FinishClient, Unlock,
         Uncount
    <3> QED
      BY <2>1, <3>1
  <2> QED
    BY <1>11, <2>2, <2>3, <2>4 DEF Beside, ServerThreads
<1>12. CASE UNCHANGED lifeVars
  BY <1>12 DEF lifeVars, vars, mainVars
<1> QED
  BY <1>1, <1>2, <1>3, <1>4, <1>5, <1>6, <1>7, <1>8, <1>9, <1>10, <1>11, <1>12
     DEF LifeNext, Main

\* Every step of the process keeps the invariant.
LEMMA IInvStep == ASSUME IInv, [LifeNext]_lifeVars PROVE IInv'
  BY WInvStep, LifeStepIs, MInvKept DEF IInv

\* It holds when the process starts.
LEMMA IInvInit == LifeInit => IInv
  BY WInvInit DEF LifeInit, IInv, MInv, Init

\* The inductive invariant of the process holds in every state.
THEOREM LifeInvariance == LifeSpec => []IInv
  BY IInvInit, IInvStep, PTL DEF LifeSpec

-----------------------------------------------------------------------------
(* What follows from it.                                                   *)

\* Every variable of the server has its type.
THEOREM TypeCorrect == LifeSpec => []TypeOK
<1>1. IInv => TypeOK
  BY DEF IInv, WInv
<1> QED
  BY <1>1, LifeInvariance, PTL

\* loggerWebServer.c:134: the counter is the number of counted threads, for
\* any number of connections.
THEOREM CounterIsRight == LifeSpec => []CountIsLive
<1>1. IInv => CountIsLive
  BY DEF IInv, WInv
<1> QED
  BY <1>1, LifeInvariance, PTL

\* loggerWeb.c:165: no thread sees the server's locks or memory gone.
THEOREM MemoryOutlivesUsers == LifeSpec => []NoUseAfterFree
<1>1. IInv => NoUseAfterFree
  <2> SUFFICES ASSUME IInv, Users # {} PROVE {"memory", "display", "sync"} \subseteq held
    BY DEF NoUseAfterFree
  <2>1. \/ driver \in {"on", "close", "join", "drain", "asleep"}
        \/ (driver = "starting" /\ stage = 7)
    BY StageFacts DEF IInv, WInv, TypeOK, NobodyLeft
  <2> QED
    BY <2>1, StageFacts DEF IInv, WInv, HeldNow
<1> QED
  BY <1>1, LifeInvariance, PTL

\* loggerWebServer.c:45-106: whatever fails, what was acquired is given back.
THEOREM EverythingIsReturned == LifeSpec => []NothingLeaks
<1>1. IInv => NothingLeaks
  BY DEF IInv, WInv, HeldNow, NothingLeaks
<1> QED
  BY <1>1, LifeInvariance, PTL

\* loggerWebTemplate.c:152: a page that walks the links walks the array in use.
THEOREM LinksStayPut == LifeSpec => []NavArrayStays
<1>1. IInv => NavArrayStays
  <2> SUFFICES ASSUME IInv, NEW c \in Conn, conn[c] = "nav", seen[c].count > 0
               PROVE seen[c].moves = nav.moves
    BY DEF NavArrayStays
  <2> QED
    BY DEF IInv, WInv, NavNow
<1> QED
  BY <1>1, LifeInvariance, PTL

\* instanceLock.c:90: the process that polls is alone behind the lock.
THEOREM PollerIsAlone == LifeSpec => []PollsAlone
<1>1. IInv => PollsAlone
  BY DEF IInv, MInv, PollsAlone
<1> QED
  BY <1>1, LifeInvariance, PTL

\* houseNotif.c:53-59: once the process is gone nothing is held and no thread
\* is left in the server.
THEOREM LeavesNothingBehind == LifeSpec => []ExitIsClean
<1>1. IInv => ExitIsClean
  BY DEF IInv, MInv, WInv, HeldNow, NobodyLeft, ExitIsClean
<1> QED
  BY <1>1, LifeInvariance, PTL

-----------------------------------------------------------------------------
(* The server implements ServerLife, step by step.  (Its fairness stays    *)
(* with the model checker.)                                                *)

\* The phase that ServerLife is given, and where main has to be for it.
phaseNow == CASE driver \in {"off", "starting"} /\ "thread" \notin held -> "off"
              [] driver \in {"starting", "on"} /\ "thread" \in held -> "open"
              [] OTHER -> "closing"

phaseIs == IF driver = "off" \/ (driver = "starting" /\ stage # 7) THEN "off"
           ELSE IF driver \in {"starting", "on"} THEN "open" ELSE "closing"

\* The phase follows from where the starting and stopping thread is.
LEMMA PhaseIs == ASSUME WInv PROVE phaseNow = phaseIs
<1> USE DEF phaseIs
<1>1. CASE driver = "starting"
  <2>1. "thread" \in held <=> stage = 7
    BY <1>1, StageFacts DEF WInv, HeldNow, TypeOK, Acquired
  <2>2. CASE stage = 7
    BY <1>1, <2>1, <2>2 DEF phaseNow
  <2>3. CASE stage # 7
    BY <1>1, <2>1, <2>3 DEF phaseNow
  <2> QED
    BY <2>2, <2>3
<1>2. CASE driver # "starting"
  BY <1>2, StageFacts DEF phaseNow, WInv, HeldNow
<1> QED
  BY <1>1, <1>2
\* A step of the server opens, closes or frees it, begins or ends a request,
\* or leaves the abstract state alone.
LEMMA AbstractStep ==
    ASSUME WInv, Next
    PROVE  \/ UNCHANGED <<phaseIs, Users>>
           \/ phaseIs = "off" /\ phaseIs' = "open" /\ Users' = Users
           \/ phaseIs = "open" /\ phaseIs' = "closing" /\ Users' = Users
           \/ phaseIs = "closing" /\ phaseIs' = "off" /\ Users = {} /\ Users' = Users
           \/ phaseIs' = phaseIs /\ \E c \in Conn :
                 \/ phaseIs # "off" /\ c \notin Users /\ Users' = Users \cup {c}
                 \/ c \in Users /\ Users' = Users \ {c}
<1> USE DEF WInv, phaseIs
<1>1. CASE StartCheck \/ StartFails \/ Publish \/ AddNavLink
  <2>1. Users' = Users
    BY <1>1 DEF StartCheck, StartFails, Publish, AddNavLink, Users, Counted, Inline
  <2>2. phaseIs' = phaseIs
    BY <1>1, StageFacts DEF StartCheck, StartFails, Publish, AddNavLink, TypeOK
  <2> QED
    BY <2>1, <2>2
<1>2. CASE StartStep
  <2>1. Users' = Users
    BY <1>2, StageFacts DEF StartStep, Users, Counted, Inline, LoopNow, NoLoop, TypeOK
  <2>2. phaseIs = "off" /\ phaseIs' \in {"off", "open"}
    BY <1>2, StageFacts DEF StartStep
  <2> QED
    BY <2>1, <2>2
<1>3. CASE LoopTop \/ AcceptFails \/ StartClient \/ CreateClient \/ CreateFails
  <2>1. Users' = Users
    BY <1>3, ServerAssumption DEF LoopTop, AcceptFails, StartClient, CreateClient, CreateFails,
       TakesBack, Users, Counted, Inline, LoopNow, TypeOK
  <2>2. phaseIs' = phaseIs
    BY <1>3 DEF LoopTop, AcceptFails, StartClient, CreateClient, CreateFails, Uncount
  <2> QED
    BY <2>1, <2>2
<1>4. CASE ServeInline
  <2>1. loop.fd \in Users /\ Users' = Users \ {loop.fd} /\ loop.fd \in Conn
    BY <1>4, ServerAssumption DEF ServeInline, Users, Counted, Inline, LoopNow, TypeOK
  <2>2. phaseIs' = phaseIs
    BY <1>4 DEF ServeInline
  <2> QED
    BY <2>1, <2>2
<1>5. ASSUME NEW c \in Conn, Accept(c)
      PROVE  phaseIs' = phaseIs /\ phaseIs # "off" /\ c \notin Users /\ Users' = Users \cup {c}
  <2>1. c \notin Users /\ Users' = Users \cup {c}
    BY <1>5 DEF Accept, Users, Counted, Inline, LoopNow, TypeOK
  <2>2. phaseIs' = phaseIs /\ phaseIs # "off"
    BY <1>5, StageFacts DEF Accept, LoopNow, NoLoop, TypeOK
  <2> QED
    BY <2>1, <2>2
<1>6. ASSUME NEW c \in Conn, Unlock(c)
      PROVE  phaseIs' = phaseIs /\ c \in Users /\ Users' = Users \ {c}
  <2>1. c \in Users /\ Users' = Users \ {c}
    BY <1>6 DEF Unlock, Users, Counted, Inline, LoopNow, TypeOK
  <2>2. phaseIs' = phaseIs
    BY <1>6 DEF Unlock
  <2> QED
    BY <2>1, <2>2
<1>7. ASSUME NEW c \in Conn,
             \/ Connect(c) \/ AcceptAborted(c) \/ ReadNav(c) \/ WantsPanel(c)
             \/ Panel(c) \/ Served(c) \/ FinishClient(c)
      PROVE  UNCHANGED <<phaseIs, Users>>
  <2>1. Users' = Users
    BY <1>7 DEF Connect, AcceptAborted, ReadNav, WantsPanel, Panel, Served, FinishClient, Users, Counted, Inline,
       LoopNow, TypeOK
  <2>2. phaseIs' = phaseIs
    BY <1>7 DEF Connect, AcceptAborted, ReadNav, WantsPanel, Panel, Served, FinishClient, Uncount
  <2> QED
    BY <2>1, <2>2
<1>8. CASE Stops
  <2>1. Users' = Users
    BY <1>8 DEF Stops, Stop, StopTake, SpuriousWake, CloseSocket, Join, Drain, Destroy,
       FreeServer, Users, Counted, Inline, TypeOK
  <2>2. CASE StopTake
    BY <2>1, <2>2 DEF StopTake
  <2>3. CASE SpuriousWake \/ CloseSocket \/ Join \/ Drain \/ Destroy
    <3>1. phaseIs' = phaseIs
      BY <2>3 DEF SpuriousWake, CloseSocket, Join, Drain, Destroy
    <3> QED
      BY <2>1, <3>1
  <2>4. CASE FreeServer
    BY <2>1, <2>4 DEF FreeServer, NobodyLeft
  <2> QED
    BY <1>8, <2>2, <2>3, <2>4 DEF Stops, Stop
<1> QED
  <2>1. \/ StartCheck \/ StartFails \/ Publish \/ AddNavLink \/ StartStep
        \/ LoopTop \/ AcceptFails \/ StartClient \/ CreateClient \/ CreateFails \/ ServeInline
        \/ Stops
        \/ \E c \in Conn : Accept(c) \/ Unlock(c)
        \/ \E c \in Conn : \/ Connect(c) \/ AcceptAborted(c) \/ ReadNav(c) \/ WantsPanel(c)
                           \/ Panel(c) \/ Served(c) \/ FinishClient(c)
    BY NextIs DEF Starts, Accepts, Serves, Client
  <2> HIDE DEF WInv, phaseIs
  <2> QED
    BY <2>1, <1>1, <1>2, <1>3, <1>4, <1>5, <1>6, <1>7, <1>8

\* The phase of the refinement mapping, read off the server's variables.
THEOREM PhaseInvariance == LifeSpec => [](IInv /\ phaseNow = phaseIs)
<1>1. IInv => phaseNow = phaseIs
  BY PhaseIs DEF IInv
<1> QED
  BY <1>1, LifeInvariance, PTL

\* loggerWeb.c:152-168: the process lets the web viewer do only what ServerLife
\* allows; above all it frees a server only when no request is in service.
THEOREM ServesAndStops == LifeSpec => Life!Init /\ [][Life!Next]_<<phaseNow, Users>>
<1>1. LifeInit => Life!Init
  <2> SUFFICES ASSUME LifeInit PROVE Life!Init
    OBVIOUS
  <2>1. Users = {}
    BY IInvInit DEF IInv, WInv, NobodyLeft, LifeInit, Init
  <2>2. driver = "off" /\ "thread" \notin held
    BY DEF LifeInit, Init
  <2> QED
    BY <2>1, <2>2 DEF Life!Init
<1>2. ASSUME IInv, phaseNow = phaseIs, (phaseNow = phaseIs)', [LifeNext]_lifeVars
      PROVE  [Life!Next]_<<phaseNow, Users>>
  <2>1. CASE UNCHANGED vars
    BY <2>1 DEF vars, phaseNow, Users, Counted, Inline
  <2>2. CASE Next
    <3>1. phaseNow' = phaseIs'
      BY <1>2
    <3>2. \/ UNCHANGED <<phaseNow, Users>>
          \/ phaseNow = "off" /\ phaseNow' = "open" /\ Users' = Users
          \/ phaseNow = "open" /\ phaseNow' = "closing" /\ Users' = Users
          \/ phaseNow = "closing" /\ phaseNow' = "off" /\ Users = {} /\ Users' = Users
          \/ phaseNow' = phaseNow /\ \E c \in Conn :
                \/ phaseNow # "off" /\ c \notin Users /\ Users' = Users \cup {c}
                \/ c \in Users /\ Users' = Users \ {c}
      BY <1>2, <2>2, <3>1, AbstractStep DEF IInv
    <3> QED
      BY <3>2 DEF Life!Next, Life!Open, Life!Begin, Life!End, Life!Close, Life!FreeAll, phaseNow
  <2> QED
    BY <1>2, <2>1, <2>2, LifeStepIs
<1> QED
  BY <1>1, <1>2, PhaseInvariance, PTL DEF LifeSpec

-----------------------------------------------------------------------------
(* The display.  The calls of the set-up, and what each does to it, by their *)
(* number; Succeeded, a fold, is unfolded call by call with FoldFacts.      *)

Overlay == "Temperature Overlay"
Titles == {Overlay, "Power"}
Ops == {"graph", "vert", "span", "color", "set", "today", "nav"}
Wants(call, op, on) == call.op = op /\ call.on = on
Items == {"graph", "color", "open notif", "close notif", "fan auto off", "stats", "today", "status",
          "controls", "root", "poller", "Airscape", "Surprise Me"}
Calls == [op : Ops, on : Titles \cup {"viewer"}, item : Items]

\* Short tuples, and what is at each place of them.
LEMMA Tuples ==
    ASSUME NEW S, NEW a \in S, NEW b \in S, NEW c \in S, NEW d \in S
    PROVE  /\ <<a>> \in Seq(S) /\ Len(<<a>>) = 1 /\ <<a>>[1] = a
           /\ <<a, b>> \in Seq(S) /\ Len(<<a, b>>) = 2 /\ <<a, b>>[1] = a /\ <<a, b>>[2] = b
           /\ <<a, b, c>> \in Seq(S) /\ Len(<<a, b, c>>) = 3 /\ <<a, b, c>>[1] = a
           /\ <<a, b, c>>[2] = b /\ <<a, b, c>>[3] = c
           /\ <<a, b, c, d>> \in Seq(S) /\ Len(<<a, b, c, d>>) = 4 /\ <<a, b, c, d>>[1] = a
           /\ <<a, b, c, d>>[2] = b /\ <<a, b, c, d>>[3] = c /\ <<a, b, c, d>>[4] = d
  OBVIOUS

\* What is at each place of a concatenation.
LEMMA Cat ==
    ASSUME NEW S, NEW s \in Seq(S), NEW t \in Seq(S)
    PROVE  /\ s \o t \in Seq(S) /\ Len(s \o t) = Len(s) + Len(t)
           /\ \A i \in 1 .. Len(s) : (s \o t)[i] = s[i]
           /\ \A i \in 1 .. Len(t) : (s \o t)[Len(s) + i] = t[i]
  OBVIOUS

\* A call has the fields it is made of.
LEMMA DoIs ==
    ASSUME NEW op, NEW on, NEW item
    PROVE  Wants(Do(op, on, item), op, on) /\ Do(op, on, item).item = item
  BY DEF Do, Wants

\* The calls that Setup is made of are calls.
LEMMA CallsAre ==
    /\ \A title \in Titles :
          /\ Do("graph", title, "graph") \in Calls /\ Do("color", title, "color") \in Calls
          /\ Do("vert", title, "open notif") \in Calls /\ Do("vert", title, "close notif") \in Calls
          /\ Do("vert", title, "fan auto off") \in Calls /\ Do("span", title, "open notif") \in Calls
    /\ Do("set", "viewer", "stats") \in Calls /\ Do("today", "viewer", "today") \in Calls
    /\ Do("set", "viewer", "status") \in Calls /\ Do("set", "viewer", "controls") \in Calls
    /\ Do("set", "viewer", "root") \in Calls /\ Do("set", "viewer", "poller") \in Calls
    /\ Do("nav", "viewer", "Airscape") \in Calls /\ Do("nav", "viewer", "Surprise Me") \in Calls
  BY DEF Calls, Ops, Titles, Items, Do

\* Three markers and a span, all of one graph (app_startup.c:78-99).
LEMMA DecorateIs ==
    ASSUME NEW title \in Titles
    PROVE  /\ Decorate(title) \in Seq(Calls) /\ Len(Decorate(title)) = 4
           /\ \A i \in 1 .. 3 : Wants(Decorate(title)[i], "vert", title)
           /\ Wants(Decorate(title)[4], "span", title)
<1> DEFINE d == Decorate(title)
<1>1. /\ d \in Seq(Calls) /\ Len(d) = 4
      /\ Wants(d[1], "vert", title) /\ Wants(d[2], "vert", title) /\ Wants(d[3], "vert", title)
      /\ Wants(d[4], "span", title)
  BY DoIs, CallsAre, Tuples, Zenon DEF Decorate
<1> HIDE DEF d
<1> QED
  BY <1>1 DEF d

\* The nineteen calls of appStartLoggerWebOnPort, in order.
LEMMA SetupIs ==
    /\ Setup \in Seq(Calls) /\ Len(Setup) = 19
    /\ Wants(Setup[1], "graph", Overlay) /\ Wants(Setup[5], "span", Overlay)
    /\ \A i \in 2 .. 4 : Wants(Setup[i], "vert", Overlay)
    /\ Wants(Setup[6], "graph", "Power") /\ Wants(Setup[7], "color", "Power")
    /\ \A i \in 8 .. 10 : Wants(Setup[i], "vert", "Power")
    /\ Wants(Setup[11], "span", "Power")
    /\ Wants(Setup[12], "set", "viewer") /\ Setup[12].item = "stats"
    /\ Wants(Setup[13], "today", "viewer") /\ Setup[13].item = "today"
    /\ \A i \in 14 .. 17 : Wants(Setup[i], "set", "viewer")
    /\ \A i \in 18 .. 19 : Wants(Setup[i], "nav", "viewer")
<1> DEFINE s1 == <<Do("graph", Overlay, "graph")>>
           s2 == Decorate(Overlay)
           s3 == <<Do("graph", "Power", "graph"), Do("color", "Power", "color")>>
           s4 == Decorate("Power")
           s5 == <<Do("set", "viewer", "stats")>>
           s6 == webControlsConfigureToday
           s7 == <<Do("set", "viewer", "root"), Do("set", "viewer", "poller"),
                   Do("nav", "viewer", "Airscape"), Do("nav", "viewer", "Surprise Me")>>
<1>1. Overlay \in Titles /\ "Power" \in Titles
  BY DEF Titles
<1>2. s1 \in Seq(Calls) /\ Len(s1) = 1 /\ Wants(s1[1], "graph", Overlay)
  <2>1. Do("graph", Overlay, "graph") \in Calls /\ Wants(Do("graph", Overlay, "graph"), "graph", Overlay)
    BY <1>1, CallsAre, DoIs
  <2> QED
    BY <2>1, Tuples, Zenon
<1>3. /\ s3 \in Seq(Calls) /\ Len(s3) = 2
      /\ Wants(s3[1], "graph", "Power") /\ Wants(s3[2], "color", "Power")
  BY <1>1, DoIs, CallsAre, Tuples, Zenon
<1>4. /\ s5 \in Seq(Calls) /\ Len(s5) = 1 /\ Wants(s5[1], "set", "viewer")
      /\ s5[1].item = "stats"
  <2>1. s5 \in Seq(Calls) /\ Len(s5) = 1 /\ s5[1] = Do("set", "viewer", "stats")
    <3>1. Do("set", "viewer", "stats") \in Calls
      BY CallsAre
    <3> QED
      BY <3>1, Tuples, Zenon
  <2>2. /\ Wants(Do("set", "viewer", "stats"), "set", "viewer")
        /\ Do("set", "viewer", "stats").item = "stats"
    BY DoIs, Zenon
  <2> HIDE DEF s5
  <2> QED
    BY <2>1, <2>2
<1>5. /\ s6 \in Seq(Calls) /\ Len(s6) = 3 /\ Wants(s6[1], "today", "viewer") /\ s6[1].item = "today"
      /\ Wants(s6[2], "set", "viewer") /\ Wants(s6[3], "set", "viewer")
  <2>1. /\ s6 \in Seq(Calls) /\ Len(s6) = 3 /\ s6[1] = Do("today", "viewer", "today")
        /\ s6[2] = Do("set", "viewer", "status") /\ s6[3] = Do("set", "viewer", "controls")
    BY CallsAre, Tuples, Zenon DEF webControlsConfigureToday
  <2>2. /\ Wants(Do("today", "viewer", "today"), "today", "viewer")
        /\ Do("today", "viewer", "today").item = "today"
        /\ Wants(Do("set", "viewer", "status"), "set", "viewer")
        /\ Wants(Do("set", "viewer", "controls"), "set", "viewer")
    BY DoIs, Zenon
  <2> HIDE DEF s6
  <2> QED
    BY <2>1, <2>2
<1>6. /\ s7 \in Seq(Calls) /\ Len(s7) = 4 /\ Wants(s7[1], "set", "viewer") /\ Wants(s7[2], "set", "viewer")
      /\ Wants(s7[3], "nav", "viewer") /\ Wants(s7[4], "nav", "viewer")
  BY DoIs, CallsAre, Tuples, Zenon
<1>7. /\ s2 \in Seq(Calls) /\ Len(s2) = 4 /\ Wants(s2[4], "span", Overlay)
      /\ \A i \in 1 .. 3 : Wants(s2[i], "vert", Overlay)
  BY <1>1, DecorateIs
<1>8. /\ s4 \in Seq(Calls) /\ Len(s4) = 4 /\ Wants(s4[4], "span", "Power")
      /\ \A i \in 1 .. 3 : Wants(s4[i], "vert", "Power")
  BY <1>1, DecorateIs
<1>9. Setup = s1 \o s2 \o s3 \o s4 \o s5 \o s6 \o s7
  BY Zenon DEF Setup, Overlay
<1> HIDE DEF s1, s2, s3, s4, s5, s6, s7
<1> DEFINE p2 == s1 \o s2
           p3 == p2 \o s3
           p4 == p3 \o s4
           p5 == p4 \o s5
           p6 == p5 \o s6
           p7 == p6 \o s7
<1>10. /\ p2 \in Seq(Calls) /\ Len(p2) = 5
       /\ p2[1] = s1[1] /\ \A i \in 1 .. 4 : p2[1 + i] = s2[i]
  <2>1. s1 \in Seq(Calls) /\ s2 \in Seq(Calls)
    BY <1>2, <1>7
  <2>2. Len(s1) = 1 /\ Len(s2) = 4
    BY <1>2, <1>7
  <2>3. /\ p2 \in Seq(Calls) /\ Len(p2) = Len(s1) + Len(s2)
        /\ \A i \in 1 .. Len(s1) : p2[i] = s1[i]
        /\ \A i \in 1 .. Len(s2) : p2[Len(s1) + i] = s2[i]
    BY <2>1, Cat
  <2> HIDE DEF p2
  <2> QED
    BY <2>1, <2>2, <2>3
<1>11. Setup = p7
  BY <1>9
<1> HIDE DEF p2
<1>12. /\ p3 \in Seq(Calls) /\ Len(p3) = 7
       /\ \A i \in 1 .. 5 : p3[i] = p2[i]
       /\ p3[6] = s3[1] /\ p3[7] = s3[2]
  <2>1. p2 \in Seq(Calls) /\ s3 \in Seq(Calls)
    BY <1>10, <1>3
  <2>2. Len(p2) = 5 /\ Len(s3) = 2
    BY <1>10, <1>3
  <2>3. /\ p3 \in Seq(Calls) /\ Len(p3) = Len(p2) + Len(s3)
        /\ \A i \in 1 .. Len(p2) : p3[i] = p2[i]
        /\ \A i \in 1 .. Len(s3) : p3[Len(p2) + i] = s3[i]
    BY <2>1, Cat
  <2> HIDE DEF p3
  <2> QED
    BY <2>1, <2>2, <2>3
<1> HIDE DEF p3
<1>13. /\ p4 \in Seq(Calls) /\ Len(p4) = 11
       /\ \A i \in 1 .. 7 : p4[i] = p3[i]
       /\ \A i \in 1 .. 4 : p4[7 + i] = s4[i]
  <2>1. p3 \in Seq(Calls) /\ s4 \in Seq(Calls)
    BY <1>12, <1>8
  <2>2. Len(p3) = 7 /\ Len(s4) = 4
    BY <1>12, <1>8
  <2>3. /\ p4 \in Seq(Calls) /\ Len(p4) = Len(p3) + Len(s4)
        /\ \A i \in 1 .. Len(p3) : p4[i] = p3[i]
        /\ \A i \in 1 .. Len(s4) : p4[Len(p3) + i] = s4[i]
    BY <2>1, Cat
  <2> HIDE DEF p4
  <2> QED
    BY <2>1, <2>2, <2>3
<1> HIDE DEF p4
<1>14. /\ p5 \in Seq(Calls) /\ Len(p5) = 12
       /\ \A i \in 1 .. 11 : p5[i] = p4[i]
       /\ p5[12] = s5[1]
  <2>1. p4 \in Seq(Calls) /\ s5 \in Seq(Calls)
    BY <1>13, <1>4
  <2>2. Len(p4) = 11 /\ Len(s5) = 1
    BY <1>13, <1>4
  <2>3. /\ p5 \in Seq(Calls) /\ Len(p5) = Len(p4) + Len(s5)
        /\ \A i \in 1 .. Len(p4) : p5[i] = p4[i]
        /\ \A i \in 1 .. Len(s5) : p5[Len(p4) + i] = s5[i]
    BY <2>1, Cat
  <2> HIDE DEF p5
  <2> QED
    BY <2>1, <2>2, <2>3
<1> HIDE DEF p5
<1>15. /\ p6 \in Seq(Calls) /\ Len(p6) = 15
       /\ \A i \in 1 .. 12 : p6[i] = p5[i]
       /\ \A i \in 1 .. 3 : p6[12 + i] = s6[i]
  <2>1. p5 \in Seq(Calls) /\ s6 \in Seq(Calls)
    BY <1>14, <1>5
  <2>2. Len(p5) = 12 /\ Len(s6) = 3
    BY <1>14, <1>5
  <2>3. /\ p6 \in Seq(Calls) /\ Len(p6) = Len(p5) + Len(s6)
        /\ \A i \in 1 .. Len(p5) : p6[i] = p5[i]
        /\ \A i \in 1 .. Len(s6) : p6[Len(p5) + i] = s6[i]
    BY <2>1, Cat
  <2> HIDE DEF p6
  <2> QED
    BY <2>1, <2>2, <2>3
<1> HIDE DEF p6
<1>16. /\ p7 \in Seq(Calls) /\ Len(p7) = 19
       /\ \A i \in 1 .. 15 : p7[i] = p6[i]
       /\ \A i \in 1 .. 4 : p7[15 + i] = s7[i]
  <2>1. p6 \in Seq(Calls) /\ s7 \in Seq(Calls)
    BY <1>15, <1>6
  <2>2. Len(p6) = 15 /\ Len(s7) = 4
    BY <1>15, <1>6
  <2>3. /\ p7 \in Seq(Calls) /\ Len(p7) = Len(p6) + Len(s7)
        /\ \A i \in 1 .. Len(p6) : p7[i] = p6[i]
        /\ \A i \in 1 .. Len(s7) : p7[Len(p6) + i] = s7[i]
    BY <2>1, Cat
  <2> HIDE DEF p7
  <2> QED
    BY <2>1, <2>2, <2>3
<1> HIDE DEF p7
<1>17. /\ \A i \in 2 .. 4 : Wants(p2[i], "vert", Overlay)
       /\ Wants(p2[1], "graph", Overlay) /\ Wants(p2[5], "span", Overlay)
  <2>1. \A i \in 2 .. 4 : i - 1 \in 1 .. 3 /\ p2[i] = s2[i - 1]
    BY <1>10
  <2> QED
    BY <2>1, <1>2, <1>7, <1>10
<1>18. /\ \A i \in 8 .. 10 : Wants(p4[i], "vert", "Power")
       /\ Wants(p4[11], "span", "Power")
  <2>1. \A i \in 8 .. 10 : i - 7 \in 1 .. 3 /\ p4[i] = s4[i - 7]
    BY <1>13
  <2> QED
    BY <2>1, <1>8, <1>13
<1>19. /\ Wants(p7[12], "set", "viewer") /\ p7[12].item = "stats"
       /\ Wants(p7[13], "today", "viewer") /\ p7[13].item = "today"
       /\ \A i \in 14 .. 17 : Wants(p7[i], "set", "viewer")
  <2>1. /\ p7[12] = s5[1] /\ p7[13] = s6[1] /\ p7[14] = s6[2] /\ p7[15] = s6[3]
        /\ p7[16] = s7[1] /\ p7[17] = s7[2]
    BY <1>14, <1>15, <1>16
  <2> QED
    BY <2>1, <1>4, <1>5, <1>6
<1>20. p7[18] = s7[3] /\ p7[19] = s7[4]
  BY <1>16
<1>21. \A i \in 1 .. 11 : p7[i] = p4[i]
  BY <1>14, <1>15, <1>16
<1>22. \A i \in 1 .. 5 : p7[i] = p2[i]
  BY <1>12, <1>13, <1>21
<1>23. p7[6] = s3[1] /\ p7[7] = s3[2]
  BY <1>12, <1>13, <1>21
<1>24. p7[1] = p2[1] /\ p7[5] = p2[5] /\ p7[11] = p4[11]
  BY <1>21, <1>22
<1>25. \A i \in 18 .. 19 : Wants(p7[i], "nav", "viewer")
  BY <1>20, <1>6
<1> QED
  BY <1>3, <1>11, <1>16, <1>17, <1>18, <1>19, <1>21, <1>22, <1>23, <1>24, <1>25

\* What the proofs need of them: only graphs, markers, spans and colours name a
\* graph, a graph is inserted before it is named, and no status provider is set
\* before the panel that would free it.
LEMMA SetupFacts ==
    /\ DOMAIN Setup = 1 .. 19
    /\ \A i \in 1 .. 19 :
          /\ Setup[i].op \in Ops /\ Setup[i].on \in Titles \cup {"viewer"} /\ Setup[i].item \in Items
          /\ Setup[i].on # "viewer" <=> Setup[i].op \in {"graph", "vert", "span", "color"}
          /\ Setup[i].op = "graph" => \A j \in 1 .. i - 1 : Setup[j].on # Setup[i].on
          /\ Setup[i].op = "today" =>
                /\ Setup[i].item = "today"
                /\ \A j \in 1 .. i - 1 : Setup[j].op = "set" => Setup[j].item # "status"
<1>1. DOMAIN Setup = 1 .. 19 /\ \A i \in 1 .. 19 : Setup[i] \in Calls
  <2>1. Setup \in Seq(Calls) /\ Len(Setup) = 19
    BY SetupIs
  <2>2. \A s \in Seq(Calls) : DOMAIN s = 1 .. Len(s) /\ \A i \in 1 .. Len(s) : s[i] \in Calls
    OBVIOUS
  <2> QED
    BY <2>1, <2>2, Zenon
<1>2. Overlay # "Power" /\ Overlay # "viewer"
  BY DEF Overlay
<1>3. ASSUME NEW i \in 1 .. 19
      PROVE /\ i \in 1 .. 5 => Setup[i].on = Overlay /\ Setup[i].op \in {"graph", "vert", "span", "color"}
            /\ i \in 6 .. 11 => Setup[i].on = "Power" /\ Setup[i].op \in {"graph", "vert", "span", "color"}
            /\ i \in 12 .. 19 => Setup[i].on = "viewer" /\ Setup[i].op \in {"set", "today", "nav"}
            /\ Setup[i].op = "graph" => i \in {1, 6}
            /\ Setup[i].op = "today" => i = 13
            /\ Setup[i].op = "set" /\ i < 13 => i = 12
  <2>1. \/ i = 1 \/ i \in 2 .. 4 \/ i = 5 \/ i = 6 \/ i = 7 \/ i \in 8 .. 10 \/ i = 11
        \/ i = 12 \/ i = 13 \/ i \in 14 .. 17 \/ i \in 18 .. 19
    OBVIOUS
  <2> QED
    BY <2>1, SetupIs DEF Wants
<1>4. ASSUME NEW i \in 1 .. 19
      PROVE  /\ Setup[i].op \in Ops /\ Setup[i].on \in Titles \cup {"viewer"} /\ Setup[i].item \in Items
             /\ Setup[i].on # "viewer" <=> Setup[i].op \in {"graph", "vert", "span", "color"}
  <2>1. Setup[i].op \in Ops /\ Setup[i].on \in Titles \cup {"viewer"} /\ Setup[i].item \in Items
    BY <1>1 DEF Calls
  <2>2. i \in 1 .. 5 \/ i \in 6 .. 11 \/ i \in 12 .. 19
    OBVIOUS
  <2> QED
    BY <1>2, <1>3, <2>1, <2>2
<1>5. ASSUME NEW i \in 1 .. 19, Setup[i].op = "graph", NEW j \in 1 .. i - 1
      PROVE Setup[j].on # Setup[i].on
  <2>1. i = 6 /\ j \in 1 .. 5 /\ j \in 1 .. 19
    BY <1>3, <1>5
  <2> QED
    BY <2>1, <1>2, <1>3, SetupIs DEF Wants
<1>6. ASSUME NEW i \in 1 .. 19, Setup[i].op = "today"
      PROVE  /\ Setup[i].item = "today"
             /\ \A j \in 1 .. i - 1 : Setup[j].op = "set" => Setup[j].item # "status"
  <2>1. i = 13
    BY <1>3, <1>6
  <2>2. ASSUME NEW j \in 1 .. i - 1, Setup[j].op = "set" PROVE j = 12
    <3>1. j \in 1 .. 19 /\ j < 13
      BY <2>1
    <3> QED
      BY <1>3, <2>2, <3>1
  <2> QED
    BY <2>1, <2>2, SetupIs
<1> QED
  BY <1>1, <1>4, <1>5, <1>6

-----------------------------------------------------------------------------
(* What the calls that returned 1 have asked for.                          *)

AskedItem(env, items, i) ==
    IF i \in env[1] /\ Setup[i].op = env[2] /\ Setup[i].on = env[3]
      THEN Append(items, Setup[i].item) ELSE items
SetupLoop == INSTANCE FoldFacts WITH body <- AskedItem

Numbers(n) == [i \in 1 .. n |-> i]

\* What is asked of one graph by some of the first n calls.
Asked(n, calls, op, on) == SetupLoop!Looped(<<calls, op, on>>, <<>>, Numbers(n))

\* Succeeded asks with the calls made so far.
LEMMA SucceededIs ==
    ASSUME NEW op, NEW on
    PROVE  Succeeded(op, on) = Asked(setup - 1, done, op, on)
  BY DEF Succeeded, Asked, Numbers, AskedItem, FoldLeft, MapThenFoldSet, Max,
     SetupLoop!Looped, SetupLoop!FoldLeft, SetupLoop!MapThenFoldSet, SetupLoop!Max

\* The numbers of the calls, one longer each time.
LEMMA NumbersNext ==
    ASSUME NEW n \in Nat
    PROVE  /\ Numbers(0) = <<>> /\ Numbers(n) \in Seq(Nat)
           /\ Numbers(n + 1) = Append(Numbers(n), n + 1)
<1>1. Numbers(0) = <<>> /\ Numbers(n) \in Seq(Nat)
  BY DEF Numbers
<1>2. Len(Numbers(n)) = n /\ \A i \in 1 .. n : Numbers(n)[i] = i
  BY DEF Numbers
<1> DEFINE s == Numbers(n)
           t == Append(s, n + 1)
<1> HIDE DEF s
<1>3. s \in Seq(Nat) /\ Len(s) = n /\ \A i \in 1 .. n : s[i] = i
  BY <1>1, <1>2 DEF s
<1>4. t \in Seq(Nat) /\ Len(t) = n + 1 /\ t[n + 1] = n + 1 /\ \A i \in 1 .. n : t[i] = i
  BY <1>3
<1> HIDE DEF t
<1>5. t = [i \in 1 .. n + 1 |-> i]
  BY <1>4
<1> QED
  BY <1>1, <1>5 DEF Numbers, t, s

\* Nothing is asked by no calls; the next call asks for its item or not.
LEMMA AskedNext ==
    ASSUME NEW calls, NEW op, NEW on, NEW n \in Nat
    PROVE  /\ Asked(0, calls, op, on) = <<>>
           /\ Asked(n + 1, calls, op, on)
                = IF n + 1 \in calls /\ Setup[n + 1].op = op /\ Setup[n + 1].on = on
                    THEN Append(Asked(n, calls, op, on), Setup[n + 1].item)
                    ELSE Asked(n, calls, op, on)
<1>1. Asked(0, calls, op, on) = <<>>
  BY NumbersNext, SetupLoop!LoopedEmpty DEF Asked
<1>2. Asked(n + 1, calls, op, on) = AskedItem(<<calls, op, on>>, Asked(n, calls, op, on), n + 1)
  <2> DEFINE env == <<calls, op, on>>
  <2>1. n + 1 \in Nat /\ Numbers(n) \in Seq(Nat)
    BY NumbersNext
  <2> HIDE DEF env
  <2>2. SetupLoop!Looped(env, <<>>, Append(Numbers(n), n + 1))
          = AskedItem(env, SetupLoop!Looped(env, <<>>, Numbers(n)), n + 1)
    BY <2>1, SetupLoop!LoopedAppend
  <2> QED
    BY <2>2, NumbersNext DEF Asked, env
<1> QED
  BY <1>1, <1>2 DEF AskedItem

\* What the first n calls ask for depends on these calls alone.
LEMMA AskedSame ==
    ASSUME NEW calls, NEW more, NEW op, NEW on, NEW n \in Nat,
           \A i \in 1 .. n : i \in calls <=> i \in more
    PROVE  Asked(n, calls, op, on) = Asked(n, more, op, on)
<1> DEFINE Q == {k \in Nat : k <= n => Asked(k, calls, op, on) = Asked(k, more, op, on)}
<1>1. 0 \in Q
  BY AskedNext
<1>2. ASSUME NEW k \in Nat, k \in Q PROVE k + 1 \in Q
  <2> SUFFICES ASSUME k + 1 <= n PROVE Asked(k + 1, calls, op, on) = Asked(k + 1, more, op, on)
    OBVIOUS
  <2>1. Asked(k, calls, op, on) = Asked(k, more, op, on)
    BY <1>2
  <2>2. k + 1 \in calls <=> k + 1 \in more
    OBVIOUS
  <2> QED
    BY <2>1, <2>2, AskedNext
<1> HIDE DEF Q
<1>3. Nat \subseteq Q
  BY <1>1, <1>2, SetupLoop!NumberInduction
<1> QED
  BY <1>3 DEF Q

\* A graph that no call has named has been asked for nothing.
LEMMA AskedNothing ==
    ASSUME NEW calls, NEW op, NEW on, NEW n \in Nat, \A i \in 1 .. n : Setup[i].on # on
    PROVE  Asked(n, calls, op, on) = <<>>
<1> DEFINE Q == {k \in Nat : k <= n => Asked(k, calls, op, on) = <<>>}
<1>1. 0 \in Q
  BY AskedNext
<1>2. ASSUME NEW k \in Nat, k \in Q PROVE k + 1 \in Q
  <2> SUFFICES ASSUME k + 1 <= n PROVE Asked(k + 1, calls, op, on) = <<>>
    OBVIOUS
  <2>1. Asked(k, calls, op, on) = <<>>
    BY <1>2
  <2>2. Setup[k + 1].on # on
    OBVIOUS
  <2> QED
    BY <2>1, <2>2, AskedNext
<1> HIDE DEF Q
<1>3. Nat \subseteq Q
  BY <1>1, <1>2, SetupLoop!NumberInduction
<1> QED
  BY <1>3 DEF Q

\* It is a sequence of items.
LEMMA AskedType ==
    ASSUME NEW calls, NEW op, NEW on, NEW n \in 0 .. 19
    PROVE  Asked(n, calls, op, on) \in Seq(Items)
<1> DEFINE Q == {k \in Nat : k <= 19 => Asked(k, calls, op, on) \in Seq(Items)}
<1>1. 0 \in Q
  <2>1. Asked(0, calls, op, on) = <<>>
    BY AskedNext
  <2>2. <<>> \in Seq(Items)
    OBVIOUS
  <2> QED
    BY <2>1, <2>2
<1>2. ASSUME NEW k \in Nat, k \in Q PROVE k + 1 \in Q
  <2> SUFFICES ASSUME k + 1 <= 19 PROVE Asked(k + 1, calls, op, on) \in Seq(Items)
    OBVIOUS
  <2>1. Asked(k, calls, op, on) \in Seq(Items) /\ k + 1 \in 1 .. 19
    BY <1>2
  <2>2. Setup[k + 1].item \in Items
    BY <2>1, SetupFacts
  <2> DEFINE asked == Asked(k, calls, op, on)
             item == Setup[k + 1].item
  <2>3. Append(asked, item) \in Seq(Items)
    <3> HIDE DEF asked, item
    <3>1. asked \in Seq(Items) /\ item \in Items
      BY <2>1, <2>2 DEF asked, item
    <3> QED
      BY <3>1
  <2>4. Asked(k + 1, calls, op, on) = Append(asked, item) \/ Asked(k + 1, calls, op, on) = asked
    <3> DEFINE next == Asked(k + 1, calls, op, on)
    <3>1. next = IF k + 1 \in calls /\ Setup[k + 1].op = op /\ Setup[k + 1].on = on
                   THEN Append(asked, item) ELSE asked
      BY AskedNext
    <3> HIDE DEF next, asked, item
    <3> QED
      BY <3>1 DEF next
  <2> HIDE DEF item
  <2> QED
    BY <2>1, <2>3, <2>4, Zenon
<1> HIDE DEF Q
<1>3. Nat \subseteq Q
  BY <1>1, <1>2, SetupLoop!NumberInduction
<1> QED
  BY <1>3 DEF Q

\* A call that fails asks for nothing.
LEMMA AskedByFailure ==
    ASSUME NEW n \in 1 .. 19, NEW calls, n \notin calls, NEW op, NEW on
    PROVE  Asked(n, calls, op, on) = Asked(n - 1, calls, op, on)
<1> DEFINE k == n - 1
<1>1. k \in Nat /\ k + 1 = n
  OBVIOUS
<1> HIDE DEF k
<1>2. Asked(n, calls, op, on) = Asked(k, calls, op, on)
  BY <1>1, AskedNext
<1> QED
  BY <1>2 DEF k

\* One that returns 1 asks, last, for its item on its graph.
LEMMA AskedBySuccess ==
    ASSUME NEW n \in 1 .. 19, NEW calls, NEW more,
           n \in more, \A i \in 1 .. n - 1 : i \in calls <=> i \in more
    PROVE  Asked(n, more, Setup[n].op, Setup[n].on)
             = Append(Asked(n - 1, calls, Setup[n].op, Setup[n].on), Setup[n].item)
<1> DEFINE k == n - 1
           op == Setup[n].op
           on == Setup[n].on
<1>1. k \in Nat /\ k + 1 = n /\ Setup[n].op = op /\ Setup[n].on = on
      /\ \A i \in 1 .. k : i \in calls <=> i \in more
  OBVIOUS
<1> HIDE DEF k, op, on
<1>2. Asked(k, calls, op, on) = Asked(k, more, op, on)
  BY <1>1, AskedSame
<1>3. Asked(k + 1, more, op, on)
        = IF k + 1 \in more /\ Setup[k + 1].op = op /\ Setup[k + 1].on = on
            THEN Append(Asked(k, more, op, on), Setup[k + 1].item)
            ELSE Asked(k, more, op, on)
  BY <1>1, AskedNext
<1>4. Asked(n, more, op, on) = Append(Asked(k, calls, op, on), Setup[n].item)
  BY <1>1, <1>2, <1>3, Zenon
<1> QED
  BY <1>4 DEF k, op, on

\* And for nothing else.
LEMMA AskedByOther ==
    ASSUME NEW n \in 1 .. 19, NEW calls, NEW more,
           \A i \in 1 .. n - 1 : i \in calls <=> i \in more,
           NEW op, NEW on, Setup[n].op # op \/ Setup[n].on # on
    PROVE  Asked(n, more, op, on) = Asked(n - 1, calls, op, on)
<1> DEFINE k == n - 1
<1>1. k \in Nat /\ k + 1 = n /\ \A i \in 1 .. k : i \in calls <=> i \in more
  OBVIOUS
<1> HIDE DEF k
<1>2. Asked(k, calls, op, on) = Asked(k, more, op, on)
  BY <1>1, AskedSame
<1>3. Asked(k + 1, more, op, on)
        = IF k + 1 \in more /\ Setup[k + 1].op = op /\ Setup[k + 1].on = on
            THEN Append(Asked(k, more, op, on), Setup[k + 1].item)
            ELSE Asked(k, more, op, on)
  BY <1>1, AskedNext
<1>4. Asked(n, more, op, on) = Asked(k, calls, op, on)
  BY <1>1, <1>2, <1>3, Zenon
<1> QED
  BY <1>4 DEF k

-----------------------------------------------------------------------------
(* What is shown.                                                          *)

Array == [items : Seq(Items), cap : Nat]
Graph == [title : Titles, colored : BOOLEAN, verts : Array, spans : Array]
DisplayType(d) == d \in [graphs : Seq(Graph), graph_capacity : Nat, options : SUBSET Items]

\* A title has one graph, which findGraphByTitle then finds.
OneOfATitle(d) ==
    \A i, j \in DOMAIN d.graphs : d.graphs[i].title = d.graphs[j].title => i = j

\* A graph carries what these of the first n calls asked of it.
Carries(g, n, calls) ==
    /\ g.verts.items = Asked(n, calls, "vert", g.title)
    /\ g.spans.items = Asked(n, calls, "span", g.title)
    /\ g.colored = (Asked(n, calls, "color", g.title) # <<>>)
    /\ Len(g.verts.items) <= g.verts.cap /\ Len(g.spans.items) <= g.spans.cap

GraphTitles(d) == {d.graphs[i].title : i \in DOMAIN d.graphs}
TitlesOf(calls) == {Setup[i].on : i \in {j \in calls : Setup[j].on # "viewer"}}
OptionsOf(calls) == {Setup[i].item : i \in {j \in calls : Setup[j].op \in {"set", "today"}}}

Shows(d, n, calls) ==
    /\ DisplayType(d) /\ OneOfATitle(d)
    /\ d.options = OptionsOf(calls) /\ GraphTitles(d) = TitlesOf(calls)
    /\ Len(d.graphs) <= d.graph_capacity
    /\ \A i \in DOMAIN d.graphs : Carries(d.graphs[i], n, calls)

\* A call that fails, whatever it leaves in the arrays, changes nothing that is shown.
LEMMA ShowsAfterFailure ==
    ASSUME NEW n \in 1 .. 19, NEW calls \in SUBSET (1 .. n - 1), NEW d, Shows(d, n - 1, calls)
    PROVE  Shows(d, n, calls)
<1> n \notin calls
  OBVIOUS
<1>1. ASSUME NEW op, NEW on PROVE Asked(n, calls, op, on) = Asked(n - 1, calls, op, on)
  BY AskedByFailure
<1>2. ASSUME NEW i \in DOMAIN d.graphs PROVE Carries(d.graphs[i], n, calls)
  <2>1. Carries(d.graphs[i], n - 1, calls)
    BY DEF Shows
  <2> QED
    BY <1>1, <2>1, Zenon DEF Carries
<1> QED
  BY <1>2 DEF Shows

\* One graph is replaced.
LEMMA ReplaceGraph ==
    ASSUME NEW d, DisplayType(d), NEW i \in DOMAIN d.graphs, NEW g \in Graph
    PROVE  LET e == [d EXCEPT !.graphs[i] = g]
           IN  /\ DisplayType(e) /\ e.options = d.options /\ e.graph_capacity = d.graph_capacity
               /\ DOMAIN e.graphs = DOMAIN d.graphs /\ Len(e.graphs) = Len(d.graphs)
               /\ e.graphs[i] = g
               /\ \A j \in DOMAIN d.graphs : j # i => e.graphs[j] = d.graphs[j]
<1> DEFINE e == [d EXCEPT !.graphs[i] = g]
           s == d.graphs
           t == [s EXCEPT ![i] = g]
<1>1. s \in Seq(Graph) /\ i \in DOMAIN s
  BY DEF DisplayType
<1>2. /\ e.graphs = t /\ e.options = d.options /\ e.graph_capacity = d.graph_capacity
      /\ e = [graphs |-> t, graph_capacity |-> d.graph_capacity, options |-> d.options]
      /\ d.graph_capacity \in Nat /\ d.options \in SUBSET Items
  BY DEF DisplayType
<1> HIDE DEF s
<1>3. t \in Seq(Graph) /\ DOMAIN t = DOMAIN s /\ Len(t) = Len(s) /\ t[i] = g
  BY <1>1
<1>4. \A j \in DOMAIN s : j # i => t[j] = s[j]
  BY <1>1
<1> HIDE DEF e, t
<1>5. DisplayType(e)
  BY <1>2, <1>3 DEF DisplayType
<1> QED
  BY <1>2, <1>3, <1>4, <1>5 DEF s, e

\* What a call leaves of the graph it names.
LEMMA ShowsReplaced ==
    ASSUME NEW n \in 1 .. 19, NEW calls \in SUBSET (1 .. n - 1), NEW d, Shows(d, n - 1, calls),
           NEW i \in DOMAIN d.graphs, NEW g \in Graph, g.title = d.graphs[i].title,
           Setup[n].on = g.title, NEW more \in SUBSET (1 .. n),
           \A k \in 1 .. n - 1 : k \in calls <=> k \in more, Carries(g, n, more)
    PROVE  Shows([d EXCEPT !.graphs[i] = g], n, more)
<1> n \notin calls
  OBVIOUS
<1> more \in {calls, calls \cup {n}}
  <2>1. \A k \in more : k \in calls \/ k = n
    OBVIOUS
  <2>2. calls \subseteq more
    OBVIOUS
  <2> QED
    BY <2>1, <2>2
<1> DEFINE e == [d EXCEPT !.graphs[i] = g]
<1>1. /\ DisplayType(e) /\ e.options = d.options /\ e.graph_capacity = d.graph_capacity
      /\ DOMAIN e.graphs = DOMAIN d.graphs /\ Len(e.graphs) = Len(d.graphs)
      /\ e.graphs[i] = g
      /\ \A j \in DOMAIN d.graphs : j # i => e.graphs[j] = d.graphs[j]
  BY ReplaceGraph DEF Shows
<1> HIDE DEF e
<1>2. \A j \in DOMAIN d.graphs : e.graphs[j].title = d.graphs[j].title
  BY <1>1
<1>3. OneOfATitle(e)
  BY <1>1, <1>2 DEF Shows, OneOfATitle
<1>4. GraphTitles(e) = GraphTitles(d)
  BY <1>1, <1>2 DEF GraphTitles
<1>5. g.title \in Titles /\ g.title # "viewer"
  BY DEF Graph, Titles, Overlay
<1>6. g.title \in GraphTitles(d)
  BY DEF GraphTitles
<1>7. TitlesOf(more) = TitlesOf(calls)
  BY <1>6 DEF Shows, TitlesOf
<1>8. Setup[n].op \in {"graph", "vert", "span", "color"}
  BY <1>5, SetupFacts
<1>9. OptionsOf(more) = OptionsOf(calls)
  BY <1>8 DEF OptionsOf
<1>10. ASSUME NEW j \in DOMAIN d.graphs, j # i PROVE Carries(e.graphs[j], n, more)
  <2>1. d.graphs[j].title # g.title
    BY <1>10 DEF Shows, OneOfATitle
  <2>2. ASSUME NEW op
        PROVE  Asked(n, more, op, d.graphs[j].title) = Asked(n - 1, calls, op, d.graphs[j].title)
    <3>1. CASE more = calls
      BY <3>1, AskedByFailure
    <3>2. CASE more = calls \cup {n}
      <4> DEFINE title == d.graphs[j].title
      <4>1. Setup[n].on # title
        BY <2>1
      <4> HIDE DEF title
      <4>2. Asked(n, more, op, title) = Asked(n - 1, calls, op, title)
        <5>1. n \in more /\ \A k \in 1 .. n - 1 : k \in calls <=> k \in more
          BY <3>2
        <5> QED
          BY <4>1, <5>1, AskedByOther
      <4> QED
        BY <4>2 DEF title
    <3> QED
      BY <3>1, <3>2
  <2>3. Carries(d.graphs[j], n - 1, calls)
    BY DEF Shows
  <2>4. Carries(d.graphs[j], n, more)
    BY <2>2, <2>3 DEF Carries
  <2> QED
    BY <1>1, <1>10, <2>4
<1>11. \A j \in DOMAIN e.graphs : Carries(e.graphs[j], n, more)
  BY <1>1, <1>10
<1>12. Len(e.graphs) <= e.graph_capacity /\ e.options = OptionsOf(more)
  BY <1>1, <1>9 DEF Shows
<1>13. GraphTitles(e) = TitlesOf(more)
  BY <1>4, <1>7 DEF Shows
<1>14. Shows(e, n, more)
  BY <1>1, <1>3, <1>11, <1>12, <1>13 DEF Shows
<1> QED
  BY <1>14 DEF e

\* Appending to a graph's array.
LEMMA AppendsIs ==
    ASSUME NEW array \in Array, Len(array.items) <= array.cap, NEW item \in Items,
           NEW r \in Appends(array, item)
    PROVE  /\ r.display \in Array /\ Len(r.display.items) <= r.display.cap /\ r.ok \in BOOLEAN
           /\ r.display.items = IF r.ok THEN Append(array.items, item) ELSE array.items
<1> DEFINE s == array.items
           t == Append(s, item)
           cap == Grown(Len(s), array.cap, 2)
           room == [items |-> s, cap |-> cap]
           full == [items |-> t, cap |-> cap]
<1>1. s \in Seq(Items) /\ array.cap \in Nat /\ Len(s) \in Nat
  BY DEF Array
<1>2. cap \in Nat /\ Len(s) < cap
  BY <1>1 DEF Grown
<1>3. [array EXCEPT !.cap = Grown(Len(array.items), @, 2)] = room
  BY DEF Array
<1> HIDE DEF cap
<1>4. [room EXCEPT !.items = Append(@, item)] = full
  OBVIOUS
<1>5. r \in {Returns(array, FALSE), Returns(room, FALSE), Returns(full, TRUE)}
  BY <1>3, <1>4 DEF Appends
<1>6. t \in Seq(Items) /\ Len(t) = Len(s) + 1
  <2> HIDE DEF s
  <2> QED
    BY <1>1
<1> HIDE DEF t
<1>7. room \in Array /\ full \in Array /\ room.items = s /\ full.items = t
      /\ room.cap = cap /\ full.cap = cap
  BY <1>1, <1>2, <1>6 DEF Array
<1> HIDE DEF room, full
<1>8. Len(room.items) <= room.cap /\ Len(full.items) <= full.cap
  BY <1>1, <1>2, <1>6, <1>7
<1>9. CASE r = Returns(array, FALSE)
  BY <1>9 DEF Returns, s
<1>10. CASE r = Returns(room, FALSE)
  BY <1>7, <1>8, <1>10 DEF Returns
<1>11. CASE r = Returns(full, TRUE)
  BY <1>7, <1>8, <1>11 DEF Returns, t
<1> QED
  BY <1>5, <1>9, <1>10, <1>11

\* A graph is inserted, empty, behind the others.
LEMMA ShowsInserted ==
    ASSUME NEW n \in 1 .. 19, NEW calls \in SUBSET (1 .. n - 1), NEW d, Shows(d, n - 1, calls),
           Setup[n].op = "graph", NEW r \in loggerWebInsertGraphSeries(d, Setup[n].on)
    PROVE  Shows(r.display, n, IF r.ok THEN calls \cup {n} ELSE calls)
<1> DEFINE title == Setup[n].on
           more == calls \cup {n}
           g == NewGraph(title)
           s == d.graphs
           t == Append(s, g)
           cap == Grown(Len(s), d.graph_capacity, 4)
           e == [graphs |-> t, graph_capacity |-> cap, options |-> d.options]
<1>1. /\ s \in Seq(Graph) /\ d.graph_capacity \in Nat /\ d.options \in SUBSET Items
      /\ d = [graphs |-> s, graph_capacity |-> d.graph_capacity, options |-> d.options]
      /\ Len(s) <= d.graph_capacity /\ Len(s) \in Nat
  BY DEF Shows, DisplayType
<1>2. title \in Titles /\ title # "viewer" /\ \A i \in 1 .. n - 1 : Setup[i].on # title
  BY SetupFacts
<1>3. /\ n \in more /\ \A i \in 1 .. n - 1 : i \in calls <=> i \in more
      /\ \A i \in calls : i \in 1 .. n - 1
  OBVIOUS
<1>4. g \in Graph /\ g.title = title
  <2>1. <<>> \in Seq(Items)
    OBVIOUS
  <2>2. [items |-> <<>>, cap |-> 0] \in Array
    BY <2>1 DEF Array
  <2> HIDE DEF title
  <2> QED
    BY <1>2, <2>2 DEF Graph, NewGraph
<1>5. ASSUME NEW op, op # "graph" PROVE Asked(n, more, op, title) = <<>>
  <2>1. Asked(n - 1, calls, op, title) = <<>>
    <3>1. n - 1 \in Nat
      OBVIOUS
    <3> HIDE DEF title
    <3> QED
      BY <1>2, <3>1, AskedNothing
  <2> HIDE DEF title, more
  <2> QED
    BY <1>3, <1>5, <2>1, AskedByOther
<1>6. Carries(g, n, more)
  <2>1. /\ Asked(n, more, "vert", title) = <<>> /\ Asked(n, more, "span", title) = <<>>
        /\ Asked(n, more, "color", title) = <<>>
    BY <1>5
  <2>2. /\ g.verts.items = <<>> /\ g.spans.items = <<>> /\ g.verts.cap = 0 /\ g.spans.cap = 0
        /\ g.colored = FALSE /\ Len(<<>>) = 0
    BY DEF NewGraph
  <2> HIDE DEF g, title, more
  <2>3. g.colored = (Asked(n, more, "color", g.title) # <<>>)
    BY <1>4, <2>1, <2>2, Zenon
  <2>4. /\ g.verts.items = Asked(n, more, "vert", g.title)
        /\ g.spans.items = Asked(n, more, "span", g.title)
    BY <1>4, <2>1, <2>2, Zenon
  <2>5. Len(g.verts.items) <= g.verts.cap /\ Len(g.spans.items) <= g.spans.cap
    BY <2>2
  <2> QED
    BY <2>3, <2>4, <2>5 DEF Carries
<1>7. cap \in Nat /\ Len(s) < cap
  BY <1>1 DEF Grown
<1>8. r = Returns(d, FALSE) \/ r = Returns(e, TRUE)
  <2>1. [d EXCEPT !.graphs = t, !.graph_capacity = cap] = e
    <3> HIDE DEF t, cap
    <3> DEFINE f == [d EXCEPT !.graphs = t]
    <3>1. f = [graphs |-> t, graph_capacity |-> d.graph_capacity, options |-> d.options]
      BY DEF Shows, DisplayType
    <3>2. [f EXCEPT !.graph_capacity = cap] = e
      <4> HIDE DEF f
      <4> QED
        BY <3>1
    <3> QED
      BY <3>2
  <2> QED
    BY <2>1 DEF loggerWebInsertGraphSeries
<1> HIDE DEF cap, g, title
<1>9. t \in Seq(Graph) /\ Len(t) = Len(s) + 1 /\ t[Len(s) + 1] = g
      /\ DOMAIN t = 1 .. Len(s) + 1 /\ DOMAIN s = 1 .. Len(s) /\ \A i \in DOMAIN s : t[i] = s[i]
  <2> HIDE DEF s
  <2> QED
    BY <1>1, <1>4
<1> HIDE DEF t
<1>10. DisplayType(e) /\ e.graphs = t /\ e.graph_capacity = cap /\ e.options = d.options
  BY <1>1, <1>7, <1>9 DEF DisplayType
<1>11. Setup[n].on = title /\ Setup[n].op = "graph"
  BY DEF title
<1>12. ASSUME NEW i \in DOMAIN s PROVE s[i].title # title
  <2>1. s[i].title \in TitlesOf(calls)
    BY DEF Shows, GraphTitles
  <2> QED
    BY <1>2, <1>3, <2>1 DEF TitlesOf
<1>13. \A i \in DOMAIN t : i \in DOMAIN s \/ i = Len(s) + 1
  BY <1>1, <1>9
<1>14. OneOfATitle(e)
  <2> SUFFICES ASSUME NEW i \in DOMAIN t, NEW j \in DOMAIN t, t[i].title = t[j].title PROVE i = j
    BY <1>10 DEF OneOfATitle
  <2> QED
    BY <1>4, <1>9, <1>12, <1>13 DEF Shows, OneOfATitle
<1>15. GraphTitles(e) = TitlesOf(more)
  <2>1. GraphTitles(e) = GraphTitles(d) \cup {title}
    BY <1>1, <1>4, <1>9, <1>10, <1>13 DEF GraphTitles
  <2>2. TitlesOf(more) = TitlesOf(calls) \cup {title}
    BY <1>2, <1>11 DEF TitlesOf
  <2> QED
    BY <2>1, <2>2 DEF Shows
<1>16. e.options = OptionsOf(more)
  BY <1>10, <1>11 DEF OptionsOf, Shows
<1>17. Len(e.graphs) <= e.graph_capacity
  BY <1>1, <1>7, <1>9, <1>10
<1>18. ASSUME NEW i \in DOMAIN s PROVE Carries(t[i], n, more)
  <2> DEFINE other == s[i].title
  <2>1. Setup[n].on # other
    BY <1>11, <1>12
  <2> HIDE DEF other, more
  <2>2. ASSUME NEW op PROVE Asked(n, more, op, other) = Asked(n - 1, calls, op, other)
    BY <1>3, <2>1, AskedByOther
  <2>3. Carries(s[i], n - 1, calls)
    BY DEF Shows
  <2>4. Carries(s[i], n, more)
    BY <2>2, <2>3 DEF Carries, other
  <2> QED
    BY <1>9, <2>4
<1>19. \A i \in DOMAIN e.graphs : Carries(e.graphs[i], n, more)
  BY <1>6, <1>9, <1>10, <1>13, <1>18
<1> HIDE DEF e
<1>20. Shows(e, n, more)
  BY <1>10, <1>14, <1>15, <1>16, <1>17, <1>19 DEF Shows
<1>21. CASE r = Returns(d, FALSE)
  BY <1>21, ShowsAfterFailure DEF Returns
<1>22. CASE r = Returns(e, TRUE)
  BY <1>20, <1>22 DEF Returns
<1> QED
  BY <1>8, <1>21, <1>22

\* An option is set, or the Today panel, before which no status is.
LEMMA ShowsOption ==
    ASSUME NEW n \in 1 .. 19, NEW calls \in SUBSET (1 .. n - 1), NEW d, Shows(d, n - 1, calls),
           Setup[n].op \in {"set", "today"},
           NEW r, \/ Setup[n].op = "set" /\ r \in SetOption(d, Setup[n].item)
                  \/ Setup[n].op = "today" /\ r \in loggerWebShowToday(d)
    PROVE  Shows(r.display, n, IF r.ok THEN calls \cup {n} ELSE calls)
<1> DEFINE item == Setup[n].item
           more == calls \cup {n}
           set == d.options \cup {item}
           e == [d EXCEPT !.options = set]
<1>1. /\ n \in more /\ \A i \in 1 .. n - 1 : i \in calls <=> i \in more
      /\ \A i \in calls : i \in 1 .. n - 1 /\ i \in 1 .. 19
  OBVIOUS
<1>2. item \in Items /\ Setup[n].on = "viewer"
  BY SetupFacts
<1>3. r = Returns(d, FALSE) \/ r = Returns(e, TRUE)
  <2>1. CASE Setup[n].op = "set"
    BY <2>1 DEF SetOption
  <2>2. CASE Setup[n].op = "today"
    <3>1. item = "today" /\ \A j \in 1 .. n - 1 : Setup[j].op = "set" => Setup[j].item # "status"
      BY <2>2, SetupFacts
    <3>2. ASSUME NEW j \in calls, Setup[j].op = "today" PROVE Setup[j].item # "status"
      BY <1>1, <3>2, SetupFacts
    <3>3. "status" \notin d.options
      BY <1>1, <3>1, <3>2 DEF Shows, OptionsOf
    <3>4. (d.options \ {"status"}) \cup {"today"} = set
      BY <3>1, <3>3
    <3> QED
      BY <2>2, <3>4 DEF loggerWebShowToday
  <2> QED
    BY <2>1, <2>2
<1>4. /\ DisplayType(e) /\ e.graphs = d.graphs /\ e.graph_capacity = d.graph_capacity
      /\ e.options = set
  BY <1>2 DEF Shows, DisplayType
<1>5. OptionsOf(more) = OptionsOf(calls) \cup {item}
  BY DEF OptionsOf
<1>6. TitlesOf(more) = TitlesOf(calls)
  BY <1>2 DEF TitlesOf
<1>7. ASSUME NEW i \in DOMAIN d.graphs PROVE Carries(d.graphs[i], n, more)
  <2> DEFINE title == d.graphs[i].title
  <2>1. title \in Titles /\ title # "viewer"
    <3>1. \A g \in Graph : g.title \in Titles /\ g.title # "viewer"
      BY DEF Graph, Titles, Overlay
    <3>2. d.graphs \in Seq(Graph)
      BY DEF Shows, DisplayType
    <3>3. d.graphs[i] \in Graph
      BY <3>2
    <3> QED
      BY <3>1, <3>3
  <2> HIDE DEF title, more
  <2>2. ASSUME NEW op PROVE Asked(n, more, op, title) = Asked(n - 1, calls, op, title)
    BY <1>1, <1>2, <2>1, AskedByOther
  <2>3. Carries(d.graphs[i], n - 1, calls)
    BY DEF Shows
  <2> QED
    BY <2>2, <2>3 DEF Carries, title
<1> HIDE DEF e
<1>8. Shows(e, n, more)
  <2>1. OneOfATitle(e) /\ GraphTitles(e) = GraphTitles(d)
    BY <1>4 DEF Shows, OneOfATitle, GraphTitles
  <2>2. e.options = OptionsOf(more) /\ GraphTitles(d) = TitlesOf(more)
    BY <1>4, <1>5, <1>6 DEF Shows
  <2>3. Len(e.graphs) <= e.graph_capacity /\ \A i \in DOMAIN e.graphs : Carries(e.graphs[i], n, more)
    BY <1>4, <1>7 DEF Shows
  <2> QED
    BY <1>4, <2>1, <2>2, <2>3 DEF Shows
<1>9. CASE r = Returns(d, FALSE)
  BY <1>9, ShowsAfterFailure DEF Returns
<1>10. CASE r = Returns(e, TRUE)
  BY <1>8, <1>10 DEF Returns
<1> QED
  BY <1>3, <1>9, <1>10

\* A marker, a span or a colour goes to the graph of that title.
LEMMA ShowsDecorated ==
    ASSUME NEW n \in 1 .. 19, NEW calls \in SUBSET (1 .. n - 1), NEW d, Shows(d, n - 1, calls),
           NEW i \in findGraphByTitle(d, Setup[n].on),
           NEW r, \/ /\ Setup[n].op = "vert"
                     /\ \E a \in Appends(d.graphs[i].verts, Setup[n].item) :
                           r = Returns([d EXCEPT !.graphs[i].verts = a.display], a.ok)
                  \/ /\ Setup[n].op = "span"
                     /\ \E a \in Appends(d.graphs[i].spans, Setup[n].item) :
                           r = Returns([d EXCEPT !.graphs[i].spans = a.display], a.ok)
                  \/ /\ Setup[n].op = "color"
                     /\ \/ r = Returns(d, FALSE)
                        \/ r = Returns([d EXCEPT !.graphs[i].colored = TRUE], TRUE)
    PROVE  Shows(r.display, n, IF r.ok THEN calls \cup {n} ELSE calls)
<1> DEFINE f == d.graphs[i]
           title == Setup[n].on
           item == Setup[n].item
           more(ok) == IF ok THEN calls \cup {n} ELSE calls
<1>1. /\ i \in DOMAIN d.graphs /\ f \in Graph /\ f.title = title /\ Carries(f, n - 1, calls)
      /\ d \in [graphs : Seq(Graph), graph_capacity : Nat, options : SUBSET Items]
      /\ item \in Items
  <2>1. d.graphs \in Seq(Graph) /\ i \in DOMAIN d.graphs
    BY DEF Shows, DisplayType, findGraphByTitle
  <2>2. f \in Graph
    BY <2>1
  <2> QED
    BY <2>1, <2>2, SetupFacts DEF Shows, DisplayType, findGraphByTitle
<1>2. ASSUME NEW ok \in BOOLEAN
      PROVE  /\ more(ok) \in {calls, calls \cup {n}}
             /\ ok => n \in more(ok)
             /\ \A k \in 1 .. n - 1 : k \in calls <=> k \in more(ok)
             /\ ok \/ more(ok) = calls
  OBVIOUS
<1>3. n \notin calls
  OBVIOUS
<1> HIDE DEF title, item, more
<1>4. ASSUME NEW g \in Graph, g.title = title, NEW ok \in BOOLEAN, Carries(g, n, more(ok)),
             r.display = [d EXCEPT !.graphs[i] = g], r.ok = ok
      PROVE  Shows(r.display, n, IF r.ok THEN calls \cup {n} ELSE calls)
  <2>1. more(ok) \in {calls, calls \cup {n}} /\ g.title = d.graphs[i].title /\ Setup[n].on = g.title
    BY <1>1, <1>2, <1>4 DEF title
  <2> DEFINE set == more(ok)
  <2>2. set \in SUBSET (1 .. n) /\ Carries(g, n, set)
    BY <1>4, <2>1
  <2>3. \A k \in 1 .. n - 1 : k \in calls <=> k \in set
    BY <1>2, <1>4
  <2>4. i \in DOMAIN d.graphs /\ g \in Graph
    BY <1>1, <1>4
  <2> HIDE DEF set
  <2>5. Shows([d EXCEPT !.graphs[i] = g], n, set)
    BY <2>1, <2>2, <2>3, <2>4, ShowsReplaced
  <2> QED
    BY <1>4, <2>5, Zenon DEF set, more
<1>5. ASSUME NEW op, op # Setup[n].op, NEW ok \in BOOLEAN
      PROVE  Asked(n, more(ok), op, title) = Asked(n - 1, calls, op, title)
  <2> DEFINE set == more(ok)
  <2>1. \A k \in 1 .. n - 1 : k \in calls <=> k \in set
    BY <1>2
  <2> HIDE DEF set
  <2>2. Asked(n, set, op, title) = Asked(n - 1, calls, op, title)
    BY <1>5, <2>1, AskedByOther
  <2> QED
    BY <2>2 DEF set
<1>6. ASSUME NEW ok \in BOOLEAN
      PROVE  Asked(n, more(ok), Setup[n].op, title)
               = IF ok THEN Append(Asked(n - 1, calls, Setup[n].op, title), item)
                       ELSE Asked(n - 1, calls, Setup[n].op, title)
  <2> DEFINE set == more(ok)
             op == Setup[n].op
  <2>1. (ok => n \in set) /\ \A k \in 1 .. n - 1 : k \in calls <=> k \in set
    BY <1>2
  <2>2. CASE ok
    <3>1. n \in set
      BY <2>1, <2>2
    <3>2. \A k \in 1 .. n - 1 : k \in calls <=> k \in set
      BY <2>1
    <3> HIDE DEF set
    <3>3. Asked(n, set, Setup[n].op, Setup[n].on)
            = Append(Asked(n - 1, calls, Setup[n].op, Setup[n].on), Setup[n].item)
      BY <3>1, <3>2, AskedBySuccess
    <3> QED
      BY <2>2, <3>3 DEF set, title, item
  <2>3. CASE ~ok
    <3>1. set = calls
      BY <1>2, <2>3
    <3> HIDE DEF set, op
    <3>2. Asked(n, calls, op, title) = Asked(n - 1, calls, op, title)
      BY <1>3, AskedByFailure
    <3> QED
      BY <2>3, <3>1, <3>2 DEF set, op
  <2> QED
    BY <2>2, <2>3
<1>7. /\ f.verts \in Array /\ f.spans \in Array /\ f.colored \in BOOLEAN /\ f.title \in Titles
      /\ f = [title |-> f.title, colored |-> f.colored, verts |-> f.verts, spans |-> f.spans]
  BY <1>1 DEF Graph
<1>8. /\ f.verts.items = Asked(n - 1, calls, "vert", title)
      /\ f.spans.items = Asked(n - 1, calls, "span", title)
      /\ f.colored = (Asked(n - 1, calls, "color", title) # <<>>)
      /\ Len(f.verts.items) <= f.verts.cap /\ Len(f.spans.items) <= f.spans.cap
  BY <1>1 DEF Carries
<1>9. ASSUME Setup[n].op = "vert", NEW a \in Appends(f.verts, item),
             r = Returns([d EXCEPT !.graphs[i].verts = a.display], a.ok)
      PROVE  Shows(r.display, n, IF r.ok THEN calls \cup {n} ELSE calls)
  <2> DEFINE g == [title |-> f.title, colored |-> f.colored, verts |-> a.display, spans |-> f.spans]
             ok == a.ok
  <2>1. /\ a.display \in Array /\ Len(a.display.items) <= a.display.cap /\ ok \in BOOLEAN
        /\ a.display.items = IF ok THEN Append(f.verts.items, item) ELSE f.verts.items
    BY <1>1, <1>7, <1>8, AppendsIs
  <2>2. r.display = [d EXCEPT !.graphs[i] = g] /\ r.ok = ok
    <3>1. [d EXCEPT !.graphs[i].verts = a.display] = [d EXCEPT !.graphs[i] = [f EXCEPT !.verts = a.display]]
      OBVIOUS
    <3>2. [f EXCEPT !.verts = a.display] = g
      <4> HIDE DEF f
      <4> QED
        BY <1>7
    <3> QED
      BY <3>1, <3>2, <1>9 DEF Returns
  <2>3. g \in Graph /\ g.title = title
    BY <1>1, <1>7, <2>1 DEF Graph
  <2>4. g.verts.items = Asked(n, more(ok), "vert", title)
    BY <1>6, <1>8, <1>9, <2>1
  <2>5. g.spans.items = Asked(n, more(ok), "span", title)
    BY <1>5, <1>8, <1>9, <2>1
  <2>6. g.colored = (Asked(n, more(ok), "color", title) # <<>>)
    <3>1. Asked(n, more(ok), "color", title) = Asked(n - 1, calls, "color", title)
      BY <1>5, <1>9, <2>1
    <3> QED
      BY <1>8, <3>1
  <2>7. Len(g.verts.items) <= g.verts.cap /\ Len(g.spans.items) <= g.spans.cap
    BY <1>8, <2>1
  <2> HIDE DEF g, ok
  <2>8. Carries(g, n, more(ok))
    BY <2>3, <2>4, <2>5, <2>6, <2>7 DEF Carries
  <2> QED
    BY <1>4, <2>1, <2>2, <2>3, <2>8
<1>10. ASSUME Setup[n].op = "span", NEW a \in Appends(f.spans, item),
              r = Returns([d EXCEPT !.graphs[i].spans = a.display], a.ok)
       PROVE  Shows(r.display, n, IF r.ok THEN calls \cup {n} ELSE calls)
  <2> DEFINE g == [title |-> f.title, colored |-> f.colored, verts |-> f.verts, spans |-> a.display]
             ok == a.ok
  <2>1. /\ a.display \in Array /\ Len(a.display.items) <= a.display.cap /\ ok \in BOOLEAN
        /\ a.display.items = IF ok THEN Append(f.spans.items, item) ELSE f.spans.items
    BY <1>1, <1>7, <1>8, AppendsIs
  <2>2. r.display = [d EXCEPT !.graphs[i] = g] /\ r.ok = ok
    <3>1. [d EXCEPT !.graphs[i].spans = a.display] = [d EXCEPT !.graphs[i] = [f EXCEPT !.spans = a.display]]
      OBVIOUS
    <3>2. [f EXCEPT !.spans = a.display] = g
      <4> HIDE DEF f
      <4> QED
        BY <1>7
    <3> QED
      BY <3>1, <3>2, <1>10 DEF Returns
  <2>3. g \in Graph /\ g.title = title
    BY <1>1, <1>7, <2>1 DEF Graph
  <2>4. g.spans.items = Asked(n, more(ok), "span", title)
    BY <1>6, <1>8, <1>10, <2>1
  <2>5. g.verts.items = Asked(n, more(ok), "vert", title)
    BY <1>5, <1>8, <1>10, <2>1
  <2>6. g.colored = (Asked(n, more(ok), "color", title) # <<>>)
    <3>1. Asked(n, more(ok), "color", title) = Asked(n - 1, calls, "color", title)
      BY <1>5, <1>10, <2>1
    <3> QED
      BY <1>8, <3>1
  <2>7. Len(g.verts.items) <= g.verts.cap /\ Len(g.spans.items) <= g.spans.cap
    BY <1>8, <2>1
  <2> HIDE DEF g, ok
  <2>8. Carries(g, n, more(ok))
    BY <2>3, <2>4, <2>5, <2>6, <2>7 DEF Carries
  <2> QED
    BY <1>4, <2>1, <2>2, <2>3, <2>8
<1>11. ASSUME Setup[n].op = "color", r = Returns([d EXCEPT !.graphs[i].colored = TRUE], TRUE)
       PROVE  Shows(r.display, n, IF r.ok THEN calls \cup {n} ELSE calls)
  <2> DEFINE g == [title |-> f.title, colored |-> TRUE, verts |-> f.verts, spans |-> f.spans]
  <2>1. r.display = [d EXCEPT !.graphs[i] = g] /\ r.ok = TRUE
    <3>1. [d EXCEPT !.graphs[i].colored = TRUE] = [d EXCEPT !.graphs[i] = [f EXCEPT !.colored = TRUE]]
      OBVIOUS
    <3>2. [f EXCEPT !.colored = TRUE] = g
      <4> HIDE DEF f
      <4>1. \A h \in Graph, v \in BOOLEAN :
               [h EXCEPT !.colored = v]
                 = [title |-> h.title, colored |-> v, verts |-> h.verts, spans |-> h.spans]
        BY DEF Graph
      <4> QED
        BY <1>1, <4>1, Zenon
    <3> QED
      BY <3>1, <3>2, <1>11 DEF Returns
  <2>2. g \in Graph /\ g.title = title
    BY <1>1, <1>7 DEF Graph
  <2>3. g.verts.items = Asked(n, more(TRUE), "vert", title)
    BY <1>5, <1>8, <1>11
  <2>4. g.spans.items = Asked(n, more(TRUE), "span", title)
    BY <1>5, <1>8, <1>11
  <2>5. g.colored = (Asked(n, more(TRUE), "color", title) # <<>>)
    <3> DEFINE asked == Asked(n - 1, calls, "color", title)
    <3>1. asked \in Seq(Items)
      <4> n - 1 \in 0 .. 19
        OBVIOUS
      <4> QED
        BY AskedType
    <3>2. Asked(n, more(TRUE), "color", title) = Append(asked, item)
      BY <1>6, <1>11
    <3> HIDE DEF asked
    <3>3. Append(asked, item) # <<>>
      <4>1. item \in Items
        BY <1>1
      <4> QED
        BY <3>1, <4>1
    <3> QED
      BY <3>2, <3>3
  <2>6. Len(g.verts.items) <= g.verts.cap /\ Len(g.spans.items) <= g.spans.cap
    BY <1>8
  <2> HIDE DEF g
  <2>7. Carries(g, n, more(TRUE))
    BY <2>2, <2>3, <2>4, <2>5, <2>6 DEF Carries
  <2> QED
    BY <1>4, <2>1, <2>2, <2>7
<1>12. ASSUME r = Returns(d, FALSE) PROVE Shows(r.display, n, IF r.ok THEN calls \cup {n} ELSE calls)
  BY <1>12, ShowsAfterFailure DEF Returns
<1> QED
  BY <1>9, <1>10, <1>11, <1>12 DEF item

\* Every call but that for a link, whether it returns 1 or 0 and whether or not
\* its graph exists.
LEMMA ShowsCalled ==
    ASSUME NEW n \in 1 .. 19, NEW calls \in SUBSET (1 .. n - 1), NEW d, Shows(d, n - 1, calls),
           Setup[n].op # "nav", NEW r \in Outcomes(d, Setup[n])
    PROVE  Shows(r.display, n, IF r.ok THEN calls \cup {n} ELSE calls)
<1> DEFINE call == Setup[n]
           found == CASE call.op = "graph" -> loggerWebInsertGraphSeries(d, call.on)
                      [] call.op = "vert" -> loggerWebShowVerts(d, call.on, call.item)
                      [] call.op = "span" -> loggerWebShowSpan(d, call.on, call.item)
                      [] call.op = "color" -> loggerWebSetGraphSeriesColor(d, call.on)
                      [] call.op = "today" -> loggerWebShowToday(d)
                      [] call.op = "set" -> SetOption(d, call.item)
<1>1. r = Returns(d, FALSE) \/ r \in found
  <2>1. Outcomes(d, call) = IF found = {} THEN {Returns(d, FALSE)} ELSE found
    BY DEF Outcomes
  <2> HIDE DEF found
  <2> QED
    BY <2>1
<1>2. call.op \in {"graph", "vert", "span", "color", "today", "set"}
  BY SetupFacts DEF Ops
<1>3. CASE r = Returns(d, FALSE)
  BY <1>3, ShowsAfterFailure DEF Returns
<1>4. CASE call.op = "graph" /\ r \in found
  <2>1. r \in loggerWebInsertGraphSeries(d, Setup[n].on)
    BY <1>4
  <2> QED
    BY <1>4, <2>1, ShowsInserted
<1>5. CASE call.op = "vert" /\ r \in found
  <2>1. r \in loggerWebShowVerts(d, Setup[n].on, Setup[n].item)
    BY <1>5
  <2>2. PICK i \in findGraphByTitle(d, Setup[n].on) :
           \E a \in Appends(d.graphs[i].verts, Setup[n].item) :
              r = Returns([d EXCEPT !.graphs[i].verts = a.display], a.ok)
    BY <2>1 DEF loggerWebShowVerts
  <2> QED
    BY <1>5, <2>2, ShowsDecorated
<1>6. CASE call.op = "span" /\ r \in found
  <2>1. r \in loggerWebShowSpan(d, Setup[n].on, Setup[n].item)
    BY <1>6
  <2>2. PICK i \in findGraphByTitle(d, Setup[n].on) :
           \E a \in Appends(d.graphs[i].spans, Setup[n].item) :
              r = Returns([d EXCEPT !.graphs[i].spans = a.display], a.ok)
    BY <2>1 DEF loggerWebShowSpan
  <2> QED
    BY <1>6, <2>2, ShowsDecorated
<1>7. CASE call.op = "color" /\ r \in found
  <2>1. r \in loggerWebSetGraphSeriesColor(d, Setup[n].on)
    BY <1>7
  <2>2. PICK i \in findGraphByTitle(d, Setup[n].on) :
           r = Returns(d, FALSE) \/ r = Returns([d EXCEPT !.graphs[i].colored = TRUE], TRUE)
    BY <2>1 DEF loggerWebSetGraphSeriesColor
  <2> QED
    BY <1>7, <2>2, ShowsDecorated
<1>8. CASE call.op \in {"set", "today"} /\ r \in found
  <2>1. \/ Setup[n].op = "set" /\ r \in SetOption(d, Setup[n].item)
        \/ Setup[n].op = "today" /\ r \in loggerWebShowToday(d)
    BY <1>8
  <2> QED
    BY <1>8, <2>1, ShowsOption
<1> QED
  BY <1>1, <1>2, <1>3, <1>4, <1>5, <1>6, <1>7, <1>8

\* A call for a link leaves the display alone.
LEMMA ShowsLinked ==
    ASSUME NEW n \in 1 .. 19, NEW calls \in SUBSET (1 .. n - 1), NEW d, Shows(d, n - 1, calls),
           Setup[n].op = "nav", NEW ok \in BOOLEAN
    PROVE  Shows(d, n, IF ok THEN calls \cup {n} ELSE calls)
<1> DEFINE more == calls \cup {n}
<1>1. /\ n \in more /\ \A i \in 1 .. n - 1 : i \in calls <=> i \in more
      /\ Setup[n].on = "viewer"
  <2>1. Setup[n].on = "viewer"
    BY SetupFacts
  <2> QED
    BY <2>1
<1>2. TitlesOf(more) = TitlesOf(calls) /\ OptionsOf(more) = OptionsOf(calls)
  BY <1>1 DEF TitlesOf, OptionsOf
<1>3. ASSUME NEW i \in DOMAIN d.graphs PROVE Carries(d.graphs[i], n, more)
  <2> DEFINE title == d.graphs[i].title
  <2>1. \A op : op \in {"vert", "span", "color"} => Setup[n].op # op
    OBVIOUS
  <2> HIDE DEF title, more
  <2>2. ASSUME NEW op \in {"vert", "span", "color"}
        PROVE  Asked(n, more, op, title) = Asked(n - 1, calls, op, title)
    BY <1>1, <2>1, AskedByOther
  <2>3. Carries(d.graphs[i], n - 1, calls)
    BY DEF Shows
  <2> QED
    BY <2>2, <2>3 DEF Carries, title
<1>4. Shows(d, n, more)
  BY <1>2, <1>3 DEF Shows
<1>5. Shows(d, n, calls)
  BY ShowsAfterFailure
<1> QED
  BY <1>4, <1>5

-----------------------------------------------------------------------------
(* The number of links.                                                    *)

Links(n, calls) == Len(Asked(n, calls, "nav", "viewer"))

\* A call that fails and one that asks for something else add no link, the
\* others one.
LEMMA LinksAre ==
    ASSUME NEW n \in 1 .. 19, NEW calls \in SUBSET (1 .. n - 1)
    PROVE  /\ Links(n, calls) = Links(n - 1, calls)
           /\ Links(n, calls \cup {n})
                = IF Setup[n].op = "nav" THEN Links(n - 1, calls) + 1 ELSE Links(n - 1, calls)
<1> DEFINE more == calls \cup {n}
           asked == Asked(n - 1, calls, "nav", "viewer")
<1>1. n \in more /\ n \notin calls /\ \A i \in 1 .. n - 1 : i \in calls <=> i \in more
  OBVIOUS
<1>2. Links(n, calls) = Links(n - 1, calls)
  BY <1>1, AskedByFailure DEF Links
<1> HIDE DEF more
<1>3. CASE Setup[n].op = "nav"
  <2>1. Setup[n].on = "viewer"
    BY <1>3, SetupFacts
  <2>2. Asked(n, more, Setup[n].op, Setup[n].on)
          = Append(Asked(n - 1, calls, Setup[n].op, Setup[n].on), Setup[n].item)
    BY <1>1, AskedBySuccess
  <2>3. Asked(n, more, "nav", "viewer") = Append(asked, Setup[n].item)
    BY <1>3, <2>1, <2>2
  <2>4. asked \in Seq(Items)
    <3>1. n - 1 \in 0 .. 19
      OBVIOUS
    <3> QED
      BY <3>1, AskedType
  <2> HIDE DEF asked
  <2>5. Len(Append(asked, Setup[n].item)) = Len(asked) + 1
    BY <2>4
  <2>6. Links(n, more) = Links(n - 1, calls) + 1
    BY <2>3, <2>5 DEF Links, asked
  <2> QED
    BY <1>2, <1>3, <2>6 DEF more
<1>4. CASE Setup[n].op # "nav"
  <2>1. Asked(n, more, "nav", "viewer") = asked
    BY <1>1, <1>4, AskedByOther
  <2> QED
    BY <1>2, <1>4, <2>1 DEF Links, more
<1> QED
  BY <1>3, <1>4

-----------------------------------------------------------------------------
(* What is set up is shown.                                                *)

\* Before the start of the server nothing has been set up.
Fresh == display = NoDisplay /\ nav = NoNav /\ setup = 1 /\ done = {}

\* While the server is published, its display and its links are those of the
\* calls made so far.
DInv ==
    /\ setup \in 1 .. 20 /\ done \in SUBSET (1 .. setup - 1)
    /\ main \in {"config", "lock", "curl", "log"} \/ driver = "starting" => Fresh
    /\ driver = "on" => Shows(display, setup - 1, done) /\ nav.count = Links(setup - 1, done)

\* Nothing is shown before the first call.
LEMMA ShowsNothing == Shows(NoDisplay, 0, {}) /\ Links(0, {}) = 0
<1>1. <<>> \in Seq(Graph) /\ DOMAIN <<>> = {} /\ Len(<<>>) = 0
  OBVIOUS
<1>2. /\ NoDisplay.graphs = <<>> /\ NoDisplay.options = {} /\ NoDisplay.graph_capacity = 0
      /\ DisplayType(NoDisplay)
  BY <1>1 DEF NoDisplay, DisplayType
<1>3. GraphTitles(NoDisplay) = {} /\ TitlesOf({}) = {} /\ OptionsOf({}) = {}
  BY <1>1, <1>2 DEF GraphTitles, TitlesOf, OptionsOf
<1>4. Shows(NoDisplay, 0, {})
  <2> DEFINE d == NoDisplay
  <2> HIDE DEF d
  <2>1. DOMAIN d.graphs = {} /\ Len(d.graphs) = 0 /\ d.graph_capacity = 0 /\ d.options = {}
        /\ DisplayType(d) /\ GraphTitles(d) = {}
    BY <1>1, <1>2, <1>3 DEF d
  <2>2. Shows(d, 0, {})
    BY <1>3, <2>1 DEF Shows, OneOfATitle
  <2> QED
    BY <2>2 DEF d
<1>5. Links(0, {}) = 0
  BY <1>1, AskedNext DEF Links
<1> QED
  BY <1>4, <1>5

\* Every call of the set-up keeps the display and the links in step.
LEMMA ConfiguresKept == ASSUME IInv, DInv, MainConfigures PROVE DInv'
<1>1. PICK r \in Outcomes(display, Setup[setup]) : display' = r.display /\ Called(r.ok)
  BY DEF MainConfigures
<1>2. setup \in DOMAIN Setup /\ Setup[setup].op # "nav" /\ driver = "on"
      /\ UNCHANGED vars /\ UNCHANGED main
  BY DEF MainConfigures
<1>3. /\ setup \in 1 .. 19 /\ done \in SUBSET (1 .. setup - 1)
      /\ setup' = setup + 1 /\ done' = IF r.ok THEN done \cup {setup} ELSE done
  BY <1>1, <1>2, SetupFacts DEF Called, DInv
<1>4. Shows(r.display, setup, IF r.ok THEN done \cup {setup} ELSE done)
  BY <1>2, <1>3, ShowsCalled DEF DInv
<1>5. setup' - 1 = setup /\ setup' \in 1 .. 20
  BY <1>3
<1>6. done' \in SUBSET (1 .. setup' - 1)
  BY <1>3, <1>5
<1>7. Shows(display', setup' - 1, done')
  BY <1>1, <1>3, <1>4, <1>5
<1>8. Links(setup' - 1, done') = Links(setup - 1, done)
  <2>1. done' = done \/ done' = done \cup {setup}
    BY <1>3
  <2> QED
    BY <1>2, <1>3, <1>5, <2>1, LinksAre
<1>9. nav' = nav /\ driver' = "on" /\ main' = main
  BY <1>2 DEF vars
<1>10. main \notin {"config", "lock", "curl", "log"}
  BY <1>2 DEF IInv, MInv
<1> QED
  BY <1>2, <1>5, <1>6, <1>7, <1>8, <1>9, <1>10 DEF DInv

\* So does a call for a link, which counts as done when the count has grown.
LEMMA AddsLinkKept == ASSUME IInv, DInv, MainAddsLink PROVE DInv'
<1> DEFINE ok == nav'.count > nav.count
           room == IF nav.count = nav.cap
                     THEN [nav EXCEPT !.cap = Capacity(@), !.moves = @ + 1] ELSE nav
<1>1. /\ setup \in DOMAIN Setup /\ Setup[setup].op = "nav" /\ driver = "on" /\ driver' = "on"
      /\ Called(ok) /\ AddNavLink /\ display' = display /\ main' = main
  BY DEF MainAddsLink, AddNavLink
<1>2. /\ setup \in 1 .. 19 /\ done \in SUBSET (1 .. setup - 1)
      /\ setup' = setup + 1 /\ done' = IF ok THEN done \cup {setup} ELSE done
  BY <1>1, SetupFacts DEF Called, DInv
<1>3. nav.count \in 0 .. 4 /\ (nav'.count = nav.count \/ nav'.count = nav.count + 1)
  <2>1. nav \in [count : 0 .. 4, cap : {0, 4}, moves : 0 .. 1]
    BY DEF IInv, WInv, TypeOK
  <2>2. nav' \in {nav, room, [room EXCEPT !.count = @ + 1]}
    BY <1>1 DEF AddNavLink
  <2>3. room.count = nav.count /\ [room EXCEPT !.count = @ + 1].count = nav.count + 1
    <3>1. CASE nav.count = nav.cap
      <4> DEFINE wide == [nav EXCEPT !.cap = Capacity(@)]
                 moved == [wide EXCEPT !.moves = @ + 1]
      <4>1. wide \in [count : 0 .. 4, cap : {Capacity(nav.cap)}, moves : 0 .. 1] /\ wide.count = nav.count
        BY <2>1
      <4>2. moved \in [count : 0 .. 4, cap : {Capacity(nav.cap)}, moves : 1 .. 2] /\ moved.count = nav.count
        <5> HIDE DEF wide
        <5> QED
          BY <4>1
      <4>3. room = moved
        BY <3>1
      <4> HIDE DEF room, moved
      <4> QED
        BY <4>2, <4>3
    <3>2. CASE nav.count # nav.cap
      <4>1. room = nav
        BY <3>2
      <4> HIDE DEF room
      <4> QED
        BY <2>1, <4>1
    <3> QED
      BY <3>1, <3>2
  <2> HIDE DEF room
  <2> QED
    BY <2>1, <2>2, <2>3
<1>4. ok \in BOOLEAN /\ nav'.count = nav.count + (IF ok THEN 1 ELSE 0)
  BY <1>3
<1> HIDE DEF ok
<1>5. setup' - 1 = setup /\ setup' \in 1 .. 20
  BY <1>2
<1>6. done' \in SUBSET (1 .. setup' - 1)
  BY <1>2, <1>5
<1>7. Shows(display', setup' - 1, done')
  <2>1. Shows(display, setup - 1, done)
    BY <1>1 DEF DInv
  <2>2. Shows(display, setup, IF ok THEN done \cup {setup} ELSE done)
    BY <1>1, <1>2, <1>4, <2>1, ShowsLinked
  <2> QED
    BY <1>1, <1>2, <1>5, <2>2
<1>8. Links(setup' - 1, done') = Links(setup - 1, done) + (IF ok THEN 1 ELSE 0)
  <2>1. Links(setup, done \cup {setup}) = Links(setup - 1, done) + 1
        /\ Links(setup, done) = Links(setup - 1, done)
    BY <1>1, <1>2, LinksAre
  <2>2. Links(setup - 1, done) = nav.count
    BY <1>1 DEF DInv
  <2> QED
    BY <1>2, <1>3, <1>4, <1>5, <2>1, <2>2
<1>9. nav'.count = Links(setup' - 1, done')
  BY <1>1, <1>4, <1>8 DEF DInv
<1>10. main \notin {"config", "lock", "curl", "log"}
  BY <1>1 DEF IInv, MInv
<1> QED
  BY <1>1, <1>5, <1>6, <1>7, <1>9, <1>10 DEF DInv

\* The other steps set up nothing: before the publication there is nothing, and
\* what is published is not stopped and freed before the next call.
LEMMA DInvStep == ASSUME IInv, DInv, [LifeNext]_lifeVars PROVE DInv'
<1>1. CASE MainConfig \/ MainLocks \/ MainCurl
  <2>1. /\ UNCHANGED <<driver, nav, setupVars>> /\ main \in {"config", "lock", "curl"}
        /\ driver = "off"
    BY <1>1 DEF MainConfig, MainLocks, MainCurl, vars, IInv, MInv
  <2> QED
    BY <2>1 DEF DInv, Fresh, setupVars
<1>2. CASE MainStartsWeb
  <2>1. main = "log" /\ driver' = "starting" /\ UNCHANGED <<nav, setupVars>>
    BY <1>2 DEF MainStartsWeb, StartCheck
  <2> QED
    BY <2>1 DEF DInv, Fresh, setupVars
<1>3. CASE MainPublishes
  <2>1. /\ driver = "starting" /\ driver' = "on" /\ main = "web" /\ main' = "web"
        /\ UNCHANGED <<nav, setupVars>>
    BY <1>3 DEF MainPublishes, Publish
  <2>2. Fresh /\ Fresh'
    BY <2>1 DEF DInv, Fresh, setupVars
  <2>3. NoNav.count = 0
    BY DEF NoNav
  <2>4. setup' - 1 = 0 /\ done' = {} /\ display' = NoDisplay /\ nav'.count = 0
    BY <2>2, <2>3 DEF Fresh
  <2>5. Shows(display', setup' - 1, done') /\ nav'.count = Links(setup' - 1, done')
    BY <2>4, ShowsNothing
  <2> QED
    BY <2>1, <2>2, <2>5 DEF DInv, Fresh
<1>4. CASE MainStarting
  <2>1. driver = "starting" /\ driver' \in {"starting", "off"} /\ UNCHANGED <<nav, setupVars>>
    BY <1>4 DEF MainStarting, StartStep, StartFails, mainVars
  <2> QED
    BY <2>1 DEF DInv, Fresh, setupVars
<1>5. CASE MainConfigures
  BY <1>5, ConfiguresKept
<1>6. CASE MainAddsLink
  BY <1>6, AddsLinkKept
<1>7. CASE MainStartsWorker \/ MainReleases \/ Exited \/ OtherProcess
  <2>1. /\ UNCHANGED <<driver, nav, setupVars>>
        /\ main' = main \/ main' \in {"poll", "destroyed", "exit", "gone"}
    BY <1>7 DEF MainStartsWorker, MainReleases, Exited, OtherProcess, vars
  <2> QED
    BY <2>1 DEF DInv, Fresh, setupVars
<1>8. CASE ExitStops
  <2>1. driver' = "close" /\ main' = "exit" /\ UNCHANGED setupVars
    BY <1>8 DEF ExitStops, StopTake
  <2> QED
    BY <2>1 DEF DInv, setupVars
<1>9. CASE Beside(ServerThreads)
  <2>1. UNCHANGED <<main, setup, done>>
        /\ display' = IF driver = "free" /\ driver' = "off" THEN NoDisplay ELSE display
    BY <1>9 DEF Beside
  <2>2. CASE Stop \/ SpuriousWake
    <3>1. driver \notin {"off", "on"} /\ driver' \notin {"on", "starting"}
      BY <2>2 DEF Stop, SpuriousWake, CloseSocket, Join, Drain, Destroy, FreeServer
    <3>2. main \notin {"config", "lock", "curl", "log"}
      BY <3>1 DEF IInv, MInv
    <3> QED
      BY <2>1, <3>1, <3>2 DEF DInv
  <2>3. CASE Loop \/ \E c \in Conn : Connect(c) \/ Client(c)
    <3>1. nav' = nav /\ (driver' = driver \/ (driver = "asleep" /\ driver' = "drain"))
      BY <2>3 DEF Loop, LoopTop, AcceptFails, StartClient, CreateClient, CreateFails,
         ServeInline, Accept, AcceptAborted, TakesBack, Uncount,
         Connect, Client, ReadNav, WantsPanel, Panel, Served, FinishClient, Unlock
    <3>2. display' = display
      BY <2>1, <3>1
    <3> QED
      BY <2>1, <3>1, <3>2 DEF DInv, Fresh
  <2> QED
    BY <1>9, <2>2, <2>3 DEF Beside, ServerThreads
<1>10. CASE UNCHANGED lifeVars
  BY <1>10 DEF lifeVars, vars, mainVars, setupVars, DInv, Fresh
<1> QED
  BY <1>1, <1>2, <1>3, <1>4, <1>5, <1>6, <1>7, <1>8, <1>9, <1>10 DEF LifeNext, Main

\* app_startup.c:66-130: whichever calls of the set-up fail, one or many, a page
\* shows what the others asked for.
THEOREM ShowsSucceeded == LifeSpec => []ShowsWhatSucceeded
<1>1. LifeInit => DInv
  BY DEF LifeInit, DInv, Fresh, Init
<1>2. DInv => ShowsWhatSucceeded
  <2> SUFFICES ASSUME DInv, driver = "on" PROVE ShowsWhatSucceeded
    BY DEF ShowsWhatSucceeded
  <2>1. Shows(display, setup - 1, done) /\ nav.count = Len(Succeeded("nav", "viewer"))
    BY SucceededIs DEF DInv, Links
  <2>2. ASSUME NEW i \in DOMAIN display.graphs
        PROVE  LET g == display.graphs[i]
               IN  /\ g.verts.items = Succeeded("vert", g.title)
                   /\ g.spans.items = Succeeded("span", g.title)
                   /\ g.colored = (Succeeded("color", g.title) # <<>>)
                   /\ Len(g.verts.items) <= g.verts.cap /\ Len(g.spans.items) <= g.spans.cap
    <3> DEFINE title == display.graphs[i].title
    <3>1. /\ Succeeded("vert", title) = Asked(setup - 1, done, "vert", title)
          /\ Succeeded("span", title) = Asked(setup - 1, done, "span", title)
          /\ Succeeded("color", title) = Asked(setup - 1, done, "color", title)
      BY SucceededIs
    <3>2. Carries(display.graphs[i], setup - 1, done)
      BY <2>1 DEF Shows
    <3> QED
      BY <3>1, <3>2 DEF Carries
  <2> QED
    BY <2>1, <2>2 DEF Shows, ShowsWhatSucceeded, OptionsOf, TitlesOf, GraphTitles
<1> QED
  BY <1>1, <1>2, DInvStep, LifeInvariance, PTL DEF LifeSpec

=============================================================================
