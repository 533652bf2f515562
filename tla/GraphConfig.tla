---------------------------- MODULE GraphConfig ----------------------------
(***************************************************************************)
(* What the viewer shows (graph/loggerWebGraphConfig.c and the setters of  *)
(* loggerWebToday.c and loggerWeb.c): graphs with their decorations, the   *)
(* Today panel and single options.  A call is one section of               *)
(* active_server_mutex; it takes a display to each of the displays it can  *)
(* leave, with the value it returns.  Column names and colours are left    *)
(* out; an allocation may fail.                                            *)
(***************************************************************************)
EXTENDS Integers, Sequences

NoDisplay == [graphs |-> <<>>, graph_capacity |-> 0, options |-> {}]

NewGraph(title) ==
    [title |-> title, colored |-> FALSE,
     verts |-> [items |-> <<>>, cap |-> 0], spans |-> [items |-> <<>>, cap |-> 0]]

Grown(count, cap, first) ==
    IF count < cap THEN cap ELSE IF cap = 0 THEN first ELSE cap * 2

Returns(d, ok) == [display |-> d, ok |-> ok]

\* Everything is allocated before the array grows.
loggerWebInsertGraphSeries(d, title) ==
    {Returns(d, FALSE),
     Returns([d EXCEPT !.graphs = Append(@, NewGraph(title)),
                       !.graph_capacity = Grown(Len(d.graphs), @, 4)], TRUE)}

\* Mutant: the latest graph, whatever its title.
findGraphByTitle_Latest(d, title) == {i \in DOMAIN d.graphs : i = Len(d.graphs)}

\* The first graph of that title, if any.
findGraphByTitle(d, title) ==
    {i \in DOMAIN d.graphs :
        /\ d.graphs[i].title = title
        /\ \A j \in 1 .. i - 1 : d.graphs[j].title # title}

\* appendGraphVert and appendGraphSpan: the array may have grown when a string
\* cannot be copied; the count follows the entry.
Appends(array, item) ==
    LET room == [array EXCEPT !.cap = Grown(Len(array.items), @, 2)]
    IN  {Returns(array, FALSE), Returns(room, FALSE),
         Returns([room EXCEPT !.items = Append(@, item)], TRUE)}

loggerWebShowVerts(d, title, value) ==
    UNION {{Returns([d EXCEPT !.graphs[i].verts = r.display], r.ok) :
                r \in Appends(d.graphs[i].verts, value)} : i \in findGraphByTitle(d, title)}

loggerWebShowSpan(d, title, value) ==
    UNION {{Returns([d EXCEPT !.graphs[i].spans = r.display], r.ok) :
                r \in Appends(d.graphs[i].spans, value)} : i \in findGraphByTitle(d, title)}

loggerWebSetGraphSeriesColor(d, title) ==
    UNION {{Returns(d, FALSE), Returns([d EXCEPT !.graphs[i].colored = TRUE], TRUE)} :
           i \in findGraphByTitle(d, title)}

\* The new columns are built before the old ones are freed, which also takes
\* the status provider with them.
loggerWebShowToday(d) ==
    {Returns(d, FALSE),
     Returns([d EXCEPT !.options = (@ \ {"status"}) \cup {"today"}], TRUE)}

\* show_stats, the status provider, the controls, the root directory and the
\* access poller are assignments.
SetOption(d, option) == {Returns([d EXCEPT !.options = @ \cup {option}], TRUE)}

\* A call, and what is left of it when the graph it names does not exist.
Outcomes(d, call) ==
    LET found == CASE call.op = "graph" -> loggerWebInsertGraphSeries(d, call.on)
                   [] call.op = "vert" -> loggerWebShowVerts(d, call.on, call.item)
                   [] call.op = "span" -> loggerWebShowSpan(d, call.on, call.item)
                   [] call.op = "color" -> loggerWebSetGraphSeriesColor(d, call.on)
                   [] call.op = "today" -> loggerWebShowToday(d)
                   [] call.op = "set" -> SetOption(d, call.item)
    IN  IF found = {} THEN {Returns(d, FALSE)} ELSE found

-----------------------------------------------------------------------------
(* The calls of appStartLoggerWebOnPort, in order.                         *)

Do(op, on, item) == [op |-> op, on |-> on, item |-> item]

Decorate(title) ==
    <<Do("vert", title, "open notif"), Do("vert", title, "close notif"),
      Do("vert", title, "fan auto off"), Do("span", title, "open notif")>>

\* Mutant: the provider is set before the panel.
webControlsConfigureToday_StatusFirst ==
    <<Do("set", "viewer", "status"), Do("today", "viewer", "today"), Do("set", "viewer", "controls")>>

webControlsConfigureToday ==
    <<Do("today", "viewer", "today"), Do("set", "viewer", "status"), Do("set", "viewer", "controls")>>

Setup ==
    <<Do("graph", "Temperature Overlay", "graph")>> \o Decorate("Temperature Overlay")
    \o <<Do("graph", "Power", "graph"), Do("color", "Power", "color")>> \o Decorate("Power")
    \o <<Do("set", "viewer", "stats")>> \o webControlsConfigureToday
    \o <<Do("set", "viewer", "root"), Do("set", "viewer", "poller"),
         Do("nav", "viewer", "Airscape"), Do("nav", "viewer", "Surprise Me")>>

=============================================================================
