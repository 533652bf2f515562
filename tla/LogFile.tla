------------------------------ MODULE LogFile ------------------------------
(***************************************************************************)
(* The log file (logger/logger.c) under its writers, the trimmer and a     *)
(* browser that keeps asking for the graph data (loggerWebGraphJson.c,     *)
(* js/loggerWebGraph.js).  Writers and the trimmer share logger_mutex;     *)
(* readers open the file without it and follow an inode.  A disk that is   *)
(* full leaves part of a row, a row without its newline or nothing; a page *)
(* may fail to read; the process may be killed.                            *)
(***************************************************************************)
EXTENDS LogPages

CONSTANTS Thread,         \* the threads that log
          Poller,         \* the one that also trims
          Free,           \* nobody holds logger_mutex
          Rows,           \* per thread: what it logs, num and event
          retention_days, LOG_TRIM_INTERVAL_SECONDS,
          MaxMishaps,     \* full disks, failing renames and readings, kills
          MaxNow, MaxRows,
          MaxRowsViewed   \* bound on the rows while a browser has the page

ASSUME LogAssumption ==
    /\ Poller \in Thread /\ Free \notin Thread
    /\ retention_days \in Nat /\ LOG_TRIM_INTERVAL_SECONDS \in Nat \ {0}
    /\ MaxMishaps \in Nat /\ MaxNow \in Nat
    /\ MaxRows \in Nat /\ MaxRowsViewed \in Nat

\* A row has all readings or none ("-" in every column); of all threads only the
\* worker logs what it notified.
ASSUME RowsAssumption ==
    \A t \in Thread : \A what \in Rows[t] :
        /\ what.num \in [{} -> Int] \cup [Columns \cup {FanSpeed} -> Int]
        /\ what.event # "torn"
        /\ \A u \in Thread : (\E other \in Rows[u] : Notif(what) /\ Notif(other)) => t = u

VARIABLES now,
          process,        \* "down" | "starting" | "up"
          log,            \* the file at the log's path
          inode,          \* how often another file was renamed to it
          temp,           \* the copy that the trimmer renames
          thread,         \* per thread: where it is and the row it stamped
          logger_mutex,
          last_trim,      \* lastLogTrimTime of the poller
          mishaps, rows,  \* how many there have been
          page,           \* the request for the graph data
          cache,          \* what the browser shows
          kept, tail,     \* history: the rows on lines of their own; whether
                        \* the last line is "clean", a "row" that lacks only
                        \* its newline, or "part" of one
        cutoff, hurt    \* history: the oldest time the last trim kept; a
                        \* trim whose copy was cut off

files == <<log, inode, temp>>
writers == <<process, thread, logger_mutex, last_trim, mishaps, rows>>
browser == <<page, cache>>
history == <<kept, tail, cutoff, hurt>>
vars == <<now, files, writers, browser, history>>

\* A file: its lines, whether the last one lacks its newline, and the second of
\* its last change.
Empty == [lines |-> <<>>, ragged |-> FALSE, mtime |-> 0]

Row(what, ts) == [ts |-> ts, num |-> what.num, event |-> what.event, len |-> 3]
Startup(ts) == Row([num |-> NoNum, event |-> "startup"], ts)

\* The part of a row that a write may leave: the row without its newline still
\* parses, anything shorter is torn.
Unended(row) == [row EXCEPT !.len = 2]
Parts(line) == {Torn(1)} \cup (IF Parses(line) THEN {Unended(line)} ELSE {})

\* What a write appends runs into a last line without its newline.
Joined(lines) == [lines EXCEPT ![Len(lines)] = Torn(lines[Len(lines)].len + 1)]

Onto(file, line) == IF file.ragged THEN Joined(file.lines) ELSE Append(file.lines, line)

AppendWhole(file, row) == [lines |-> Onto(file, row), ragged |-> FALSE, mtime |-> now]
AppendPart(file, part) == [lines |-> Onto(file, part), ragged |-> TRUE, mtime |-> now]

Idle == [pc |-> "idle", row |-> Torn(0)]
Page0 == [pc |-> "idle", version |-> <<>>, asked |-> 0, lines |-> <<>>, whole |-> TRUE]

\* main has written its first row, and a browser has the page or not.
Init ==
    /\ now = 0 /\ process = "up" /\ mishaps = 0 /\ rows = 0
    /\ log = [Empty EXCEPT !.lines = <<Startup(0)>>] /\ inode = 0 /\ temp = Empty
    /\ thread = [t \in Thread |-> Idle]
    /\ logger_mutex = Free /\ last_trim = 0
    /\ page \in {Page0, [Page0 EXCEPT !.pc = "closed"]}
    /\ cache = [version |-> <<>>, asked |-> 0, lines |-> <<>>, whole |-> TRUE]
    /\ kept = <<Startup(0)>> /\ tail = "clean" /\ cutoff = -retention_days /\ hurt = FALSE

-----------------------------------------------------------------------------
(* Writing.                                                                *)

\* A step in which something fails, or does not.
Mishap(failed) ==
    /\ failed => mishaps < MaxMishaps
    /\ mishaps' = IF failed THEN mishaps + 1 ELSE mishaps

TrimDue == now - last_trim >= LOG_TRIM_INTERVAL_SECONDS

\* logger_log reads the clock before it waits for the mutex.  The poller logs
\* after it has trimmed.
Stamp(t) ==
    /\ process = "up" /\ thread[t].pc = "idle"
    /\ rows < (IF page.pc = "closed" THEN MaxRows ELSE MaxRowsViewed) /\ rows' = rows + 1
    /\ t = Poller => ~TrimDue
    /\ \E what \in Rows[t] :
          thread' = [thread EXCEPT ![t] = [pc |-> "log", row |-> Row(what, now)]]
    /\ UNCHANGED <<now, files, process, logger_mutex, last_trim, mishaps, browser, history>>

\* Mutant: rows are appended without the mutex.
MayWrite_Unlocked(t) == thread[t].pc = "log"

MayWrite(t) == thread[t].pc = "log" /\ logger_mutex = Free

\* What a write left, remembered: a row keeps its place until something is
\* written to the same line.
Recorded(line, ended) ==
    /\ kept' = IF tail = "row" THEN Front(kept)
               ELSE IF tail = "clean" /\ Parses(line) THEN Append(kept, line) ELSE kept
    /\ tail' = IF ended THEN "clean"
               ELSE IF tail = "clean" /\ Parses(line) THEN "row" ELSE "part"

\* fopen for appending, the row in one write, fflush and fclose, all under the
\* mutex.  Their results are not looked at: a full disk loses the row or leaves
\* part of it.
Write(t) ==
    /\ MayWrite(t)
    /\ \/ /\ log' = AppendWhole(log, thread[t].row) /\ Recorded(thread[t].row, TRUE)
          /\ UNCHANGED mishaps
       \/ \E part \in Parts(thread[t].row) :
             Mishap(TRUE) /\ log' = AppendPart(log, part) /\ Recorded(part, FALSE)
       \/ Mishap(TRUE) /\ UNCHANGED <<log, kept, tail>>
    /\ thread' = [thread EXCEPT ![t] = Idle]
    /\ process' = "up"
    /\ UNCHANGED <<now, inode, temp, logger_mutex, last_trim, rows, browser, cutoff, hurt>>

-----------------------------------------------------------------------------
(* Trimming.                                                               *)

\* A line that does not parse is kept for ever.
Keeps(line, oldest) == ~Parses(line) \/ line.ts >= oldest
Trimmed(lines, oldest) == Those(lines, LAMBDA line : Keeps(line, oldest))

\* The copying loop.  The copy ends without a newline when the last line does
\* and is kept.
WholeCopy ==
    LET oldest == now - retention_days
    IN  [lines |-> Trimmed(log.lines, oldest),
         ragged |-> log.ragged /\ Keeps(Last(log.lines), oldest), mtime |-> now]

\* On a full disk only its first lines arrive, and perhaps part of the next.
CutCopy(n, part) ==
    [lines |-> SubSeq(WholeCopy.lines, 1, n) \o part, ragged |-> part # <<>>, mtime |-> now]

CutCopies ==
    UNION {{CutCopy(n, part) : part \in {<<>>} \cup {<<p>> : p \in Parts(WholeCopy.lines[n + 1])}} :
             n \in 0 .. Len(WholeCopy.lines) - 1}

\* logger_trim up to fclose(output): by the poller when it is due, by main when
\* it starts.  A copy that a killed process left behind is overwritten.
TrimCopies ==
    /\ process = "starting" \/ (process = "up" /\ TrimDue)
    /\ thread[Poller].pc = "idle" /\ logger_mutex = Free
    /\ logger_mutex' = Poller
    /\ last_trim' = now
    /\ \/ temp' = WholeCopy /\ UNCHANGED <<mishaps, hurt>>
       \/ temp' \in CutCopies /\ Mishap(TRUE) /\ hurt' = TRUE
    /\ thread' = [thread EXCEPT ![Poller].pc = "trim"]
    /\ UNCHANGED <<now, log, inode, process, rows, browser, kept, tail, cutoff>>

\* Mutant: a return of logger_trim that forgets the mutex.
loggerUnlock_Forgotten == UNCHANGED logger_mutex

loggerUnlock == logger_mutex' = Free

Young(lines, oldest) == Those(lines, LAMBDA line : Parses(line) /\ line.ts >= oldest)

\* replaceFile: rename, or remove the copy.  A reader that has the old file open
\* reads on in it.  main goes on to its startup row.
TrimReplaces ==
    /\ thread[Poller].pc = "trim"
    /\ \/ /\ log' = temp /\ inode' = inode + 1
          /\ page' = IF page.pc = "read" THEN [page EXCEPT !.pc = "old", !.lines = log.lines]
                     ELSE page
          /\ cutoff' = temp.mtime - retention_days
          /\ kept' = Young(kept, cutoff')
          /\ tail' = IF tail = "row" /\ ~Keeps(Last(kept), cutoff') THEN "clean" ELSE tail
          /\ UNCHANGED mishaps
       \/ Mishap(TRUE) /\ UNCHANGED <<log, inode, page, kept, tail, cutoff>>
    /\ temp' = Empty
    /\ loggerUnlock
    /\ thread' = [thread EXCEPT ![Poller] =
                    IF process = "starting" THEN [pc |-> "log", row |-> Startup(now)] ELSE Idle]
    /\ UNCHANGED <<now, process, last_trim, rows, cache, hurt>>

Kill ==
    /\ process # "down" /\ Mishap(TRUE)
    /\ process' = "down"
    /\ logger_mutex' = Free
    /\ thread' = [t \in Thread |-> Idle]
    /\ page' = IF page.pc = "closed" THEN page ELSE Page0
    /\ UNCHANGED <<now, files, last_trim, rows, cache, history>>

Restart ==
    /\ process = "down" /\ process' = "starting"
    /\ UNCHANGED <<now, files, thread, logger_mutex, last_trim, mishaps, rows, browser, history>>

Tick ==
    /\ now < MaxNow /\ now' = now + 1
    /\ UNCHANGED <<files, writers, browser, history>>

-----------------------------------------------------------------------------
(* The graph data.                                                         *)

\* Mutant: the version is only the second of the last change.
graphLogVersion_Second(file) == <<file.mtime>>

\* st_mtime and st_size; the counts of graphs and columns do not change here.
graphLogVersion(file) ==
    <<file.mtime, FoldLeft(LAMBDA size, line : size + line.len, 0, file.lines)>>

\* loadGraphs sends the version it has.  graphRequestVersionMatches answers 304
\* when it is the file's, and nothing changes; otherwise the version is taken
\* before the file is opened.
Request ==
    /\ process = "up" /\ page.pc = "idle"
    /\ cache.version # graphLogVersion(log)
    /\ page' = [page EXCEPT !.pc = "open", !.version = graphLogVersion(log), !.asked = inode]
    /\ UNCHANGED <<now, files, writers, cache, history>>

\* The panel and every part of a graph open the file again and read to its end;
\* the model follows any one of these passes.  One that cannot open the file or
\* get its memory writes nothing, and the answer goes out all the same.
OpenPass ==
    /\ page.pc = "open"
    /\ \/ page' = [page EXCEPT !.pc = "read"] /\ UNCHANGED mishaps
       \/ page' = [page EXCEPT !.pc = "send", !.whole = FALSE] /\ Mishap(TRUE)
    /\ UNCHANGED <<now, files, process, thread, logger_mutex, last_trim, rows, cache, history>>

\* fgets to the end of the file; an error looks like that end.
ReadPass ==
    /\ page.pc \in {"read", "old"}
    /\ LET lines == IF page.pc = "old" THEN page.lines ELSE log.lines
       IN  \E n \in 0 .. Len(lines) :
              /\ Mishap(n < Len(lines))
              /\ page' = [page EXCEPT !.pc = "send", !.lines = SubSeq(lines, 1, n),
                                      !.whole = (n = Len(lines))]
    /\ UNCHANGED <<now, files, process, thread, logger_mutex, last_trim, rows, cache, history>>

\* Mutant: the version is taken after the data has been read.
Cached_Late(read) ==
    [version |-> graphLogVersion(log), asked |-> inode, lines |-> read.lines, whole |-> read.whole]

\* cacheGraphData: another version makes another signature.
Cached(read) ==
    [version |-> read.version, asked |-> read.asked, lines |-> read.lines, whole |-> read.whole]

Respond ==
    /\ page.pc = "send"
    /\ cache' = Cached(page)
    /\ page' = Page0
    /\ UNCHANGED <<now, files, writers, history>>

Browser == Request \/ OpenPass \/ ReadPass \/ Respond

Next ==
    \/ \E t \in Thread : Stamp(t) \/ Write(t)
    \/ TrimCopies \/ TrimReplaces \/ Kill \/ Restart \/ Tick
    \/ Browser

\* The browser asks again after every answer (setInterval), and a request ends.
Spec == Init /\ [][Next]_vars /\ WF_vars(Browser)

-----------------------------------------------------------------------------
(* Properties.                                                             *)

\* The variables of the writers, the trimmer and the browser; the trimmer holds
\* logger_mutex for as long as it works, and only then.
TypeOK ==
    /\ now \in 0 .. MaxNow /\ process \in {"down", "starting", "up"}
    /\ log.ragged \in BOOLEAN /\ log.mtime \in 0 .. now /\ inode \in Nat
    /\ log.ragged => log.lines # <<>>
    /\ \A t \in Thread : thread[t].pc \in {"idle", "log"} \cup (IF t = Poller THEN {"trim"} ELSE {})
    /\ logger_mutex \in {Free, Poller} /\ (logger_mutex = Poller <=> thread[Poller].pc = "trim")
    /\ last_trim \in 0 .. now /\ mishaps \in 0 .. MaxMishaps
    /\ page.pc \in {"closed", "idle", "open", "read", "old", "send"}

\* logger.c:159-206: appends and trims, interleaved and cut off by kills, lose
\* no row that is young enough, double none and keep their order.  A write that
\* was cut off costs its own row, unless only the newline is missing; the row
\* written after it joins its line and costs both.  A copy that was cut off is
\* renamed to the log with what it has.
LogKeepsRows ==
    ~hurt => Young(log.lines, cutoff) = Young(kept, cutoff)

\* What the address line of the rows page can hold.
Queries ==
    LET limit(kind, value) == [key |-> "limit", kind |-> kind, value |-> value]
        one == {limit("number", n) : n \in {-1, 0, 1, 2, ULONG_MAX + 1}}
                 \cup {limit("word", 0), limit("long", 9), limit("empty", 0),
                       [key |-> "token", kind |-> "word", value |-> 0]}
    IN  {<<>>} \cup {<<p>> : p \in one} \cup {<<limit("empty", 0), p>> : p \in one}

Limits == {parseLogLimit(q, 2) : q \in Queries}

\* loggerWebLogRows.c:97-137: whatever limit is asked for, the ring buffer
\* shows the newest lines, newest first, and neither divides by a zero limit nor
\* asks for more rows than it may.
RowsAreNewest ==
    \A limit \in Limits :
        LET n == Len(log.lines)
            page_rows == SendLogRows(log.lines, limit)
        IN  /\ limit \in 1 .. LOGGER_WEB_MAX_LOG_LIMIT
            /\ Len(page_rows) = (IF n < limit THEN n ELSE limit)
            /\ \A i \in DOMAIN page_rows : page_rows[i] = log.lines[n + 1 - i]

\* loggerWebToday.c:221-339: the panel shows one row, the newest with readings,
\* with that row's time, whatever failures, torn lines and status rows follow.
TodayIsOneRow ==
    LET with == {i \in DOMAIN log.lines : DOMAIN log.lines[i].num # {}}
        today == readTodaySnapshot(log.lines)
    IN  IF with = {} THEN today = NoToday
        ELSE LET row == log.lines[Max(with)]
             IN  today = [values |-> Given(row.num, Columns), fan |-> Given(row.num, {FanSpeed}),
                          time |-> row.ts]

\* The spans of a range as its legend explains them: one for every "close
\* notif" with an "open notif" since the "close notif" before it, from the first
\* such "open notif", in their order.
QuietSpans(q, spans) ==
    LET opens(j) == {i \in 1 .. j - 1 : /\ q[i].event = "open notif"
                                        /\ \A k \in i .. j - 1 : q[k].event # "close notif"}
        ends == {j \in DOMAIN q : q[j].event = "close notif" /\ opens(j) # {}}
    IN  /\ Len(spans) = Cardinality(ends)
        /\ \A j \in ends :
              spans[Cardinality(ends \cap 1 .. j)] = <<q[Min(opens(j))].ts, q[j].ts>>

\* loggerWebGraphJson.c: rows are stamped before they queue for the mutex, so
\* the log is not sorted by time; spans and statistics of every range still are
\* those of its rows, and no span ends before it starts.
GraphIsFaithful ==
    \A from \in 0 .. now :
        /\ QuietSpans(InRange(log.lines, from, now), Spans(log.lines, from, now))
        /\ \A i \in DOMAIN Spans(log.lines, from, now) :
              LET span == Spans(log.lines, from, now)[i] IN span[1] <= span[2]
        /\ LET points == Points(log.lines, {FanSpeed}, 0, now)
               speeds == {row.num[FanSpeed] :
                            row \in {p \in ToSet(points) : p.ts >= from}}
           IN  Stats(points, FanSpeed, from, now) =
                 IF speeds = {} THEN <<>> ELSE <<Min(speeds), Max(speeds)>>

\* loggerWebGraphJson.c:167: a browser that is told 304 shows what the log
\* holds, with two exceptions.  The version does not see a trim in the second of
\* the last row to the same length; and a pass that failed sends the version of
\* the file all the same, so what it could not read is missing until the log
\* changes.
Current == cache.lines = log.lines
Stuck == cache.version = graphLogVersion(log) /\ (cache.asked # inode \/ ~cache.whole)

NotModifiedIsTrue ==
    cache.version = graphLogVersion(log) => Current \/ Stuck

\* Once nothing is written and nothing fails any more, the browser shows what
\* there is, with the same exceptions.
BrowserCatchesUp ==
    <>[](process = "up" /\ page.pc # "closed" => Current \/ Stuck)

=============================================================================
