------------------------------ MODULE LogPages ------------------------------
(***************************************************************************)
(* What the web pages make of the lines of the log: the rows page          *)
(* (loggerWebLogRows.c, parseLogLimit of loggerWebRoutes.c), the Today     *)
(* panel (loggerWebToday.c) and the points, statistics, events and spans   *)
(* of a graph (loggerWebGraphJson.c).  A line that logger_record_parse_line *)
(* accepts is a row: its time, the columns that parse as numbers, its      *)
(* event and its length.  Any other line is torn.                          *)
(***************************************************************************)
EXTENDS Integers, FiniteSets, Sequences, SequencesExt

CONSTANTS Columns,                    \* of the Today panel and the first graph
          FanSpeed,                   \* the column "Fan Speed"
          LOGGER_WEB_DEFAULT_LOG_LIMIT,
          LOGGER_WEB_MAX_LOG_LIMIT,
          ULONG_MAX                   \* width of the parsed limit

ASSUME PagesAssumption ==
    /\ Columns # {} /\ FanSpeed \notin Columns
    /\ LOGGER_WEB_MAX_LOG_LIMIT \in Nat /\ ULONG_MAX \in Nat
    /\ LOGGER_WEB_DEFAULT_LOG_LIMIT \in 1 .. LOGGER_WEB_MAX_LOG_LIMIT
    /\ LOGGER_WEB_MAX_LOG_LIMIT < ULONG_MAX

\* Numeric columns of a row, and of one without readings ("-" is no number).
NoNum == [column \in {} |-> 0]

Torn(len) == [ts |-> 0, num |-> NoNum, event |-> "torn", len |-> len]

\* logger_record_parse_line together with has_logged_at.
Parses(line) == line.event # "torn"

\* The lines of a loop that pass a test, in their order.  (SelectSeq says the
\* same; TLAPS knows nothing about it.)
Those(lines, Test(_)) ==
    FoldLeft(LAMBDA kept, line : IF Test(line) THEN Append(kept, line) ELSE kept, <<>>, lines)

\* Rows that begin or end a span.
Notif(line) == line.event \in {"open notif", "close notif"}

-----------------------------------------------------------------------------
(* The rows page.                                                          *)

normalizeLogLimit(limit) ==
    IF limit = 0 THEN LOGGER_WEB_DEFAULT_LOG_LIMIT
    ELSE IF limit > LOGGER_WEB_MAX_LOG_LIMIT THEN LOGGER_WEB_MAX_LOG_LIMIT ELSE limit

\* strtoul: a number that is too large saturates, a negative one wraps and a
\* word is 0.
strtoul(param) ==
    IF param.kind = "word" THEN 0
    ELSE IF param.value > ULONG_MAX THEN ULONG_MAX ELSE param.value % (ULONG_MAX + 1)

\* The first limit parameter that is not empty decides, whatever it holds; one
\* of 32 characters or more ("long") and zero mean the default.
parseLogLimit(params, log_row_limit) ==
    LET given == Those(params, LAMBDA p : p.key = "limit" /\ p.kind # "empty")
        parsed == strtoul(given[1])
    IN  IF given = <<>> \/ given[1].kind = "long" \/ parsed = 0
          THEN normalizeLogLimit(log_row_limit)
        ELSE IF parsed > LOGGER_WEB_MAX_LOG_LIMIT THEN LOGGER_WEB_MAX_LOG_LIMIT
        ELSE parsed

\* Mutant: the newest row is looked for one slot too far.
NewestFirst_Off(rows, total, limit) ==
    [i \in 1 .. (IF total < limit THEN total ELSE limit) |-> rows[(total + 1 - i) % limit]]

NewestFirst(rows, total, limit) ==
    [i \in 1 .. (IF total < limit THEN total ELSE limit) |-> rows[(total - i) % limit]]

\* The ring buffer of loggerWebSendLogRows: total_rows only counts upwards.
SendLogRows(lines, limit) ==
    LET keep(ring, line) == [rows |-> [ring.rows EXCEPT ![ring.total % limit] = line],
                             total |-> ring.total + 1]
        ring == FoldLeft(keep, [rows |-> [slot \in 0 .. limit - 1 |-> Torn(0)], total |-> 0], lines)
    IN  NewestFirst(ring.rows, ring.total, limit)

-----------------------------------------------------------------------------
(* The Today panel.                                                        *)

Given(num, wanted) == [column \in DOMAIN num \cap wanted |-> num[column]]

NoToday == [values |-> NoNum, fan |-> NoNum, time |-> 0]

\* Mutant: every row that parses is the latest reading.
TodayRow_Any(today, row) ==
    IF ~Parses(row) THEN today
    ELSE [values |-> Given(row.num, Columns), fan |-> Given(row.num, {FanSpeed}), time |-> row.ts]

\* One row in the loop of readTodaySnapshot: a row without any number is
\* passed over, one with readings replaces all of them together.
TodayRow(today, row) ==
    LET values == Given(row.num, Columns)
        fan == Given(row.num, {FanSpeed})
    IN  IF ~Parses(row) \/ (values = NoNum /\ fan = NoNum) THEN today
        ELSE [values |-> IF values # NoNum THEN values ELSE today.values,
              fan |-> IF fan # NoNum THEN fan ELSE today.fan,
              time |-> row.ts]

readTodaySnapshot(lines) == FoldLeft(TodayRow, NoToday, lines)

-----------------------------------------------------------------------------
(* A graph.                                                                *)

InRange(lines, from, to) ==
    Those(lines, LAMBDA row : Parses(row) /\ from <= row.ts /\ row.ts <= to)

Points(lines, series, from, to) ==
    Those(InRange(lines, from, to), LAMBDA row : DOMAIN row.num \cap series # {})

\* The minimum and maximum that writeGraphPointsJson keeps on its way.
Stats(points, column, from, to) ==
    LET keep(stats, row) ==
            IF ~(from <= row.ts /\ row.ts <= to) \/ column \notin DOMAIN row.num THEN stats
            ELSE LET value == row.num[column]
                 IN  IF stats = <<>> THEN <<value, value>>
                     ELSE <<IF value < stats[1] THEN value ELSE stats[1],
                            IF value > stats[2] THEN value ELSE stats[2]>>
    IN  FoldLeft(keep, <<>>, points)

Events(lines, markers, from, to) ==
    Those(InRange(lines, from, to), LAMBDA row : row.event \in markers)

\* Mutant: a second start moves the start of the span.
SpanRow_LastStart(span, row) ==
    IF row.event = "open notif" THEN [span EXCEPT !.start = <<row.ts>>]
    ELSE IF row.event = "close notif" /\ span.start # <<>> /\ row.ts >= span.start[1]
      THEN [start |-> <<>>, drawn |-> Append(span.drawn, <<span.start[1], row.ts>>)]
    ELSE span

\* One row in the loop of writeGraphSpansJson: the first start is kept, and a
\* span is drawn when an end that is not earlier follows it.
SpanRow(span, row) ==
    IF row.event = "open notif"
      THEN IF span.start = <<>> THEN [span EXCEPT !.start = <<row.ts>>] ELSE span
    ELSE IF row.event = "close notif" /\ span.start # <<>> /\ row.ts >= span.start[1]
      THEN [start |-> <<>>, drawn |-> Append(span.drawn, <<span.start[1], row.ts>>)]
    ELSE span

Spans(lines, from, to) ==
    FoldLeft(SpanRow, [start |-> <<>>, drawn |-> <<>>], InRange(lines, from, to)).drawn

=============================================================================
