--------------------------- MODULE LogFileProofs ---------------------------
(***************************************************************************)
(* Proofs about the log file, its writers, the trimmer and the pages, for  *)
(* any threads, any rows they log and any bounds.  A loop over the lines   *)
(* is a FoldLeft; FoldFacts says what one step more makes of it, and       *)
(* induction over the lines does the rest.                                 *)
(***************************************************************************)
EXTENDS LogFile, FiniteSetTheorems, TLAPS

-----------------------------------------------------------------------------
(* Lines.                                                                  *)

\* What the threads, main and a full disk leave in the file.
Nums == [{} -> Int] \cup [Columns \cup {FanSpeed} -> Int]

Whats == (UNION {Rows[t] : t \in Thread}) \cup {[num |-> NoNum, event |-> "startup"]}

Line == {line \in [ts : Nat, num : Nums, event : {what.event : what \in Whats} \cup {"torn"},
                   len : Nat \ {0}] :
            ~Parses(line) => line.num = NoNum}

\* Part of a row is a line, and no row.
LEMMA TornIsLine == \A n \in Nat \ {0} : Torn(n) \in Line /\ ~Parses(Torn(n))
<1>1. NoNum \in Nums
  BY DEF NoNum, Nums
<1> HIDE DEF NoNum, Nums
<1> QED
  BY <1>1 DEF Torn, Line, Parses

\* So is a row that a thread stamps.
LEMMA RowIsLine ==
    ASSUME NEW what \in Whats, NEW ts \in Nat
    PROVE  Row(what, ts) \in Line
<1> DEFINE row == Row(what, ts)
<1>1. what.num \in Nums /\ what.event # "torn"
  <2>1. CASE what = [num |-> NoNum, event |-> "startup"]
    <3>1. NoNum \in Nums
      BY DEF NoNum, Nums
    <3> HIDE DEF NoNum, Nums
    <3>2. what.num = NoNum /\ what.event = "startup"
      BY <2>1
    <3> QED
      BY <3>1, <3>2
  <2>2. CASE what \in UNION {Rows[t] : t \in Thread}
    <3>1. PICK t \in Thread : what \in Rows[t]
      BY <2>2
    <3> QED
      BY <3>1, RowsAssumption DEF Nums
  <2> QED
    BY <2>1, <2>2 DEF Whats
<1>2. row = [ts |-> ts, num |-> what.num, event |-> what.event, len |-> 3]
  BY DEF Row
<1> HIDE DEF row, Nums
<1>3. row \in [ts : Nat, num : Nums, event : {w.event : w \in Whats} \cup {"torn"}, len : Nat \ {0}]
  BY <1>1, <1>2
<1>4. Parses(row)
  BY <1>1, <1>2 DEF Parses
<1> QED
  BY <1>3, <1>4 DEF Line, row

\* So is the first row of main.
LEMMA StartupIsLine == \A ts \in Nat : Startup(ts) \in Line
<1>1. [num |-> NoNum, event |-> "startup"] \in Whats
  BY DEF Whats
<1> QED
  BY <1>1, RowIsLine DEF Startup

\* A sequence that is not empty is what comes before its last element, and that.
LEMMA LastSplit ==
    ASSUME NEW S, NEW s \in Seq(S), s # <<>>
    PROVE  /\ Len(s) \in Nat \ {0} /\ s[Len(s)] \in S
           /\ SubSeq(s, 1, Len(s) - 1) \in Seq(S)
           /\ s = Append(SubSeq(s, 1, Len(s) - 1), s[Len(s)])
<1>1. Len(s) \in Nat \ {0} /\ s[Len(s)] \in S
  OBVIOUS
<1>2. SubSeq(s, 1, Len(s) - 1) \in Seq(S)
  BY <1>1
<1>3. s = Append(SubSeq(s, 1, Len(s) - 1), s[Len(s)])
  BY <1>1
<1> QED
  BY <1>1, <1>2, <1>3

-----------------------------------------------------------------------------
(* The size of the file.                                                   *)

AddLen(env, size, line) == size + line.len

SizeLoop == INSTANCE FoldFacts WITH body <- AddLen

Size(lines) == FoldLeft(LAMBDA size, line : size + line.len, 0, lines)

\* The version is the second of the last change and the size.
LEMMA VersionIs == \A file : graphLogVersion(file) = <<file.mtime, Size(file.lines)>>
  BY DEF graphLogVersion, Size

\* The size is a loop over the lines.
LEMMA SizeIsLoop == \A lines : Size(lines) = SizeLoop!Looped(0, 0, lines)
  BY DEF Size, AddLen, FoldLeft, MapThenFoldSet, Max, SizeLoop!Looped, SizeLoop!FoldLeft,
         SizeLoop!MapThenFoldSet, SizeLoop!Max

\* A line more makes the file longer by the length of that line.
LEMMA SizeAppend ==
    /\ Size(<<>>) = 0
    /\ \A s \in Seq(Line), e \in Line : Size(Append(s, e)) = Size(s) + e.len
<1>1. Size(<<>>) = 0
  BY SizeIsLoop, SizeLoop!LoopedEmpty
<1>2. ASSUME NEW s \in Seq(Line), NEW e \in Line
      PROVE  Size(Append(s, e)) = Size(s) + e.len
  <2> HIDE DEF Line
  <2>1. SizeLoop!Looped(0, 0, Append(s, e)) = AddLen(0, SizeLoop!Looped(0, 0, s), e)
    BY SizeLoop!LoopedAppend
  <2> QED
    BY <2>1, SizeIsLoop DEF AddLen
<1> QED
  BY <1>1, <1>2

\* It is a natural number.
LEMMA SizeType == \A s \in Seq(Line) : Size(s) \in Nat
<1> DEFINE P == {s \in Seq(Line) : Size(s) \in Nat}
<1>1. <<>> \in P
  BY SizeAppend
<1>2. ASSUME NEW s \in Seq(Line), NEW e \in Line, s \in P PROVE Append(s, e) \in P
  <2>1. Size(Append(s, e)) = Size(s) + e.len
    BY SizeAppend
  <2>2. e.len \in Nat
    BY DEF Line
  <2>3. Append(s, e) \in Seq(Line)
    OBVIOUS
  <2> QED
    BY <1>2, <2>1, <2>2, <2>3
<1> HIDE DEF P
<1>3. Seq(Line) \subseteq P
  BY <1>1, <1>2, SizeLoop!SequenceInduction
<1> QED
  BY <1>3 DEF P

-----------------------------------------------------------------------------
(* The lines that a trim keeps, and those it may not lose.                 *)

TrimLine(oldest, kept_lines, line) ==
    IF Keeps(line, oldest) THEN Append(kept_lines, line) ELSE kept_lines

YoungLine(oldest, kept_lines, line) ==
    IF Parses(line) /\ line.ts >= oldest THEN Append(kept_lines, line) ELSE kept_lines

TrimLoop == INSTANCE FoldFacts WITH body <- TrimLine
YoungLoop == INSTANCE FoldFacts WITH body <- YoungLine

\* What a trim keeps is a loop over the lines.
LEMMA TrimmedIsLoop ==
    \A lines, oldest : Trimmed(lines, oldest) = TrimLoop!Looped(oldest, <<>>, lines)
  BY DEF Trimmed, Those, TrimLine, FoldLeft, MapThenFoldSet, Max, TrimLoop!Looped,
         TrimLoop!FoldLeft, TrimLoop!MapThenFoldSet, TrimLoop!Max

\* So are the rows it may not lose.
LEMMA YoungIsLoop ==
    \A lines, oldest : Young(lines, oldest) = YoungLoop!Looped(oldest, <<>>, lines)
  BY DEF Young, Those, YoungLine, FoldLeft, MapThenFoldSet, Max, YoungLoop!Looped,
         YoungLoop!FoldLeft, YoungLoop!MapThenFoldSet, YoungLoop!Max

\* One line more: a trim keeps it or not.
LEMMA TrimmedAppend ==
    ASSUME NEW oldest
    PROVE  /\ Trimmed(<<>>, oldest) = <<>>
           /\ \A s \in Seq(Line), e \in Line :
                 Trimmed(Append(s, e), oldest) = TrimLine(oldest, Trimmed(s, oldest), e)
<1> HIDE DEF Line
<1>1. ASSUME NEW s \in Seq(Line), NEW e \in Line
      PROVE  TrimLoop!Looped(oldest, <<>>, Append(s, e))
               = TrimLine(oldest, TrimLoop!Looped(oldest, <<>>, s), e)
  BY TrimLoop!LoopedAppend
<1> QED
  BY <1>1, TrimmedIsLoop, TrimLoop!LoopedEmpty

\* One line more: it is a young row or not.
LEMMA YoungAppend ==
    ASSUME NEW oldest
    PROVE  /\ Young(<<>>, oldest) = <<>>
           /\ \A s \in Seq(Line), e \in Line :
                 Young(Append(s, e), oldest) = YoungLine(oldest, Young(s, oldest), e)
<1> HIDE DEF Line
<1>1. ASSUME NEW s \in Seq(Line), NEW e \in Line
      PROVE  YoungLoop!Looped(oldest, <<>>, Append(s, e))
               = YoungLine(oldest, YoungLoop!Looped(oldest, <<>>, s), e)
  BY YoungLoop!LoopedAppend
<1> QED
  BY <1>1, YoungIsLoop, YoungLoop!LoopedEmpty

\* Both are lines of the log.
LEMMA FilterTypes ==
    \A s \in Seq(Line), oldest \in Int :
        Trimmed(s, oldest) \in Seq(Line) /\ Young(s, oldest) \in Seq(Line)
<1> TAKE s0 \in Seq(Line), oldest \in Int
<1> HIDE DEF Line
<1> DEFINE P == {s \in Seq(Line) : /\ Trimmed(s, oldest) \in Seq(Line)
                                   /\ Young(s, oldest) \in Seq(Line)}
<1>1. <<>> \in P
  <2>1. Trimmed(<<>>, oldest) = <<>> /\ Young(<<>>, oldest) = <<>>
    BY TrimmedAppend, YoungAppend
  <2>2. <<>> \in Seq(Line)
    OBVIOUS
  <2>3. Trimmed(<<>>, oldest) \in Seq(Line) /\ Young(<<>>, oldest) \in Seq(Line)
    BY <2>1, <2>2
  <2> QED
    BY <2>2, <2>3
<1>2. ASSUME NEW s \in Seq(Line), NEW e \in Line, s \in P PROVE Append(s, e) \in P
  <2>1. Trimmed(Append(s, e), oldest) \in {Trimmed(s, oldest), Append(Trimmed(s, oldest), e)}
    BY TrimmedAppend DEF TrimLine
  <2>2. Young(Append(s, e), oldest) \in {Young(s, oldest), Append(Young(s, oldest), e)}
    BY YoungAppend DEF YoungLine
  <2>3. /\ Append(s, e) \in Seq(Line) /\ Append(Trimmed(s, oldest), e) \in Seq(Line)
        /\ Append(Young(s, oldest), e) \in Seq(Line)
    BY <1>2
  <2>4. Trimmed(Append(s, e), oldest) \in Seq(Line)
    BY <1>2, <2>1, <2>3
  <2>5. Young(Append(s, e), oldest) \in Seq(Line)
    BY <1>2, <2>2, <2>3
  <2> QED
    BY <2>3, <2>4, <2>5
<1> HIDE DEF P
<1>3. Seq(Line) \subseteq P
  BY <1>1, <1>2, SizeLoop!SequenceInduction
<1> QED
  BY <1>3 DEF P

\* A trim keeps every row that is young enough.
LEMMA YoungOfTrimmed ==
    \A s \in Seq(Line), oldest \in Int :
        Young(Trimmed(s, oldest), oldest) = Young(s, oldest)
<1> TAKE s0 \in Seq(Line), oldest \in Int
<1> DEFINE P == {s \in Seq(Line) : Young(Trimmed(s, oldest), oldest) = Young(s, oldest)}
<1>1. <<>> \in P
  <2>1. Trimmed(<<>>, oldest) = <<>>
    BY TrimmedAppend
  <2>2. <<>> \in Seq(Line)
    OBVIOUS
  <2> QED
    BY <2>1, <2>2
<1>2. ASSUME NEW s \in Seq(Line), NEW e \in Line, s \in P PROVE Append(s, e) \in P
  <2> DEFINE t == Trimmed(s, oldest)
  <2> HIDE DEF Line
  <2>1. Append(s, e) \in Seq(Line) /\ t \in Seq(Line)
    BY FilterTypes
  <2>2. Trimmed(Append(s, e), oldest) = TrimLine(oldest, t, e)
    BY TrimmedAppend
  <2>3. Young(Append(s, e), oldest) = YoungLine(oldest, Young(s, oldest), e)
    BY YoungAppend
  <2>4. Young(Append(t, e), oldest) = YoungLine(oldest, Young(t, oldest), e)
    BY <2>1, YoungAppend
  <2> HIDE DEF t
  <2>5. Young(TrimLine(oldest, t, e), oldest) = YoungLine(oldest, Young(t, oldest), e)
    BY <2>4 DEF TrimLine, YoungLine, Keeps
  <2>6. Young(t, oldest) = Young(s, oldest)
    BY <1>2 DEF t
  <2>7. Young(Trimmed(Append(s, e), oldest), oldest) = Young(Append(s, e), oldest)
    BY <2>2, <2>3, <2>5, <2>6
  <2> QED
    BY <2>1, <2>7
<1> HIDE DEF P
<1>3. Seq(Line) \subseteq P
  BY <1>1, <1>2, SizeLoop!SequenceInduction
<1> QED
  BY <1>3 DEF P

\* What is young later was young before.
LEMMA YoungTwice ==
    \A s \in Seq(Line), oldest \in Int, later \in Int :
        oldest <= later => Young(Young(s, oldest), later) = Young(s, later)
<1> TAKE s0 \in Seq(Line), oldest \in Int, later \in Int
<1> SUFFICES ASSUME oldest <= later
             PROVE  Young(Young(s0, oldest), later) = Young(s0, later)
  OBVIOUS
<1> DEFINE P == {s \in Seq(Line) : Young(Young(s, oldest), later) = Young(s, later)}
<1>1. <<>> \in P
  BY YoungAppend
<1>2. ASSUME NEW s \in Seq(Line), NEW e \in Line, s \in P PROVE Append(s, e) \in P
  <2> DEFINE y == Young(s, oldest)
  <2>0. e.ts \in Nat
    BY DEF Line
  <2> HIDE DEF Line
  <2>1. Append(s, e) \in Seq(Line) /\ y \in Seq(Line)
    BY FilterTypes
  <2>2. Young(Append(s, e), oldest) = YoungLine(oldest, y, e)
    BY YoungAppend
  <2>3. Young(Append(s, e), later) = YoungLine(later, Young(s, later), e)
    BY YoungAppend
  <2>4. Young(Append(y, e), later) = YoungLine(later, Young(y, later), e)
    BY <2>1, YoungAppend
  <2> HIDE DEF y
  <2>5. Young(YoungLine(oldest, y, e), later) = YoungLine(later, Young(y, later), e)
    <3>1. CASE Parses(e) /\ e.ts >= oldest
      BY <3>1, <2>4 DEF YoungLine
    <3>2. CASE ~(Parses(e) /\ e.ts >= oldest)
      <4>1. ~(Parses(e) /\ e.ts >= later)
        BY <3>2, <2>0
      <4> QED
        BY <3>2, <4>1 DEF YoungLine
    <3> QED
      BY <3>1, <3>2
  <2>6. Young(y, later) = Young(s, later)
    BY <1>2 DEF y
  <2> QED
    BY <2>1, <2>2, <2>3, <2>5, <2>6
<1> HIDE DEF P
<1>3. Seq(Line) \subseteq P
  BY <1>1, <1>2, SizeLoop!SequenceInduction
<1> QED
  BY <1>3 DEF P

-----------------------------------------------------------------------------
(* The inductive invariant.                                                *)

FileOK(file) ==
    /\ file \in [lines : Seq(Line), ragged : BOOLEAN, mtime : 0 .. now]
    /\ file.ragged => file.lines # <<>>

FilesOK == FileOK(log) /\ FileOK(temp) /\ inode \in Nat

WritersOK ==
    /\ now \in 0 .. MaxNow /\ process \in {"down", "starting", "up"}
    /\ thread \in [Thread -> [pc : {"idle", "log", "trim"}, row : Line \cup {Torn(0)}]]
    /\ \A t \in Thread : /\ thread[t].pc = "log" => thread[t].row \in Line
                         /\ thread[t].pc = "trim" => t = Poller
    /\ logger_mutex \in {Free, Poller} /\ (logger_mutex = Poller <=> thread[Poller].pc = "trim")
    /\ last_trim \in 0 .. now /\ mishaps \in 0 .. MaxMishaps

\* What an answer tells of the file when no reading failed: no later state of the file it
\* was taken from is smaller, and one of the same size holds the same lines.
Fits(answer) ==
    /\ answer.asked <= inode
    /\ answer.asked = inode /\ answer.whole =>
          /\ answer.version[2] <= Size(answer.lines)
          /\ Size(answer.lines) <= Size(log.lines)
          /\ Size(answer.lines) = Size(log.lines) => answer.lines = log.lines

Pages == [pc : {"closed", "idle", "open", "read", "old", "send"},
          version : {<<>>} \cup (Nat \X Nat), asked : Nat, lines : Seq(Line), whole : BOOLEAN]

Answers == [version : {<<>>} \cup (Nat \X Nat), asked : Nat, lines : Seq(Line), whole : BOOLEAN]

BrowserOK ==
    /\ page \in Pages
    /\ page.pc \in {"open", "read", "old", "send"} => page.version \in Nat \X Nat
    /\ page.pc \in {"open", "read"} =>
          /\ page.asked <= inode
          /\ page.asked = inode => page.version[2] <= Size(log.lines)
    /\ page.pc = "old" => page.asked < inode
    /\ page.pc = "send" => Fits(page)
    /\ cache \in Answers
    /\ cache.version # <<>> => Fits(cache)

\* How the last line of the log ends is what the history says of it.
TailOK ==
    /\ tail \in {"clean", "row", "part"}
    /\ tail = "clean" <=> ~log.ragged
    /\ tail = "row" => Parses(Last(log.lines)) /\ kept # <<>> /\ Last(kept) = Last(log.lines)
    /\ tail = "part" => ~Parses(Last(log.lines))

\* What the trimmer copied is the log it will replace, and times only go on.
HistoryOK ==
    /\ kept \in Seq(Line) /\ cutoff \in Int /\ cutoff <= now - retention_days
    /\ hurt \in BOOLEAN
    /\ ~hurt => Young(log.lines, cutoff) = Young(kept, cutoff) /\ TailOK
    /\ thread[Poller].pc = "trim" =>
          /\ cutoff <= temp.mtime - retention_days
          /\ ~hurt => LET oldest == temp.mtime - retention_days
                      IN  /\ temp.lines = Trimmed(log.lines, oldest)
                          /\ temp.ragged = (log.ragged /\ Keeps(Last(log.lines), oldest))

\* The rows that begin or end a span are in the order of their times.
Ordered(lines) ==
    \A i, j \in DOMAIN lines :
        i < j /\ Notif(lines[i]) /\ Notif(lines[j]) => lines[i].ts <= lines[j].ts

NotifsBefore(lines, ts) == \A i \in DOMAIN lines : Notif(lines[i]) => lines[i].ts <= ts

\* One thread logs them all, so while one waits for the mutex no later one can
\* have been written.
OrderOK ==
    /\ Ordered(log.lines) /\ Ordered(temp.lines)
    /\ NotifsBefore(log.lines, now) /\ NotifsBefore(temp.lines, now)
    /\ \A t \in Thread : thread[t].pc = "log" =>
          /\ thread[t].row.ts <= now
          /\ Notif(thread[t].row) =>
                /\ \E what \in Rows[t] : Notif(what)
                /\ NotifsBefore(log.lines, thread[t].row.ts)
                /\ NotifsBefore(temp.lines, thread[t].row.ts)

LogInv == WritersOK /\ FilesOK /\ BrowserOK /\ HistoryOK /\ OrderOK

-----------------------------------------------------------------------------
(* What a write makes of the file.                                         *)

\* What is appended to a last line without its newline is torn with it.
LEMMA JoinedIs ==
    ASSUME NEW s \in Seq(Line), s # <<>>
    PROVE  \E front \in Seq(Line), last \in Line :
              /\ s = Append(front, last) /\ s[Len(s)] = last
              /\ Torn(last.len + 1) \in Line
              /\ Joined(s) = Append(front, Torn(last.len + 1))
<1> DEFINE front == SubSeq(s, 1, Len(s) - 1)
           last == s[Len(s)]
           torn == Torn(last.len + 1)
<1>1. /\ Len(s) \in Nat \ {0} /\ last \in Line /\ front \in Seq(Line)
      /\ s = Append(front, last)
  <2> HIDE DEF Line
  <2> QED
    BY LastSplit
<1>2. torn \in Line
  <2>1. last.len + 1 \in Nat \ {0}
    BY <1>1 DEF Line
  <2> QED
    BY <2>1, TornIsLine
<1>3. Joined(s) = Append(front, torn)
  <2> HIDE DEF Line
  <2>1. Joined(s) = [s EXCEPT ![Len(s)] = torn]
    BY DEF Joined
  <2> HIDE DEF torn
  <2>2. [s EXCEPT ![Len(s)] = torn] = Append(front, torn)
    BY <1>1, <1>2
  <2> QED
    BY <2>1, <2>2
<1> QED
  BY <1>1, <1>2, <1>3

\* What a full disk leaves of a line is a line; it parses only when that line
\* does, and then it differs in its length alone.
LEMMA PartsAreLines ==
    ASSUME NEW line \in Line, NEW part \in Parts(line)
    PROVE  /\ part \in Line
           /\ Notif(part) => Notif(line) /\ part.ts = line.ts
<1>1. CASE part = Torn(1)
  <2>1. Torn(1) \in Line /\ ~Notif(Torn(1))
    BY TornIsLine DEF Torn, Notif
  <2> QED
    BY <1>1, <2>1
<1>2. CASE Parses(line) /\ part = Unended(line)
  <2>1. part = [line EXCEPT !.len = 2]
    BY <1>2 DEF Unended
  <2>2. line \in [ts : Nat, num : Nums, event : {what.event : what \in Whats} \cup {"torn"},
                  len : Nat \ {0}]
    BY DEF Line
  <2> DEFINE LineEvents == {what.event : what \in Whats} \cup {"torn"}
  <2> HIDE DEF Nums, LineEvents
  <2>3. /\ part \in [ts : Nat, num : Nums, event : LineEvents, len : Nat \ {0}]
        /\ part.event = line.event /\ part.ts = line.ts
    BY <2>1, <2>2 DEF LineEvents
  <2> USE DEF LineEvents
  <2>4. Parses(part)
    BY <1>2, <2>3 DEF Parses
  <2> QED
    BY <2>3, <2>4 DEF Line, Notif
<1> QED
  BY <1>1, <1>2 DEF Parts

\* The last line of a sequence with one line more is that line.
LEMMA LastOfAppend ==
    ASSUME NEW S, NEW s \in Seq(S), NEW e \in S
    PROVE  Append(s, e) \in Seq(S) /\ Append(s, e) # <<>> /\ Last(Append(s, e)) = e
<1>1. /\ Append(s, e) \in Seq(S) /\ Append(s, e) # <<>>
      /\ Append(s, e)[Len(Append(s, e))] = e
  OBVIOUS
<1> QED
  BY <1>1 DEF Last

\* What a write makes of a last line without its newline.
TornOn(lines, grown_lines, front, last, torn) ==
    /\ lines = Append(front, last) /\ grown_lines = Append(front, torn)
    /\ Last(lines) = last /\ Last(grown_lines) = torn
    /\ ~Parses(torn) /\ ~Notif(torn)

\* A file after another line, or with its last line torn further, is a file; it
\* is larger, and everything before the line that was written is as it was.
LEMMA Grows ==
    ASSUME now \in Nat, NEW file, FileOK(file), NEW line \in Line,
           NEW grown, grown = AppendWhole(file, line) \/ grown = AppendPart(file, line)
    PROVE  /\ FileOK(grown)
           /\ Size(grown.lines) > Size(file.lines)
           /\ file.ragged =>
                 \E front \in Seq(Line), last \in Line, torn \in Line :
                    TornOn(file.lines, grown.lines, front, last, torn)
           /\ ~file.ragged => grown.lines = Append(file.lines, line) /\ Last(grown.lines) = line
<1>1. /\ file.lines \in Seq(Line) /\ file.ragged \in BOOLEAN
      /\ file.ragged => file.lines # <<>>
  BY DEF FileOK
<1>2. /\ grown.mtime = now /\ grown.ragged \in BOOLEAN /\ grown.lines = Onto(file, line)
      /\ grown = [lines |-> grown.lines, ragged |-> grown.ragged, mtime |-> now]
  <2>1. CASE grown = AppendWhole(file, line)
    BY <2>1 DEF AppendWhole
  <2>2. CASE grown = AppendPart(file, line)
    BY <2>2 DEF AppendPart
  <2> QED
    BY <2>1, <2>2
<1>3. CASE file.ragged
  <2>1. PICK front \in Seq(Line), last \in Line :
           /\ file.lines = Append(front, last)
           /\ Torn(last.len + 1) \in Line
           /\ Joined(file.lines) = Append(front, Torn(last.len + 1))
    BY <1>1, <1>3, JoinedIs
  <2> DEFINE torn == Torn(last.len + 1)
  <2>2. grown.lines = Append(front, torn)
    BY <1>2, <1>3, <2>1 DEF Onto
  <2>3. ~Parses(torn) /\ ~Notif(torn) /\ torn.len = last.len + 1 /\ last.len \in Nat
    BY <2>1 DEF Torn, Parses, Notif, Line
  <2>4. torn \in Line
    BY <2>1
  <2> HIDE DEF torn, Line
  <2>5. /\ grown.lines \in Seq(Line) /\ grown.lines # <<>> /\ Last(grown.lines) = torn
        /\ Last(file.lines) = last
    BY <2>1, <2>2, <2>4, LastOfAppend
  <2>6. FileOK(grown)
    BY <1>2, <2>5 DEF FileOK
  <2>7. Size(grown.lines) > Size(file.lines)
    <3>1. Size(grown.lines) = Size(front) + torn.len /\ Size(file.lines) = Size(front) + last.len
      BY <2>1, <2>2, <2>4, SizeAppend
    <3>2. Size(front) \in Nat
      BY SizeType
    <3> QED
      BY <3>1, <3>2, <2>3
  <2> QED
    BY <1>3, <2>1, <2>2, <2>3, <2>4, <2>5, <2>6, <2>7 DEF TornOn
<1>4. CASE ~file.ragged
  <2>1. grown.lines = Append(file.lines, line)
    BY <1>2, <1>4 DEF Onto
  <2>2. line.len \in Nat \ {0}
    BY DEF Line
  <2> HIDE DEF Line
  <2>3. grown.lines \in Seq(Line) /\ grown.lines # <<>> /\ Last(grown.lines) = line
    BY <1>1, <2>1, LastOfAppend
  <2>4. FileOK(grown)
    BY <1>2, <2>3 DEF FileOK
  <2>5. Size(grown.lines) > Size(file.lines)
    <3>1. Size(grown.lines) = Size(file.lines) + line.len /\ Size(file.lines) \in Nat
      BY <1>1, <2>1, SizeAppend, SizeType
    <3> QED
      BY <3>1, <2>2
  <2> QED
    BY <1>4, <2>1, <2>3, <2>4, <2>5
<1> QED
  BY <1>1, <1>3, <1>4

-----------------------------------------------------------------------------
(* What the trimmer copies is a file.                                      *)

\* The last line survives a trim as the last line, or is left out.
LEMMA TrimmedLast ==
    ASSUME NEW s \in Seq(Line), s # <<>>, NEW oldest \in Int, Keeps(Last(s), oldest)
    PROVE  Trimmed(s, oldest) # <<>> /\ Last(Trimmed(s, oldest)) = Last(s)
<1> HIDE DEF Line
<1>1. PICK front \in Seq(Line), last \in Line : s = Append(front, last) /\ s[Len(s)] = last
  BY LastSplit
<1>2. Trimmed(s, oldest) = Append(Trimmed(front, oldest), last)
  BY <1>1, TrimmedAppend DEF TrimLine, Keeps, Last
<1>3. Trimmed(front, oldest) \in Seq(Line)
  BY FilterTypes
<1> QED
  BY <1>1, <1>2, <1>3, LastOfAppend DEF Last

\* A young last row survives as the last of the young rows.
LEMMA YoungLast ==
    ASSUME NEW s \in Seq(Line), s # <<>>, NEW oldest \in Int,
           Parses(Last(s)), Keeps(Last(s), oldest)
    PROVE  Young(s, oldest) # <<>> /\ Last(Young(s, oldest)) = Last(s)
<1> HIDE DEF Line
<1>1. PICK front \in Seq(Line), last \in Line : s = Append(front, last) /\ s[Len(s)] = last
  BY LastSplit
<1>2. Young(s, oldest) = Append(Young(front, oldest), last)
  BY <1>1, YoungAppend DEF YoungLine, Keeps, Last
<1>3. Young(front, oldest) \in Seq(Line)
  BY FilterTypes
<1> QED
  BY <1>1, <1>2, <1>3, LastOfAppend DEF Last

\* A copy that was cut off: some of the lines, and perhaps part of the next.
LEMMA CutShape ==
    ASSUME WholeCopy.lines \in Seq(Line), NEW copy \in CutCopies
    PROVE  \E n \in 0 .. Len(WholeCopy.lines) - 1 :
              LET s == SubSeq(WholeCopy.lines, 1, n)
                  next == WholeCopy.lines[n + 1]
              IN  /\ s \in Seq(Line) /\ next \in Line
                  /\ copy.mtime = now
                  /\ copy = [lines |-> copy.lines, ragged |-> copy.ragged, mtime |-> now]
                  /\ \/ copy.lines = s /\ copy.ragged = FALSE
                     \/ /\ copy.ragged = TRUE
                        /\ \E part \in Parts(next) : copy.lines = Append(s, part)
<1> DEFINE all == WholeCopy.lines
<1> HIDE DEF Line
<1>0. PICK n \in 0 .. Len(all) - 1 :
         \E part \in {<<>>} \cup {<<p>> : p \in Parts(all[n + 1])} : copy = CutCopy(n, part)
  BY DEF CutCopies
<1>1. PICK part \in {<<>>} \cup {<<p>> : p \in Parts(all[n + 1])} : copy = CutCopy(n, part)
  BY <1>0
<1> DEFINE s == SubSeq(all, 1, n)
           next == all[n + 1]
<1>2. copy = [lines |-> s \o part, ragged |-> part # <<>>, mtime |-> now]
  BY <1>1 DEF CutCopy
<1> HIDE DEF all
<1>3. s \in Seq(Line) /\ next \in Line
  BY DEF all
<1> HIDE DEF s, next
<1>4. CASE part = <<>>
  <2>1. s \o part = s
    BY <1>3, <1>4
  <2>2. copy = [lines |-> s, ragged |-> FALSE, mtime |-> now]
    BY <1>2, <1>4, <2>1
  <2> QED
    BY <1>3, <2>2 DEF s, next, all
<1>5. CASE \E p \in Parts(all[n + 1]) : part = <<p>>
  <2>1. PICK p \in Parts(next) : part = <<p>>
    BY <1>5 DEF next
  <2>2. p \in Line
    BY <1>3, PartsAreLines
  <2>3. s \o part = Append(s, p) /\ part # <<>>
    BY <1>3, <2>1, <2>2
  <2>4. copy = [lines |-> Append(s, p), ragged |-> TRUE, mtime |-> now]
    BY <1>2, <2>3
  <2> QED
    BY <1>3, <2>1, <2>4 DEF s, next, all
<1> QED
  BY <1>1, <1>4, <1>5

\* The copy of a trim is a file, whole or cut off anywhere.
LEMMA CopiesAreFiles ==
    ASSUME now \in Nat, FileOK(log), NEW copy, copy = WholeCopy \/ copy \in CutCopies
    PROVE  FileOK(copy) /\ copy.mtime = now /\ WholeCopy.lines \in Seq(Line)
<1> DEFINE oldest == now - retention_days
           all == Trimmed(log.lines, oldest)
<1> HIDE DEF Line
<1>1. /\ log.lines \in Seq(Line) /\ oldest \in Int /\ log.ragged \in BOOLEAN
      /\ log.ragged => log.lines # <<>>
  BY LogAssumption DEF FileOK
<1> DEFINE ends == log.ragged /\ Keeps(Last(log.lines), oldest)
<1>2. /\ WholeCopy = [lines |-> all, ragged |-> ends, mtime |-> now]
      /\ all \in Seq(Line) /\ ends \in BOOLEAN
  BY <1>1, FilterTypes DEF WholeCopy
<1>3. CASE copy = WholeCopy
  <2>1. ends => all # <<>>
    BY <1>1, TrimmedLast
  <2> HIDE DEF all, oldest, ends
  <2>2. copy \in [lines : Seq(Line), ragged : BOOLEAN, mtime : 0 .. now]
    BY <1>2, <1>3
  <2>3. copy.lines = all /\ copy.ragged = ends /\ copy.mtime = now
    BY <1>2, <1>3
  <2> QED
    BY <1>2, <2>1, <2>2, <2>3 DEF FileOK
<1>4. CASE copy \in CutCopies
  <2>1. WholeCopy.lines \in Seq(Line)
    BY <1>2
  <2>2. PICK s \in Seq(Line), next \in Line :
           /\ copy = [lines |-> copy.lines, ragged |-> copy.ragged, mtime |-> now]
           /\ \/ copy.lines = s /\ copy.ragged = FALSE
              \/ copy.ragged = TRUE /\ \E part \in Parts(next) : copy.lines = Append(s, part)
    BY <1>4, <2>1, CutShape
  <2>3. copy.lines \in Seq(Line) /\ copy.ragged \in BOOLEAN
        /\ (copy.ragged => copy.lines # <<>>)
    BY <2>2, PartsAreLines, LastOfAppend
  <2> QED
    BY <2>1, <2>2, <2>3 DEF FileOK
<1> QED
  BY <1>3, <1>4

-----------------------------------------------------------------------------
(* The order of the rows that begin or end a span.                         *)

\* A file without lines is in order.
LEMMA OrderEmpty == Ordered(<<>>) /\ \A ts : NotifsBefore(<<>>, ts)
  BY DEF Ordered, NotifsBefore

\* It stays in order when no later row that begins or ends a span precedes the
\* new line.
LEMMA OrderAppend ==
    ASSUME NEW s \in Seq(Line), NEW e \in Line
    PROVE  /\ \A ts : NotifsBefore(Append(s, e), ts) <=>
                         NotifsBefore(s, ts) /\ (Notif(e) => e.ts <= ts)
           /\ Ordered(Append(s, e)) <=>
                 Ordered(s) /\ (Notif(e) => NotifsBefore(s, e.ts))
<1> DEFINE n == Len(s)
           t == Append(s, e)
<1> HIDE DEF Line
<1>1. /\ n \in Nat /\ DOMAIN s = 1 .. n /\ DOMAIN t = 1 .. n + 1
      /\ t[n + 1] = e /\ \A i \in 1 .. n : t[i] = s[i]
  OBVIOUS
<1> HIDE DEF t, n
<1>2. \A ts : NotifsBefore(t, ts) <=> NotifsBefore(s, ts) /\ (Notif(e) => e.ts <= ts)
  <2> TAKE ts
  <2>1. ASSUME NotifsBefore(t, ts) PROVE NotifsBefore(s, ts) /\ (Notif(e) => e.ts <= ts)
    <3>1. n + 1 \in 1 .. n + 1 /\ \A i \in 1 .. n : i \in 1 .. n + 1
      BY <1>1
    <3> QED
      BY <1>1, <2>1, <3>1 DEF NotifsBefore
  <2>2. ASSUME NotifsBefore(s, ts), Notif(e) => e.ts <= ts PROVE NotifsBefore(t, ts)
    <3>1. \A i \in 1 .. n + 1 : i \in 1 .. n \/ i = n + 1
      BY <1>1
    <3> QED
      BY <1>1, <2>2, <3>1 DEF NotifsBefore
  <2> QED
    BY <2>1, <2>2
<1>3. ASSUME Ordered(t) PROVE Ordered(s) /\ (Notif(e) => NotifsBefore(s, e.ts))
  <2>1. /\ n + 1 \in 1 .. n + 1 /\ \A i \in 1 .. n : i \in 1 .. n + 1 /\ i < n + 1
    BY <1>1
  <2> QED
    BY <1>1, <1>3, <2>1 DEF Ordered, NotifsBefore
<1>4. ASSUME Ordered(s), Notif(e) => NotifsBefore(s, e.ts) PROVE Ordered(t)
  <2>1. \A i, j \in 1 .. n + 1 : i < j => i \in 1 .. n /\ (j \in 1 .. n \/ j = n + 1)
    BY <1>1
  <2> QED
    BY <1>1, <1>4, <2>1 DEF Ordered, NotifsBefore
<1> QED
  BY <1>2, <1>3, <1>4 DEF t

\* A torn line neither begins nor ends a span.
LEMMA TornNotNotif == \A n : ~Notif(Torn(n))
  BY DEF Torn, Notif

\* What is not later than a time is not later than a later one.
LEMMA BeforeLater ==
    ASSUME NEW s \in Seq(Line), NEW a \in Nat, NEW b \in Nat, a <= b, NotifsBefore(s, a)
    PROVE  NotifsBefore(s, b)
<1>1. \A i \in DOMAIN s : s[i].ts \in Nat
  BY DEF Line
<1> QED
  BY <1>1 DEF NotifsBefore

\* Leaving lines out keeps the order.
LEMMA OrderTrimmed ==
    ASSUME NEW oldest \in Int
    PROVE  \A s \in Seq(Line) :
              /\ \A ts : NotifsBefore(s, ts) => NotifsBefore(Trimmed(s, oldest), ts)
              /\ Ordered(s) => Ordered(Trimmed(s, oldest))
<1> DEFINE P == {s \in Seq(Line) :
                   /\ \A ts : NotifsBefore(s, ts) => NotifsBefore(Trimmed(s, oldest), ts)
                   /\ Ordered(s) => Ordered(Trimmed(s, oldest))}
<1> HIDE DEF Line
<1>1. <<>> \in P
  <2>1. Trimmed(<<>>, oldest) = <<>>
    BY TrimmedAppend
  <2>2. <<>> \in Seq(Line)
    OBVIOUS
  <2> QED
    BY <2>1, <2>2
<1>2. ASSUME NEW s \in Seq(Line), NEW e \in Line, s \in P PROVE Append(s, e) \in P
  <2> DEFINE t == Trimmed(s, oldest)
  <2>1. t \in Seq(Line)
    BY FilterTypes
  <2>2. Trimmed(Append(s, e), oldest) = t \/ Trimmed(Append(s, e), oldest) = Append(t, e)
    BY TrimmedAppend DEF TrimLine
  <2>3. /\ \A ts : NotifsBefore(s, ts) => NotifsBefore(t, ts)
        /\ Ordered(s) => Ordered(t)
    BY <1>2
  <2>4. Append(s, e) \in Seq(Line)
    OBVIOUS
  <2> HIDE DEF t
  <2>5. \A ts : NotifsBefore(Append(s, e), ts) => NotifsBefore(Trimmed(Append(s, e), oldest), ts)
    <3>1. \A ts : NotifsBefore(Append(s, e), ts) =>
                     NotifsBefore(s, ts) /\ (Notif(e) => e.ts <= ts)
      BY OrderAppend
    <3>2. \A ts : NotifsBefore(t, ts) /\ (Notif(e) => e.ts <= ts) => NotifsBefore(Append(t, e), ts)
      BY <2>1, OrderAppend
    <3> QED
      BY <2>2, <2>3, <3>1, <3>2
  <2>6. Ordered(Append(s, e)) => Ordered(Trimmed(Append(s, e), oldest))
    BY <2>1, <2>2, <2>3, OrderAppend
  <2> QED
    BY <2>4, <2>5, <2>6
<1> HIDE DEF P
<1>3. Seq(Line) \subseteq P
  BY <1>1, <1>2, SizeLoop!SequenceInduction
<1> QED
  BY <1>3 DEF P

\* A copy that was cut off is in order.
LEMMA OrderPrefix ==
    ASSUME NEW s \in Seq(Line), NEW n \in 0 .. Len(s)
    PROVE  LET cut == SubSeq(s, 1, n)
           IN  /\ cut \in Seq(Line)
               /\ \A ts : NotifsBefore(s, ts) => NotifsBefore(cut, ts)
               /\ Ordered(s) => Ordered(cut)
<1> DEFINE cut == SubSeq(s, 1, n)
<1> HIDE DEF Line
<1>1. /\ cut \in Seq(Line) /\ DOMAIN cut = 1 .. n /\ 1 .. n \subseteq DOMAIN s
      /\ \A i \in 1 .. n : cut[i] = s[i]
  OBVIOUS
<1> HIDE DEF cut
<1>2. \A ts : NotifsBefore(s, ts) => NotifsBefore(cut, ts)
  BY <1>1 DEF NotifsBefore
<1>3. Ordered(s) => Ordered(cut)
  BY <1>1 DEF Ordered
<1> QED
  BY <1>1, <1>2, <1>3 DEF cut

\* A write keeps the order when its row is not older than those of the file.
LEMMA GrowsInOrder ==
    ASSUME now \in Nat, NEW file, FileOK(file), Ordered(file.lines), NEW line \in Line,
           Notif(line) => NotifsBefore(file.lines, line.ts),
           NEW grown, grown = AppendWhole(file, line) \/ grown = AppendPart(file, line)
    PROVE  /\ Ordered(grown.lines)
           /\ \A ts : NotifsBefore(file.lines, ts) /\ (Notif(line) => line.ts <= ts)
                         => NotifsBefore(grown.lines, ts)
<1> HIDE DEF Line
<1>1. file.lines \in Seq(Line) /\ file.ragged \in BOOLEAN
  BY DEF FileOK
<1>2. CASE file.ragged
  <2>1. PICK front \in Seq(Line), last \in Line, torn \in Line :
           TornOn(file.lines, grown.lines, front, last, torn)
    BY <1>2, Grows
  <2> QED
    BY <2>1, OrderAppend DEF TornOn
<1>3. CASE ~file.ragged
  <2>1. grown.lines = Append(file.lines, line)
    BY <1>3, Grows
  <2> QED
    BY <1>1, <2>1, OrderAppend
<1> QED
  BY <1>1, <1>2, <1>3

\* What the trimmer copies is in order.
LEMMA CopiesInOrder ==
    ASSUME now \in Nat, FileOK(log), Ordered(log.lines),
           NEW copy, copy = WholeCopy \/ copy \in CutCopies
    PROVE  /\ Ordered(copy.lines)
           /\ \A ts : NotifsBefore(log.lines, ts) => NotifsBefore(copy.lines, ts)
<1> DEFINE oldest == now - retention_days
           all == WholeCopy.lines
<1> HIDE DEF Line
<1>1. log.lines \in Seq(Line) /\ oldest \in Int /\ all = Trimmed(log.lines, oldest)
  BY LogAssumption DEF FileOK, WholeCopy
<1>2. /\ all \in Seq(Line) /\ Ordered(all)
      /\ \A ts : NotifsBefore(log.lines, ts) => NotifsBefore(all, ts)
  BY <1>1, FilterTypes, OrderTrimmed
<1>3. CASE copy = WholeCopy
  BY <1>2, <1>3
<1>4. CASE copy \in CutCopies
  <2>1. PICK n \in 0 .. Len(all) - 1 :
           /\ all[n + 1] \in Line
           /\ \/ copy.lines = SubSeq(all, 1, n)
              \/ \E part \in Parts(all[n + 1]) : copy.lines = Append(SubSeq(all, 1, n), part)
    BY <1>2, <1>4, CutShape
  <2> DEFINE cut == SubSeq(all, 1, n)
             longer == SubSeq(all, 1, n + 1)
             next == all[n + 1]
  <2> HIDE DEF all
  <2>2. n \in 0 .. Len(all) /\ n + 1 \in 0 .. Len(all)
    BY <1>2, <2>1
  <2>3. /\ cut \in Seq(Line) /\ Ordered(cut)
        /\ \A ts : NotifsBefore(all, ts) => NotifsBefore(cut, ts)
    BY <1>2, <2>2, OrderPrefix
  <2>4. /\ longer \in Seq(Line) /\ Ordered(longer)
        /\ \A ts : NotifsBefore(all, ts) => NotifsBefore(longer, ts)
    BY <1>2, <2>2, OrderPrefix
  <2>5. longer = Append(cut, next)
    BY <1>2, <2>2
  <2>6. next \in Line
    BY <2>1
  <2>7. copy.lines = cut \/ \E part \in Parts(next) : copy.lines = Append(cut, part)
    BY <2>1
  <2> HIDE DEF cut, longer, next
  <2>8. ASSUME NEW part \in Parts(next), copy.lines = Append(cut, part)
        PROVE  /\ Ordered(copy.lines)
               /\ \A ts : NotifsBefore(all, ts) => NotifsBefore(copy.lines, ts)
    <3>1. part \in Line /\ (Notif(part) => Notif(next) /\ part.ts = next.ts)
      BY <2>6, <2>8, PartsAreLines
    <3>2. /\ \A ts : NotifsBefore(Append(cut, next), ts) =>
                        NotifsBefore(cut, ts) /\ (Notif(next) => next.ts <= ts)
          /\ Notif(next) => NotifsBefore(cut, next.ts)
      BY <2>3, <2>4, <2>5, <2>6, OrderAppend
    <3>3. /\ \A ts : NotifsBefore(Append(cut, part), ts) <=>
                        NotifsBefore(cut, ts) /\ (Notif(part) => part.ts <= ts)
          /\ Ordered(Append(cut, part)) <=>
                Ordered(cut) /\ (Notif(part) => NotifsBefore(cut, part.ts))
      BY <2>3, <3>1, OrderAppend
    <3> QED
      BY <2>3, <2>4, <2>5, <2>8, <3>1, <3>2, <3>3
  <2> QED
    BY <1>2, <2>3, <2>7, <2>8
<1> QED
  BY <1>2, <1>3, <1>4

-----------------------------------------------------------------------------
(* The invariant holds at first and after every step.                      *)

\* The invariant holds when main has written its first row.
LEMMA InitInv == Init => LogInv
<1> SUFFICES ASSUME Init PROVE LogInv
  OBVIOUS
<1> USE LogAssumption
<1> DEFINE first == Startup(0)
<1>1. first \in Line
  BY StartupIsLine
<1>2. <<first>> \in Seq(Line) /\ <<>> \in Seq(Line)
  <2> HIDE DEF first, Line
  <2> QED
    BY <1>1
<1>3. WritersOK
  BY DEF Init, WritersOK, Idle
<1>4. FilesOK
  <2>1. log = [lines |-> <<first>>, ragged |-> FALSE, mtime |-> 0]
    BY DEF Init, Empty
  <2>2. temp = [lines |-> <<>>, ragged |-> FALSE, mtime |-> 0]
    BY DEF Init, Empty
  <2>3. inode = 0 /\ now = 0
    BY DEF Init
  <2> HIDE DEF first, Line
  <2> QED
    BY <1>2, <2>1, <2>2, <2>3 DEF FilesOK, FileOK
<1>5. BrowserOK
  <2>1. /\ page.pc \in {"closed", "idle"} /\ page.asked = 0 /\ page.lines = <<>>
        /\ cache.asked = 0 /\ cache.lines = <<>> /\ cache.version = <<>>
    BY DEF Init, Page0
  <2>2. page \in {Page0, [Page0 EXCEPT !.pc = "closed"]}
        /\ cache = [version |-> <<>>, asked |-> 0, lines |-> <<>>, whole |-> TRUE]
    BY DEF Init
  <2> HIDE DEF Line
  <2>3. page \in Pages
    <3>1. <<>> \in {<<>>} \cup (Nat \X Nat) /\ <<>> \in Seq(Line)
      BY <1>2
    <3>2. Page0 \in Pages
      BY <3>1 DEF Page0, Pages
    <3>3. [Page0 EXCEPT !.pc = "closed"] \in Pages
      BY <3>2 DEF Pages
    <3> QED
      BY <2>2, <3>2, <3>3
  <2>4. cache \in Answers
    BY <1>2, <2>2 DEF Answers
  <2> QED
    BY <2>1, <2>3, <2>4 DEF BrowserOK
<1>6. HistoryOK
  <2>1. kept = <<first>> /\ log.lines = <<first>> /\ cutoff = -retention_days /\ hurt = FALSE
        /\ now = 0 /\ thread[Poller].pc = "idle"
    BY DEF Init, Empty, Idle
  <2>2. cutoff \in Int /\ cutoff <= now - retention_days
    BY <2>1
  <2>3. Young(log.lines, cutoff) = Young(kept, cutoff)
    BY <2>1
  <2>5. TailOK
    BY DEF Init, Empty, TailOK
  <2> HIDE DEF first, Line
  <2>4. kept \in Seq(Line)
    BY <1>2, <2>1
  <2> QED
    BY <2>1, <2>2, <2>3, <2>4, <2>5 DEF HistoryOK
<1>7. OrderOK
  <2>1. /\ log.lines = <<first>> /\ temp.lines = <<>>
        /\ \A t \in Thread : thread[t].pc = "idle"
    BY DEF Init, Empty, Idle
  <2>2. ~Notif(first)
    BY DEF Startup, Row, Notif
  <2> HIDE DEF first, Line
  <2>3. <<first>> = Append(<<>>, first)
    OBVIOUS
  <2>4. Ordered(<<first>>) /\ \A ts : NotifsBefore(<<first>>, ts)
    BY <1>1, <1>2, <2>2, <2>3, OrderEmpty, OrderAppend
  <2> QED
    BY <2>1, <2>4, OrderEmpty DEF OrderOK
<1> QED
  BY <1>3, <1>4, <1>5, <1>6, <1>7 DEF LogInv

\* The times of the files are not later than a later clock.
LEMMA FileOKLater ==
    ASSUME now \in Nat, now' \in Nat, now <= now', NEW file, FileOK(file)
    PROVE  /\ file \in [lines : Seq(Line), ragged : BOOLEAN, mtime : 0 .. now']
           /\ file.ragged => file.lines # <<>>
<1> HIDE DEF Line
<1> QED
  BY DEF FileOK

\* No more can fail than the bound allows.
LEMMA MishapsBounded ==
    ASSUME WritersOK, NEW failed \in BOOLEAN, Mishap(failed)
    PROVE  mishaps' \in 0 .. MaxMishaps
<1>1. CASE failed
  BY <1>1, LogAssumption DEF Mishap, WritersOK
<1>2. CASE ~failed
  BY <1>2 DEF Mishap, WritersOK
<1> QED
  BY <1>1, <1>2

\* The clock and the writers.
LEMMA WritersStep ==
    ASSUME LogInv, [Next]_vars
    PROVE  WritersOK'
<1> USE LogAssumption
<1> HIDE DEF Line
<1>0. WritersOK
  BY DEF LogInv
<1>1. ASSUME NEW t \in Thread, Stamp(t) PROVE WritersOK'
  <2>1. PICK what \in Rows[t] :
           thread' = [thread EXCEPT ![t] = [pc |-> "log", row |-> Row(what, now)]]
    BY <1>1 DEF Stamp
  <2>2. Row(what, now) \in Line
    <3>1. what \in Whats
      BY DEF Whats
    <3> QED
      BY <3>1, <1>0, RowIsLine DEF WritersOK
  <2>3. thread[t].pc = "idle"
    BY <1>1 DEF Stamp
  <2>4. UNCHANGED <<now, process, logger_mutex, last_trim, mishaps>>
    BY <1>1 DEF Stamp
  <2> QED
    BY <1>0, <2>1, <2>2, <2>3, <2>4 DEF WritersOK
<1>2. ASSUME NEW t \in Thread, Write(t) PROVE WritersOK'
  <2>1. /\ thread[t].pc = "log" /\ thread' = [thread EXCEPT ![t] = Idle] /\ process' = "up"
        /\ UNCHANGED <<now, logger_mutex, last_trim>>
    BY <1>2 DEF Write, MayWrite
  <2>2. mishaps' \in 0 .. MaxMishaps
    <3>1. Mishap(TRUE) \/ UNCHANGED mishaps
      BY <1>2 DEF Write
    <3> QED
      BY <1>0, <3>1, MishapsBounded DEF WritersOK
  <2> QED
    BY <1>0, <2>1, <2>2 DEF WritersOK, Idle
<1>3. CASE TrimCopies
  <2>1. /\ logger_mutex' = Poller /\ last_trim' = now
        /\ thread' = [thread EXCEPT ![Poller].pc = "trim"]
        /\ UNCHANGED <<now, process>>
    BY <1>3 DEF TrimCopies
  <2>2. mishaps' \in 0 .. MaxMishaps
    BY <1>0, <1>3 DEF TrimCopies, Mishap, WritersOK
  <2> QED
    BY <1>0, <2>1, <2>2 DEF WritersOK
<1>4. CASE TrimReplaces
  <2>1. PICK row \in Line \cup {Torn(0)}, pc \in {"idle", "log"} :
           /\ thread' = [thread EXCEPT ![Poller] = [pc |-> pc, row |-> row]]
           /\ pc = "log" => row \in Line
    <3>1. CASE process = "starting"
      <4>1. thread' = [thread EXCEPT ![Poller] = [pc |-> "log", row |-> Startup(now)]]
        BY <1>4, <3>1 DEF TrimReplaces
      <4>2. Startup(now) \in Line
        BY <1>0, StartupIsLine DEF WritersOK
      <4> QED
        BY <4>1, <4>2
    <3>2. CASE process # "starting"
      BY <1>4, <3>2 DEF TrimReplaces, Idle
    <3> QED
      BY <3>1, <3>2
  <2>2. logger_mutex' = Free /\ UNCHANGED <<now, process, last_trim>>
    BY <1>4 DEF TrimReplaces, loggerUnlock
  <2>3. mishaps' \in 0 .. MaxMishaps
    BY <1>0, <1>4 DEF TrimReplaces, Mishap, WritersOK
  <2> QED
    BY <1>0, <2>1, <2>2, <2>3 DEF WritersOK
<1>5. CASE Kill
  <2>1. /\ logger_mutex' = Free /\ process' = "down" /\ thread' = [t \in Thread |-> Idle]
        /\ UNCHANGED <<now, last_trim>>
    BY <1>5 DEF Kill
  <2>2. mishaps' \in 0 .. MaxMishaps
    BY <1>0, <1>5 DEF Kill, Mishap, WritersOK
  <2> QED
    BY <1>0, <2>1, <2>2 DEF WritersOK, Idle
<1>6. CASE Restart
  BY <1>0, <1>6 DEF WritersOK, Restart
<1>7. CASE Tick
  <2>1. now < MaxNow /\ now' = now + 1 /\ UNCHANGED <<process, thread, logger_mutex, last_trim, mishaps>>
    BY <1>7 DEF Tick, writers
  <2> QED
    BY <1>0, <2>1 DEF WritersOK
<1>8. CASE Browser \/ UNCHANGED vars
  <2>1. UNCHANGED <<now, process, thread, logger_mutex, last_trim>>
    BY <1>8 DEF Browser, Request, OpenPass, ReadPass, Respond, writers, vars
  <2>2. mishaps' \in 0 .. MaxMishaps
    <3>1. (\E failed \in BOOLEAN : Mishap(failed)) \/ UNCHANGED mishaps
      <4>1. CASE OpenPass
        BY <4>1 DEF OpenPass
      <4>2. CASE ReadPass
        <5>1. PICK n : Mishap(n < Len(IF page.pc = "old" THEN page.lines ELSE log.lines))
          BY <4>2 DEF ReadPass
        <5> DEFINE short == n < Len(IF page.pc = "old" THEN page.lines ELSE log.lines)
        <5>2. short \in BOOLEAN /\ Mishap(short)
          BY <5>1
        <5> HIDE DEF short
        <5> QED
          BY <5>2
      <4>3. CASE Request \/ Respond \/ UNCHANGED vars
        BY <4>3 DEF Request, Respond, writers, vars
      <4> QED
        BY <1>8, <4>1, <4>2, <4>3 DEF Browser
    <3> QED
      BY <1>0, <3>1, MishapsBounded DEF WritersOK
  <2> QED
    BY <1>0, <2>1, <2>2 DEF WritersOK
<1> QED
  BY <1>1, <1>2, <1>3, <1>4, <1>5, <1>6, <1>7, <1>8 DEF Next

\* A write leaves the file alone or makes it larger, and keeps the young rows
\* those of the history: a row on a line of its own is appended to both, and an
\* unfinished row that something joins is lost to both.
LEMMA WriteShape ==
    ASSUME LogInv, NEW t \in Thread, Write(t)
    PROVE  /\ FileOK(log')
           /\ log' = log \/ Size(log'.lines) > Size(log.lines)
           /\ kept' \in Seq(Line)
           /\ Young(log.lines, cutoff) = Young(kept, cutoff) /\ TailOK =>
                 Young(log'.lines, cutoff) = Young(kept', cutoff) /\ TailOK'
<1> HIDE DEF Line
<1> DEFINE row == thread[t].row
<1>1. /\ now \in Nat /\ row \in Line /\ FileOK(log) /\ log.lines \in Seq(Line)
      /\ kept \in Seq(Line) /\ cutoff \in Int /\ log.ragged \in BOOLEAN
  BY LogAssumption DEF LogInv, WritersOK, FilesOK, HistoryOK, FileOK, Write, MayWrite
<1>2. CASE UNCHANGED <<log, kept, tail>>
  BY <1>1, <1>2 DEF TailOK
<1>3. ASSUME NEW line \in Line, NEW ended \in BOOLEAN, Recorded(line, ended),
             \/ ended /\ log' = AppendWhole(log, line)
             \/ ~ended /\ log' = AppendPart(log, line)
      PROVE  /\ FileOK(log')
             /\ Size(log'.lines) > Size(log.lines)
             /\ kept' \in Seq(Line)
             /\ Young(log.lines, cutoff) = Young(kept, cutoff) /\ TailOK =>
                   Young(log'.lines, cutoff) = Young(kept', cutoff) /\ TailOK'
  <2>0. log' = AppendWhole(log, line) \/ log' = AppendPart(log, line)
    BY <1>3
  <2>1. (ended => log'.ragged = FALSE) /\ (~ended => log'.ragged = TRUE)
    BY <1>3 DEF AppendWhole, AppendPart
  <2>2. FileOK(log') /\ Size(log'.lines) > Size(log.lines)
    BY <1>1, <1>3, <2>0, Grows
  <2>3. /\ kept' = IF tail = "row" THEN Front(kept)
                   ELSE IF tail = "clean" /\ Parses(line) THEN Append(kept, line) ELSE kept
        /\ tail' = IF ended THEN "clean"
                   ELSE IF tail = "clean" /\ Parses(line) THEN "row" ELSE "part"
    BY <1>3 DEF Recorded
  <2>4. kept' \in Seq(Line)
    <3>1. Front(kept) \in Seq(Line)
      BY <1>1 DEF Front
    <3>2. Append(kept, line) \in Seq(Line)
      BY <1>1
    <3> QED
      BY <1>1, <2>3, <3>1, <3>2
  <2>5. ASSUME Young(log.lines, cutoff) = Young(kept, cutoff), TailOK, log.ragged
        PROVE  Young(log'.lines, cutoff) = Young(kept', cutoff) /\ TailOK'
    <3>0. PICK front \in Seq(Line), last \in Line, torn \in Line :
             TornOn(log.lines, log'.lines, front, last, torn)
      BY <1>1, <2>0, <2>5, Grows
    <3>1. /\ log.lines = Append(front, last) /\ log'.lines = Append(front, torn)
          /\ Last(log.lines) = last /\ Last(log'.lines) = torn
          /\ ~Parses(torn)
      BY <3>0 DEF TornOn
    <3>2. /\ Young(log.lines, cutoff) = YoungLine(cutoff, Young(front, cutoff), last)
          /\ Young(log'.lines, cutoff) = Young(front, cutoff)
      BY <3>1, YoungAppend DEF YoungLine
    <3>3. tail # "clean" /\ tail' = (IF ended THEN "clean" ELSE "part")
      BY <2>3, <2>5 DEF TailOK
    <3>4. TailOK'
      BY <1>3, <2>1, <3>1, <3>3 DEF TailOK
    <3>5. CASE tail = "row"
      <4>1. kept' = Front(kept) /\ kept # <<>> /\ Last(kept) = last /\ Parses(last)
        BY <2>3, <2>5, <3>1, <3>5 DEF TailOK
      <4>2. kept' \in Seq(Line) /\ kept = Append(kept', last)
        BY <1>1, <2>4, <4>1, LastSplit DEF Front, Last
      <4>3. Young(kept, cutoff) = YoungLine(cutoff, Young(kept', cutoff), last)
        BY <4>2, YoungAppend
      <4>4. Young(front, cutoff) \in Seq(Line) /\ Young(kept', cutoff) \in Seq(Line)
        BY <1>1, <2>4, FilterTypes
      <4>5. Young(front, cutoff) = Young(kept', cutoff)
        <5>1. CASE last.ts >= cutoff
          <6>1. Append(Young(front, cutoff), last) = Append(Young(kept', cutoff), last)
            BY <2>5, <3>2, <4>1, <4>3, <5>1 DEF YoungLine
          <6> QED
            BY <4>4, <6>1
        <5>2. CASE ~(last.ts >= cutoff)
          BY <2>5, <3>2, <4>3, <5>2 DEF YoungLine
        <5> QED
          BY <5>1, <5>2
      <4> QED
        BY <3>2, <3>4, <4>5
    <3>6. CASE tail = "part"
      <4>1. kept' = kept /\ ~Parses(last)
        BY <2>3, <2>5, <3>1, <3>6 DEF TailOK
      <4> QED
        BY <2>5, <3>2, <3>4, <4>1 DEF YoungLine
    <3> QED
      BY <2>5, <3>3, <3>5, <3>6 DEF TailOK
  <2>6. ASSUME Young(log.lines, cutoff) = Young(kept, cutoff), TailOK, ~log.ragged
        PROVE  Young(log'.lines, cutoff) = Young(kept', cutoff) /\ TailOK'
    <3>1. log'.lines = Append(log.lines, line) /\ Last(log'.lines) = line
      BY <1>1, <1>3, <2>0, <2>6, Grows
    <3>2. tail = "clean"
      BY <2>6 DEF TailOK
    <3>3. /\ Young(log'.lines, cutoff) = YoungLine(cutoff, Young(log.lines, cutoff), line)
          /\ Young(Append(kept, line), cutoff) = YoungLine(cutoff, Young(kept, cutoff), line)
      BY <1>1, <1>3, <3>1, YoungAppend
    <3>4. CASE Parses(line)
      <4>1. /\ kept' = Append(kept, line) /\ kept' # <<>> /\ Last(kept') = line
            /\ tail' = (IF ended THEN "clean" ELSE "row")
        BY <1>1, <1>3, <2>3, <3>2, <3>4, LastOfAppend
      <4>2. TailOK'
        BY <1>3, <2>1, <3>1, <3>4, <4>1 DEF TailOK
      <4> QED
        BY <2>6, <3>3, <4>1, <4>2
    <3>5. CASE ~Parses(line)
      <4>1. kept' = kept /\ tail' = (IF ended THEN "clean" ELSE "part")
        BY <2>3, <3>2, <3>5
      <4>2. TailOK'
        BY <1>3, <2>1, <3>1, <3>5, <4>1 DEF TailOK
      <4> QED
        BY <2>6, <3>3, <3>5, <4>1, <4>2 DEF YoungLine
    <3> QED
      BY <3>4, <3>5
  <2> QED
    BY <1>1, <2>2, <2>4, <2>5, <2>6
<1>4. \/ UNCHANGED <<log, kept, tail>>
      \/ log' = AppendWhole(log, row) /\ Recorded(row, TRUE)
      \/ \E part \in Parts(row) : log' = AppendPart(log, part) /\ Recorded(part, FALSE)
  BY DEF Write
<1> HIDE DEF row
<1>5. CASE log' = AppendWhole(log, row) /\ Recorded(row, TRUE)
  BY <1>1, <1>3, <1>5
<1>6. CASE \E part \in Parts(row) : log' = AppendPart(log, part) /\ Recorded(part, FALSE)
  <2>1. PICK part \in Parts(row) : log' = AppendPart(log, part) /\ Recorded(part, FALSE)
    BY <1>6
  <2>2. part \in Line
    BY <1>1, PartsAreLines
  <2> QED
    BY <1>3, <2>1, <2>2
<1> QED
  BY <1>2, <1>4, <1>5, <1>6

\* The files.
LEMMA FilesStep ==
    ASSUME LogInv, [Next]_vars
    PROVE  FilesOK'
<1> HIDE DEF Line
<1>0. /\ now \in Nat /\ FileOK(log) /\ FileOK(temp) /\ inode \in Nat
  BY LogAssumption DEF LogInv, WritersOK, FilesOK
<1>1. ASSUME NEW t \in Thread, Write(t) PROVE FilesOK'
  <2>1. now' = now /\ temp' = temp /\ inode' = inode
    BY <1>1 DEF Write
  <2>2. FileOK(log')
    BY <1>1, WriteShape
  <2> QED
    BY <1>0, <2>1, <2>2 DEF FilesOK, FileOK
<1>2. CASE TrimCopies
  <2>1. (temp' = WholeCopy \/ temp' \in CutCopies) /\ UNCHANGED <<now, log, inode>>
    BY <1>2 DEF TrimCopies
  <2>2. FileOK(temp')
    BY <1>0, <2>1, CopiesAreFiles
  <2> QED
    BY <1>0, <2>1, <2>2 DEF FilesOK, FileOK
<1>3. CASE TrimReplaces
  <2>1. now' = now /\ temp' = Empty
    BY <1>3 DEF TrimReplaces
  <2>2. (log' = temp /\ inode' = inode + 1) \/ (log' = log /\ inode' = inode)
    BY <1>3 DEF TrimReplaces
  <2>3. FileOK(log') /\ inode' \in Nat
    BY <1>0, <2>2
  <2>4. FileOK(Empty)
    <3>1. <<>> \in Seq(Line)
      OBVIOUS
    <3> QED
      BY <1>0, <3>1 DEF Empty, FileOK
  <2> QED
    BY <1>0, <2>1, <2>3, <2>4 DEF FilesOK, FileOK
<1>4. CASE Tick
  <2>1. now' = now + 1 /\ UNCHANGED files
    BY <1>4 DEF Tick
  <2>2. now' \in Nat /\ now <= now'
    BY <1>0, <2>1
  <2>3. UNCHANGED <<log, inode, temp>>
    BY <2>1 DEF files
  <2> QED
    BY <1>0, <2>2, <2>3, FileOKLater DEF FilesOK, FileOK
<1>5. CASE \/ (\E t \in Thread : Stamp(t)) \/ Kill \/ Restart \/ Browser \/ UNCHANGED vars
  <2>1. UNCHANGED now /\ UNCHANGED files
    BY <1>5 DEF Stamp, Kill, Restart, Browser, Request, OpenPass, ReadPass, Respond, vars
  <2>2. UNCHANGED <<now, log, inode, temp>>
    BY <2>1 DEF files
  <2> QED
    BY <1>0, <2>2 DEF FilesOK, FileOK
<1> QED
  BY <1>1, <1>2, <1>3, <1>4, <1>5 DEF Next

\* What an answer tells stays true while the file grows or is replaced.
LEMMA FitsStays ==
    ASSUME LogInv, NEW answer, Fits(answer), Size(answer.lines) \in Nat,
           answer.version[2] \in Nat, answer.asked \in Nat,
           \/ inode' = inode /\ (log' = log \/ Size(log'.lines) > Size(log.lines))
           \/ inode' = inode + 1,
           Size(log'.lines) \in Nat
    PROVE  /\ answer.asked <= inode'
           /\ answer.asked = inode' /\ answer.whole =>
                 /\ answer.version[2] <= Size(answer.lines)
                 /\ Size(answer.lines) <= Size(log'.lines)
                 /\ Size(answer.lines) = Size(log'.lines) => answer.lines = log'.lines
<1>1. inode \in Nat /\ Size(log.lines) \in Nat
  <2> HIDE DEF Line
  <2> QED
    BY SizeType DEF LogInv, FilesOK, FileOK
<1>2. CASE inode' = inode + 1
  BY <1>1, <1>2 DEF Fits
<1>3. CASE inode' = inode /\ log' = log
  BY <1>3 DEF Fits
<1>4. CASE inode' = inode /\ Size(log'.lines) > Size(log.lines)
  <2> DEFINE old == Size(log.lines)
             new == Size(log'.lines)
             mine == Size(answer.lines)
  <2>1. old \in Nat /\ new \in Nat /\ mine \in Nat /\ new > old
    BY <1>1, <1>4
  <2>2. answer.asked = inode /\ answer.whole => answer.version[2] <= mine /\ mine <= old
    BY DEF Fits
  <2>3. answer.asked <= inode
    BY DEF Fits
  <2> HIDE DEF old, new, mine
  <2>4. answer.asked = inode /\ answer.whole =>
           answer.version[2] <= mine /\ mine <= new /\ mine # new
    BY <2>1, <2>2
  <2> QED
    BY <1>4, <2>3, <2>4 DEF new, mine
<1> QED
  BY <1>2, <1>3, <1>4

\* The browser.
LEMMA BrowserStep ==
    ASSUME LogInv, [Next]_vars
    PROVE  BrowserOK'
<1> HIDE DEF Line
<1>0. /\ BrowserOK /\ inode \in Nat /\ log.lines \in Seq(Line) /\ log.mtime \in Nat
      /\ Size(log.lines) \in Nat
  BY LogAssumption, SizeType DEF LogInv, WritersOK, FilesOK, FileOK
<1>1. FilesOK'
  BY FilesStep
<1>2. log'.lines \in Seq(Line) /\ Size(log'.lines) \in Nat
  BY <1>1, SizeType DEF FilesOK, FileOK
<1>3. /\ page \in Pages /\ page.asked \in Nat /\ Size(page.lines) \in Nat
      /\ cache \in Answers /\ cache.asked \in Nat /\ Size(cache.lines) \in Nat
      /\ page.lines \in Seq(Line) /\ <<>> \in Seq(Line)
  BY <1>0, SizeType DEF BrowserOK, Pages, Answers
<1>4. ASSUME UNCHANGED browser,
             \/ inode' = inode /\ (log' = log \/ Size(log'.lines) > Size(log.lines))
      PROVE  BrowserOK'
  <2>0. page' = page /\ cache' = cache
    BY <1>4 DEF browser
  <2>1. page.pc = "send" => Fits(page)'
    <3> SUFFICES ASSUME page.pc = "send" PROVE Fits(page)'
      OBVIOUS
    <3>1. Fits(page) /\ page.version[2] \in Nat
      BY <1>0 DEF BrowserOK
    <3> QED
      BY <1>2, <1>3, <1>4, <2>0, <3>1, FitsStays DEF Fits
  <2>2. cache.version # <<>> => Fits(cache)'
    <3> SUFFICES ASSUME cache.version # <<>> PROVE Fits(cache)'
      OBVIOUS
    <3>1. Fits(cache) /\ cache.version[2] \in Nat
      BY <1>0 DEF BrowserOK, Answers
    <3> QED
      BY <1>2, <1>3, <1>4, <2>0, <3>1, FitsStays DEF Fits
  <2>3. page.pc \in {"open", "read"} =>
          /\ page.asked <= inode'
          /\ page.asked = inode' => page.version[2] <= Size(log'.lines)
    <3> SUFFICES ASSUME page.pc \in {"open", "read"}, page.asked = inode
                 PROVE  page.version[2] <= Size(log'.lines)
      BY <1>0, <1>4 DEF BrowserOK
    <3>1. page.version[2] \in Nat /\ page.version[2] <= Size(log.lines)
      BY <1>0 DEF BrowserOK
    <3> QED
      BY <1>0, <1>2, <1>4, <3>1
  <2> QED
    BY <1>0, <1>4, <2>0, <2>1, <2>2, <2>3 DEF BrowserOK
<1>5. ASSUME NEW t \in Thread, Write(t) PROVE BrowserOK'
  <2>1. inode' = inode /\ UNCHANGED browser
    BY <1>5 DEF Write
  <2>2. log' = log \/ Size(log'.lines) > Size(log.lines)
    BY <1>5, WriteShape
  <2> QED
    BY <1>4, <2>1, <2>2
<1>6. CASE TrimReplaces
  <2>1. CASE UNCHANGED <<log, inode, page, cache>>
    BY <1>4, <2>1 DEF browser
  <2>2. CASE /\ inode' = inode + 1 /\ cache' = cache
             /\ page' = IF page.pc = "read" THEN [page EXCEPT !.pc = "old", !.lines = log.lines]
                        ELSE page
    <3>1. cache.version # <<>> => Fits(cache)'
      <4> SUFFICES ASSUME cache.version # <<>> PROVE Fits(cache)'
        OBVIOUS
      <4>1. Fits(cache) /\ cache.version[2] \in Nat
        BY <1>0 DEF BrowserOK, Answers
      <4> QED
        BY <1>2, <1>3, <2>2, <4>1, FitsStays DEF Fits
    <3>2. CASE page.pc = "read"
      <4>1. /\ page'.pc = "old" /\ page'.lines = log.lines
            /\ page'.asked = page.asked /\ page'.version = page.version
        BY <1>3, <2>2, <3>2 DEF Pages
      <4>2. page.asked <= inode /\ page.version \in Nat \X Nat
        BY <1>0, <3>2 DEF BrowserOK
      <4>3. page' \in Pages
        BY <1>0, <1>3, <2>2, <3>2 DEF Pages
      <4> QED
        BY <1>0, <1>3, <2>2, <3>1, <4>1, <4>2, <4>3 DEF BrowserOK
    <3>3. CASE page.pc # "read"
      <4>1. page' = page
        BY <2>2, <3>3
      <4>2. page.pc = "send" => Fits(page)'
        <5> SUFFICES ASSUME page.pc = "send" PROVE Fits(page)'
          OBVIOUS
        <5>1. Fits(page) /\ page.version[2] \in Nat
          BY <1>0 DEF BrowserOK
        <5> QED
          BY <1>2, <1>3, <2>2, <4>1, <5>1, FitsStays DEF Fits
      <4>3. page.pc = "open" => page.asked < inode'
        BY <1>0, <1>3, <2>2 DEF BrowserOK
      <4>4. page.pc = "old" => page.asked < inode'
        BY <1>0, <1>3, <2>2 DEF BrowserOK
      <4> QED
        BY <1>0, <1>3, <2>2, <3>1, <3>3, <4>1, <4>2, <4>3, <4>4 DEF BrowserOK
    <3> QED
      BY <3>2, <3>3
  <2> QED
    BY <1>6, <2>1, <2>2 DEF TrimReplaces
<1>7. CASE Kill
  <2>1. cache' = cache /\ log' = log /\ inode' = inode
    BY <1>7 DEF Kill, files
  <2>2. page' = page \/ page' = Page0
    BY <1>7 DEF Kill
  <2>3. CASE page' = page
    BY <1>4, <2>1, <2>3 DEF browser
  <2>4. CASE page' = Page0
    <3>1. page'.pc = "idle" /\ page'.asked = 0 /\ page'.lines \in Seq(Line)
      BY <2>4 DEF Page0
    <3>2. page' \in Pages
      BY <1>3, <2>4 DEF Page0, Pages
    <3> QED
      BY <1>0, <2>1, <3>1, <3>2 DEF BrowserOK, Fits
  <2> QED
    BY <2>2, <2>3, <2>4
<1>8. CASE Request
  <2>1. /\ page' = [page EXCEPT !.pc = "open", !.version = graphLogVersion(log), !.asked = inode]
        /\ cache' = cache /\ log' = log /\ inode' = inode
    BY <1>8 DEF Request, files
  <2>2. graphLogVersion(log) = <<log.mtime, Size(log.lines)>>
    BY VersionIs
  <2>3. /\ page'.pc = "open" /\ page'.lines = page.lines /\ page'.asked = inode
        /\ page'.version = <<log.mtime, Size(log.lines)>>
    BY <1>3, <2>1, <2>2 DEF Pages
  <2>4. page' \in Pages
    <3>1. graphLogVersion(log) \in {<<>>} \cup (Nat \X Nat)
      BY <1>0, <2>2
    <3> QED
      BY <1>0, <1>3, <2>1, <3>1 DEF Pages
  <2> QED
    BY <1>0, <2>1, <2>3, <2>4 DEF BrowserOK, Fits
<1>9. CASE OpenPass
  <2>1. /\ page.pc = "open" /\ cache' = cache /\ log' = log /\ inode' = inode
        /\ \/ page' = [page EXCEPT !.pc = "read"]
           \/ page' = [page EXCEPT !.pc = "send", !.whole = FALSE]
    BY <1>9 DEF OpenPass, files
  <2>2. CASE page' = [page EXCEPT !.pc = "read"]
    <3>1. /\ page'.pc = "read" /\ page'.lines = page.lines /\ page'.asked = page.asked
          /\ page'.version = page.version
      BY <1>3, <2>2 DEF Pages
    <3>2. page' \in Pages
      BY <1>3, <2>2 DEF Pages
    <3> QED
      BY <1>0, <2>1, <3>1, <3>2 DEF BrowserOK, Fits
  <2>3. CASE page' = [page EXCEPT !.pc = "send", !.whole = FALSE]
    <3>1. /\ page'.pc = "send" /\ page'.whole = FALSE /\ page'.asked = page.asked
          /\ page'.version = page.version
      BY <1>3, <2>3 DEF Pages
    <3>2. page' \in Pages
      BY <1>3, <2>3 DEF Pages
    <3> QED
      BY <1>0, <2>1, <3>1, <3>2 DEF BrowserOK, Fits
  <2> QED
    BY <2>1, <2>2, <2>3
<1>10. CASE ReadPass
  <2> DEFINE lines == IF page.pc = "old" THEN page.lines ELSE log.lines
  <2>1. /\ page.pc \in {"read", "old"} /\ lines \in Seq(Line)
        /\ cache' = cache /\ log' = log /\ inode' = inode
    BY <1>0, <1>3, <1>10 DEF ReadPass, files
  <2>2. PICK n \in 0 .. Len(lines) :
           page' = [page EXCEPT !.pc = "send", !.lines = SubSeq(lines, 1, n),
                                !.whole = (n = Len(lines))]
    BY <1>10 DEF ReadPass
  <2>3. SubSeq(lines, 1, n) \in Seq(Line) /\ (n = Len(lines) => SubSeq(lines, 1, n) = lines)
    <3> HIDE DEF lines
    <3> QED
      BY <2>1
  <2>4. /\ page'.pc = "send" /\ page'.asked = page.asked /\ page'.version = page.version
        /\ page'.whole => page'.lines = lines
    BY <1>3, <2>2, <2>3 DEF Pages
  <2>5. Fits(page')
    BY <1>0, <1>3, <2>1, <2>4 DEF BrowserOK, Fits
  <2>6. page' \in Pages
    <3> HIDE DEF lines
    <3> QED
      BY <1>3, <2>2, <2>3 DEF Pages
  <2> QED
    BY <1>0, <2>1, <2>4, <2>5, <2>6 DEF BrowserOK, Fits
<1>11. CASE Respond
  <2>1. /\ page.pc = "send" /\ page' = Page0
        /\ cache' = [version |-> page.version, asked |-> page.asked, lines |-> page.lines,
                    whole |-> page.whole]
        /\ log' = log /\ inode' = inode
    BY <1>11 DEF Respond, Cached, files
  <2>2. page'.pc = "idle" /\ page' \in Pages
    BY <1>3, <2>1 DEF Page0, Pages
  <2>3. page.version \in Nat \X Nat /\ Fits(page)
    BY <1>0, <2>1 DEF BrowserOK
  <2>4. cache' \in Answers
    BY <1>3, <2>1, <2>3 DEF Answers, Pages
  <2> QED
    BY <1>3, <2>1, <2>2, <2>3, <2>4 DEF BrowserOK, Fits
<1>12. CASE \/ (\E t \in Thread : Stamp(t)) \/ TrimCopies \/ Restart \/ Tick \/ UNCHANGED vars
  <2>1. UNCHANGED <<log, inode>> /\ UNCHANGED browser
    BY <1>12 DEF Stamp, TrimCopies, Restart, Tick, files, vars
  <2> QED
    BY <1>4, <2>1
<1> QED
  BY <1>5, <1>6, <1>7, <1>8, <1>9, <1>10, <1>11, <1>12 DEF Next, Browser

\* The history.  A trim reads, copies and replaces the log under the mutex, so
\* what replaces the log is what the trim made of it.
LEMMA HistoryStep ==
    ASSUME LogInv, [Next]_vars
    PROVE  HistoryOK'
<1> USE LogAssumption
<1> HIDE DEF Line
<1>0. /\ WritersOK /\ HistoryOK /\ now \in Nat /\ log.lines \in Seq(Line)
      /\ kept \in Seq(Line) /\ cutoff \in Int /\ cutoff <= now - retention_days
      /\ temp.mtime \in Nat /\ temp.mtime <= now
  BY DEF LogInv, WritersOK, HistoryOK, FilesOK, FileOK
<1>1. ASSUME NEW t \in Thread, Stamp(t) PROVE HistoryOK'
  <2>1. UNCHANGED <<now, log, temp, kept, tail, cutoff, hurt>>
    BY <1>1 DEF Stamp, files, history
  <2>2. thread[t].pc = "idle" /\ \E row : thread' = [thread EXCEPT ![t] = [pc |-> "log", row |-> row]]
    BY <1>1 DEF Stamp
  <2>3. thread'[Poller].pc = "trim" => thread[Poller].pc = "trim"
    BY <1>0, <2>2 DEF WritersOK
  <2> QED
    BY <1>0, <2>1, <2>3 DEF HistoryOK, TailOK
<1>2. ASSUME NEW t \in Thread, Write(t) PROVE HistoryOK'
  <2>1. UNCHANGED <<now, temp, cutoff, hurt>>
    BY <1>2 DEF Write
  <2>2. thread[Poller].pc # "trim" /\ thread' = [thread EXCEPT ![t] = Idle]
    BY <1>0, <1>2 DEF Write, MayWrite, WritersOK
  <2>3. thread'[Poller].pc # "trim"
    BY <1>0, <2>2 DEF WritersOK, Idle
  <2>4. /\ kept' \in Seq(Line)
        /\ Young(log.lines, cutoff) = Young(kept, cutoff) /\ TailOK =>
              Young(log'.lines, cutoff) = Young(kept', cutoff) /\ TailOK'
    BY <1>2, WriteShape
  <2> QED
    BY <1>0, <2>1, <2>3, <2>4 DEF HistoryOK
<1>3. CASE TrimCopies
  <2>1. /\ (temp' = WholeCopy /\ hurt' = hurt) \/ (temp' \in CutCopies /\ hurt' = TRUE)
        /\ UNCHANGED <<now, log, kept, tail, cutoff>>
    BY <1>3 DEF TrimCopies
  <2>2. temp'.mtime = now
    BY <1>0, <2>1, CopiesAreFiles DEF LogInv, FilesOK
  <2>3. ~hurt' => ~hurt /\ temp' = WholeCopy
    BY <2>1
  <2>4. ~hurt' => /\ temp'.lines = Trimmed(log.lines, now - retention_days)
                  /\ temp'.ragged = (log.ragged /\ Keeps(Last(log.lines), now - retention_days))
    BY <2>3 DEF WholeCopy
  <2>5. hurt' \in BOOLEAN /\ (TailOK => TailOK')
    BY <1>0, <2>1 DEF HistoryOK, TailOK
  <2> QED
    BY <1>0, <2>1, <2>2, <2>3, <2>4, <2>5 DEF HistoryOK
<1>4. CASE TrimReplaces
  <2>0. /\ thread[Poller].pc = "trim" /\ UNCHANGED <<now, hurt>>
        /\ thread' = [thread EXCEPT ![Poller] =
                         IF process = "starting" THEN [pc |-> "log", row |-> Startup(now)] ELSE Idle]
    BY <1>4 DEF TrimReplaces
  <2>1. thread'[Poller].pc # "trim"
    BY <1>0, <2>0 DEF WritersOK, Idle
  <2>2. CASE UNCHANGED <<log, kept, tail, cutoff>>
    BY <1>0, <2>0, <2>1, <2>2 DEF HistoryOK, TailOK
  <2>3. CASE /\ log' = temp /\ cutoff' = temp.mtime - retention_days
             /\ kept' = Young(kept, cutoff')
             /\ tail' = IF tail = "row" /\ ~Keeps(Last(kept), cutoff') THEN "clean" ELSE tail
    <3>1. cutoff' \in Int /\ cutoff' <= now' - retention_days /\ cutoff <= cutoff'
      BY <1>0, <2>0, <2>3 DEF HistoryOK
    <3>2. kept' \in Seq(Line)
      BY <1>0, <2>3, <3>1, FilterTypes
    <3>3. ASSUME ~hurt PROVE Young(log'.lines, cutoff') = Young(kept', cutoff')
      <4>1. log'.lines = Trimmed(log.lines, cutoff')
        BY <1>0, <2>0, <2>3, <3>3 DEF HistoryOK
      <4>2. Young(log'.lines, cutoff') = Young(log.lines, cutoff')
        BY <1>0, <3>1, <4>1, YoungOfTrimmed
      <4>3. Young(Young(log.lines, cutoff), cutoff') = Young(log.lines, cutoff')
        BY <1>0, <3>1, YoungTwice
      <4>4. Young(Young(kept, cutoff), cutoff') = Young(kept, cutoff')
        BY <1>0, <3>1, YoungTwice
      <4>5. Young(Young(kept, cutoff'), cutoff') = Young(kept, cutoff')
        BY <1>0, <3>1, YoungTwice
      <4>6. Young(log.lines, cutoff) = Young(kept, cutoff)
        BY <1>0, <3>3 DEF HistoryOK
      <4> QED
        BY <2>3, <4>2, <4>3, <4>4, <4>5, <4>6
    <3>4. ASSUME ~hurt PROVE TailOK'
      <4>1. /\ log'.lines = Trimmed(log.lines, cutoff')
            /\ log'.ragged = (log.ragged /\ Keeps(Last(log.lines), cutoff'))
            /\ TailOK
        BY <1>0, <2>0, <2>3, <3>4 DEF HistoryOK
      <4>2. log.ragged \in BOOLEAN /\ (log.ragged => log.lines # <<>>)
        BY DEF LogInv, FilesOK, FileOK
      <4>3. log.ragged /\ Keeps(Last(log.lines), cutoff') => Last(log'.lines) = Last(log.lines)
        BY <1>0, <3>1, <4>1, <4>2, TrimmedLast
      <4>4. CASE tail = "clean"
        BY <2>3, <4>1, <4>4 DEF TailOK
      <4>5. CASE tail = "part"
        <5>1. log.ragged /\ Keeps(Last(log.lines), cutoff') /\ ~Parses(Last(log.lines))
          BY <4>1, <4>2, <4>5 DEF TailOK, Keeps
        <5> QED
          BY <2>3, <4>1, <4>3, <4>5, <5>1 DEF TailOK
      <4>6. CASE tail = "row"
        <5>1. /\ log.ragged /\ kept # <<>> /\ Last(kept) = Last(log.lines)
              /\ Parses(Last(log.lines))
          BY <4>1, <4>2, <4>6 DEF TailOK
        <5>2. CASE Keeps(Last(kept), cutoff')
          <6>1. Young(kept, cutoff') # <<>> /\ Last(Young(kept, cutoff')) = Last(kept)
            BY <1>0, <3>1, <5>1, <5>2, YoungLast
          <6> QED
            BY <2>3, <4>1, <4>3, <4>6, <5>1, <5>2, <6>1 DEF TailOK
        <5>3. CASE ~Keeps(Last(kept), cutoff')
          BY <2>3, <4>1, <4>6, <5>1, <5>3 DEF TailOK
        <5> QED
          BY <5>2, <5>3
      <4> QED
        BY <4>1, <4>4, <4>5, <4>6 DEF TailOK
    <3> QED
      BY <1>0, <2>0, <2>1, <3>1, <3>2, <3>3, <3>4 DEF HistoryOK
  <2> QED
    BY <1>4, <2>2, <2>3 DEF TrimReplaces
<1>5. CASE Kill
  <2>1. UNCHANGED <<now, log, temp, kept, tail, cutoff, hurt>>
        /\ thread' = [t \in Thread |-> Idle]
    BY <1>5 DEF Kill, files, history
  <2> QED
    BY <1>0, <2>1 DEF HistoryOK, TailOK, Idle
<1>6. CASE Tick
  <2>1. now' = now + 1 /\ UNCHANGED <<log, temp, thread, kept, tail, cutoff, hurt>>
    BY <1>6 DEF Tick, files, writers, history
  <2> QED
    BY <1>0, <2>1 DEF HistoryOK, TailOK
<1>7. CASE Restart \/ Browser \/ UNCHANGED vars
  <2>1. UNCHANGED <<now, log, temp, thread, kept, tail, cutoff, hurt>>
    BY <1>7 DEF Restart, Browser, Request, OpenPass, ReadPass, Respond, files, writers, history, vars
  <2> QED
    BY <1>0, <2>1 DEF HistoryOK, TailOK
<1> QED
  BY <1>1, <1>2, <1>3, <1>4, <1>5, <1>6, <1>7 DEF Next

\* The order of the spans' rows: they are stamped by one thread and appended
\* one after the other, and neither a torn write nor a trim moves a line.
LEMMA OrderStep ==
    ASSUME LogInv, [Next]_vars
    PROVE  OrderOK'
<1> USE LogAssumption
<1> HIDE DEF Line
<1>0. /\ WritersOK /\ OrderOK /\ now \in Nat /\ FileOK(log) /\ FileOK(temp)
      /\ log.lines \in Seq(Line) /\ temp.lines \in Seq(Line)
  BY DEF LogInv, WritersOK, FilesOK, FileOK
<1>1. ASSUME NEW t \in Thread, Stamp(t) PROVE OrderOK'
  <2>1. UNCHANGED <<now, log, temp>>
    BY <1>1 DEF Stamp, files
  <2>2. PICK what \in Rows[t] :
           thread' = [thread EXCEPT ![t] = [pc |-> "log", row |-> Row(what, now)]]
    BY <1>1 DEF Stamp
  <2>3. Row(what, now).ts = now /\ (Notif(Row(what, now)) => Notif(what))
    BY DEF Row, Notif
  <2>4. thread'[t].row = Row(what, now) /\ \A u \in Thread \ {t} : thread'[u] = thread[u]
    BY <1>0, <2>2 DEF WritersOK
  <2>5. ASSUME NEW u \in Thread, thread'[u].pc = "log"
        PROVE  /\ thread'[u].row.ts <= now
               /\ Notif(thread'[u].row) =>
                     /\ \E w \in Rows[u] : Notif(w)
                     /\ NotifsBefore(log.lines, thread'[u].row.ts)
                     /\ NotifsBefore(temp.lines, thread'[u].row.ts)
    <3>1. CASE u = t
      BY <1>0, <2>3, <2>4, <3>1 DEF OrderOK
    <3>2. CASE u # t
      BY <1>0, <2>4, <2>5, <3>2 DEF OrderOK
    <3> QED
      BY <3>1, <3>2
  <2> QED
    BY <1>0, <2>1, <2>5 DEF OrderOK
<1>2. ASSUME NEW t \in Thread, Write(t) PROVE OrderOK'
  <2> DEFINE row == thread[t].row
  <2>1. /\ now' = now /\ temp' = temp /\ thread[t].pc = "log"
        /\ thread' = [thread EXCEPT ![t] = Idle]
    BY <1>2 DEF Write, MayWrite
  <2>2. \/ log' = log \/ log' = AppendWhole(log, row)
        \/ \E part \in Parts(row) : log' = AppendPart(log, part)
    BY <1>2 DEF Write
  <2>3. /\ row \in Line /\ row.ts <= now
        /\ Notif(row) => /\ \E what \in Rows[t] : Notif(what)
                         /\ NotifsBefore(log.lines, row.ts)
    BY <1>0, <2>1 DEF WritersOK, OrderOK
  <2>4. \A u \in Thread : thread'[u].pc = "log" => u # t /\ thread'[u] = thread[u]
    BY <1>0, <2>1 DEF WritersOK, Idle
  <2> HIDE DEF row
  <2>5. /\ Ordered(log'.lines)
        /\ \A ts : NotifsBefore(log.lines, ts) /\ (Notif(row) => row.ts <= ts)
                      => NotifsBefore(log'.lines, ts)
    <3>1. CASE log' = log
      BY <1>0, <3>1 DEF OrderOK
    <3>2. CASE log' = AppendWhole(log, row)
      <4>1. Ordered(log.lines)
        BY <1>0 DEF OrderOK
      <4> QED
        BY <1>0, <2>3, <3>2, <4>1, GrowsInOrder
    <3>3. CASE \E part \in Parts(row) : log' = AppendPart(log, part)
      <4>1. PICK part \in Parts(row) : log' = AppendPart(log, part)
        BY <3>3
      <4>2. part \in Line /\ (Notif(part) => Notif(row) /\ part.ts = row.ts)
        BY <2>3, PartsAreLines
      <4>3. Ordered(log.lines)
        BY <1>0 DEF OrderOK
      <4> QED
        BY <1>0, <2>3, <4>1, <4>2, <4>3, GrowsInOrder
    <3> QED
      BY <2>2, <3>1, <3>2, <3>3
  <2>6. ASSUME NEW u \in Thread, thread'[u].pc = "log"
        PROVE  /\ thread'[u].row.ts <= now
               /\ Notif(thread'[u].row) =>
                     /\ \E w \in Rows[u] : Notif(w)
                     /\ NotifsBefore(log'.lines, thread'[u].row.ts)
                     /\ NotifsBefore(temp.lines, thread'[u].row.ts)
    <3>1. thread'[u] = thread[u] /\ u # t
      BY <2>4, <2>6
    <3>2. /\ thread[u].row.ts <= now
          /\ Notif(thread[u].row) =>
                /\ \E w \in Rows[u] : Notif(w)
                /\ NotifsBefore(log.lines, thread[u].row.ts)
                /\ NotifsBefore(temp.lines, thread[u].row.ts)
      BY <1>0, <2>6, <3>1 DEF OrderOK
    <3>3. Notif(thread[u].row) => ~Notif(row)
      BY <2>3, <3>1, <3>2, RowsAssumption
    <3> QED
      BY <2>5, <3>1, <3>2, <3>3
  <2>7. NotifsBefore(log'.lines, now)
    BY <1>0, <2>3, <2>5 DEF OrderOK
  <2> QED
    BY <1>0, <2>1, <2>5, <2>6, <2>7 DEF OrderOK
<1>3. CASE TrimCopies
  <2>1. /\ temp' = WholeCopy \/ temp' \in CutCopies
        /\ UNCHANGED <<now, log>>
        /\ thread' = [thread EXCEPT ![Poller].pc = "trim"]
    BY <1>3 DEF TrimCopies
  <2>2. /\ Ordered(temp'.lines)
        /\ \A ts : NotifsBefore(log.lines, ts) => NotifsBefore(temp'.lines, ts)
    BY <1>0, <2>1, CopiesInOrder DEF OrderOK
  <2>3. \A u \in Thread : thread'[u].pc = "log" => thread'[u] = thread[u]
    BY <1>0, <2>1 DEF WritersOK
  <2> QED
    BY <1>0, <2>1, <2>2, <2>3 DEF OrderOK
<1>4. CASE TrimReplaces
  <2>1. /\ log' \in {temp, log} /\ temp' = Empty /\ now' = now
        /\ thread' = [thread EXCEPT ![Poller] =
                         IF process = "starting" THEN [pc |-> "log", row |-> Startup(now)] ELSE Idle]
    BY <1>4 DEF TrimReplaces
  <2>2. temp'.lines = <<>>
    BY <2>1 DEF Empty
  <2>3. Startup(now).ts = now /\ ~Notif(Startup(now))
    BY DEF Startup, Row, Notif
  <2>4. \A u \in Thread : thread'[u].pc = "log" =>
           thread'[u] = thread[u] \/ thread'[u].row = Startup(now)
    BY <1>0, <2>1 DEF WritersOK, Idle
  <2> QED
    BY <1>0, <2>1, <2>2, <2>3, <2>4, OrderEmpty DEF OrderOK
<1>5. CASE Kill
  <2>1. UNCHANGED <<now, log, temp>> /\ thread' = [t \in Thread |-> Idle]
    BY <1>5 DEF Kill, files
  <2>2. \A u \in Thread : thread'[u].pc # "log"
    BY <2>1 DEF Idle
  <2> QED
    BY <1>0, <2>1, <2>2 DEF OrderOK
<1>6. CASE Tick
  <2>1. now' = now + 1 /\ UNCHANGED <<log, temp, thread>>
    BY <1>6 DEF Tick, files, writers
  <2>2. now' \in Nat /\ now <= now'
    BY <1>0, <2>1
  <2>3. NotifsBefore(log.lines, now') /\ NotifsBefore(temp.lines, now')
    BY <1>0, <2>2, BeforeLater DEF OrderOK
  <2>4. \A t \in Thread : thread[t].pc = "log" => thread[t].row.ts <= now'
    <3>1. \A t \in Thread : thread[t].pc = "log" =>
             thread[t].row.ts \in Nat /\ thread[t].row.ts <= now
      BY <1>0 DEF OrderOK, WritersOK, Line
    <3> QED
      BY <1>0, <2>2, <3>1
  <2> QED
    BY <1>0, <2>1, <2>3, <2>4 DEF OrderOK
<1>7. CASE Restart \/ Browser \/ UNCHANGED vars
  <2>1. UNCHANGED <<now, log, temp, thread>>
    BY <1>7 DEF Restart, Browser, Request, OpenPass, ReadPass, Respond, files, writers, vars
  <2> QED
    BY <1>0, <2>1 DEF OrderOK
<1> QED
  BY <1>1, <1>2, <1>3, <1>4, <1>5, <1>6, <1>7 DEF Next

\* It holds in every state.
LEMMA Invariant == Spec => []LogInv
<1>1. Init => LogInv
  BY InitInv
<1>2. LogInv /\ [Next]_vars => LogInv'
  BY WritersStep, FilesStep, BrowserStep, HistoryStep, OrderStep DEF LogInv
<1> QED
  BY <1>1, <1>2, PTL DEF Spec

-----------------------------------------------------------------------------
(* The properties.                                                         *)

\* The variables keep their types: the mutex is the trimmer's while it trims,
\* only a last line lacks its newline, and no time is later than the clock.
THEOREM TypeCorrect == Spec => []TypeOK
<1>1. LogInv => TypeOK
  <2> SUFFICES ASSUME LogInv PROVE TypeOK
    OBVIOUS
  <2> HIDE DEF Line
  <2>1. log.ragged \in BOOLEAN /\ log.mtime \in 0 .. now /\ (log.ragged => log.lines # <<>>)
    BY DEF LogInv, FilesOK, FileOK
  <2>2. \A t \in Thread :
           thread[t].pc \in {"idle", "log"} \cup (IF t = Poller THEN {"trim"} ELSE {})
    BY DEF LogInv, WritersOK
  <2>3. page.pc \in {"closed", "idle", "open", "read", "old", "send"}
    BY DEF LogInv, BrowserOK, Pages
  <2> QED
    BY <2>1, <2>2, <2>3 DEF TypeOK, LogInv, WritersOK, FilesOK
<1> QED
  BY <1>1, Invariant, PTL

\* No interleaving of appends, trims and kills loses, doubles or reorders a row
\* that is young enough, but for a copy that did not fit and for the two rows of
\* a line that was written on after its newline had been cut off.
THEOREM KeepsRows == Spec => []LogKeepsRows
<1>1. LogInv => LogKeepsRows
  BY DEF LogInv, HistoryOK, LogKeepsRows
<1> QED
  BY <1>1, Invariant, PTL

\* A browser that is told 304 shows what the log holds, unless the log was
\* trimmed in between or a pass failed to read it.
THEOREM NotModified == Spec => []NotModifiedIsTrue
<1>1. LogInv => NotModifiedIsTrue
  <2> SUFFICES ASSUME LogInv, cache.version = graphLogVersion(log), cache.asked = inode,
                      cache.whole
               PROVE  cache.lines = log.lines
    BY DEF NotModifiedIsTrue, Current, Stuck
  <2> HIDE DEF Line
  <2>1. cache.version = <<log.mtime, Size(log.lines)>>
    BY VersionIs
  <2>2. cache.version # <<>> /\ cache.version[2] = Size(log.lines)
    BY <2>1
  <2>3. Fits(cache) /\ cache \in Answers
    BY <2>2 DEF LogInv, BrowserOK
  <2>4. Size(cache.lines) \in Nat /\ Size(log.lines) \in Nat
    BY <2>3, SizeType DEF Answers, LogInv, FilesOK, FileOK
  <2> QED
    BY <2>2, <2>3, <2>4 DEF Fits
<1> QED
  BY <1>1, Invariant, PTL

-----------------------------------------------------------------------------
(* The Today panel.                                                        *)

TodayLine(env, today, row) == TodayRow(today, row)

TodayLoop == INSTANCE FoldFacts WITH body <- TodayLine

\* The panel is a loop over the lines.
LEMMA TodayIsLoop == \A lines : readTodaySnapshot(lines) = TodayLoop!Looped(0, NoToday, lines)
  BY DEF readTodaySnapshot, TodayLine, FoldLeft, MapThenFoldSet, Max, TodayLoop!Looped,
         TodayLoop!FoldLeft, TodayLoop!MapThenFoldSet, TodayLoop!Max

\* A row has all readings or none.
LEMMA LineReadings ==
    ASSUME NEW line \in Line
    PROVE  /\ DOMAIN line.num = {} => Given(line.num, Columns) = NoNum
                                      /\ Given(line.num, {FanSpeed}) = NoNum
           /\ DOMAIN line.num # {} => /\ Parses(line)
                                      /\ FanSpeed \in DOMAIN line.num /\ line.num[FanSpeed] \in Int
                                      /\ Given(line.num, Columns) # NoNum
                                      /\ Given(line.num, {FanSpeed}) # NoNum
<1>1. line.num \in Nums /\ (~Parses(line) => line.num = NoNum)
  BY DEF Line
<1>2. ASSUME DOMAIN line.num = {}
      PROVE  Given(line.num, Columns) = NoNum /\ Given(line.num, {FanSpeed}) = NoNum
  BY <1>2 DEF Given, NoNum
<1>3. ASSUME DOMAIN line.num # {}
      PROVE  /\ Parses(line)
             /\ FanSpeed \in DOMAIN line.num /\ line.num[FanSpeed] \in Int
             /\ Given(line.num, Columns) # NoNum
             /\ Given(line.num, {FanSpeed}) # NoNum
  <2>1. DOMAIN line.num = Columns \cup {FanSpeed} /\ line.num[FanSpeed] \in Int
    BY <1>1, <1>3 DEF Nums
  <2>2. DOMAIN NoNum = {}
    BY DEF NoNum
  <2>3. /\ DOMAIN Given(line.num, Columns) = Columns
        /\ DOMAIN Given(line.num, {FanSpeed}) = {FanSpeed}
    BY <2>1 DEF Given
  <2>4. Parses(line)
    BY <1>1, <1>3, <2>2
  <2> QED
    BY <2>1, <2>2, <2>3, <2>4, PagesAssumption
<1> QED
  BY <1>2, <1>3

\* The newest row with readings, its columns and its time.
Latest(lines) ==
    LET with == {i \in DOMAIN lines : DOMAIN lines[i].num # {}}
    IN  IF with = {} THEN NoToday
        ELSE LET row == lines[Max(with)]
             IN  [values |-> Given(row.num, Columns), fan |-> Given(row.num, {FanSpeed}),
                  time |-> row.ts]

\* One line more: it is the newest with readings, or that stays what it was.
LEMMA LatestAppend ==
    ASSUME NEW s \in Seq(Line), NEW e \in Line
    PROVE  Latest(Append(s, e)) =
             IF DOMAIN e.num = {} THEN Latest(s)
             ELSE [values |-> Given(e.num, Columns), fan |-> Given(e.num, {FanSpeed}),
                   time |-> e.ts]
<1> DEFINE n == Len(s)
           t == Append(s, e)
           old == {i \in DOMAIN s : DOMAIN s[i].num # {}}
           new == {i \in DOMAIN t : DOMAIN t[i].num # {}}
<1> HIDE DEF Line
<1>1. /\ n \in Nat /\ DOMAIN s = 1 .. n /\ DOMAIN t = 1 .. n + 1
      /\ t[n + 1] = e /\ \A i \in 1 .. n : t[i] = s[i]
  OBVIOUS
<1> HIDE DEF t, n
<1>2. CASE DOMAIN e.num = {}
  <2>1. new = old
    BY <1>1, <1>2
  <2>2. \A i \in old : t[i] = s[i]
    BY <1>1
  <2>3. ASSUME old # {} PROVE Max(old) \in old
    <3>1. old \subseteq 1 .. n
      BY <1>1
    <3>2. old \in SUBSET (1 .. n + 1)
      BY <1>1, <3>1
    <3> HIDE DEF old
    <3>3. SizeLoop!Max(old) \in old
      BY <1>1, <2>3, <3>2, SizeLoop!MaxOfInterval
    <3> QED
      BY <3>3 DEF Max, SizeLoop!Max
  <2>4. Latest(t) = IF new = {} THEN NoToday
                    ELSE [values |-> Given(t[Max(new)].num, Columns),
                          fan |-> Given(t[Max(new)].num, {FanSpeed}), time |-> t[Max(new)].ts]
    BY DEF Latest
  <2>5. Latest(s) = IF old = {} THEN NoToday
                    ELSE [values |-> Given(s[Max(old)].num, Columns),
                          fan |-> Given(s[Max(old)].num, {FanSpeed}), time |-> s[Max(old)].ts]
    BY DEF Latest
  <2> HIDE DEF new, old
  <2>6. Latest(t) = Latest(s)
    <3>1. CASE old = {}
      BY <2>1, <2>4, <2>5, <3>1
    <3>2. CASE old # {}
      <4>1. t[Max(old)] = s[Max(old)]
        BY <2>2, <2>3, <3>2
      <4> QED
        BY <2>1, <2>4, <2>5, <3>2, <4>1
    <3> QED
      BY <3>1, <3>2
  <2> QED
    BY <1>2, <2>6 DEF t
<1>3. CASE DOMAIN e.num # {}
  <2>1. n + 1 \in new /\ new \in SUBSET (1 .. n + 1)
    BY <1>1, <1>3
  <2>2. Latest(t) = IF new = {} THEN NoToday
                    ELSE [values |-> Given(t[Max(new)].num, Columns),
                          fan |-> Given(t[Max(new)].num, {FanSpeed}), time |-> t[Max(new)].ts]
    BY DEF Latest
  <2> HIDE DEF new
  <2>3. Max(new) = n + 1
    <3>1. SizeLoop!Max(new) = n + 1
      BY <1>1, <2>1, SizeLoop!MaxOfInterval
    <3> QED
      BY <3>1 DEF Max, SizeLoop!Max
  <2> QED
    BY <1>1, <1>3, <2>1, <2>2, <2>3 DEF t
<1> QED
  BY <1>2, <1>3

\* The loop ends with the newest row that has readings.
LEMMA TodayIsLatest == \A s \in Seq(Line) : readTodaySnapshot(s) = Latest(s)
<1> DEFINE P == {s \in Seq(Line) : readTodaySnapshot(s) = Latest(s)}
<1> HIDE DEF Line
<1>1. <<>> \in P
  <2>1. readTodaySnapshot(<<>>) = NoToday
    BY TodayIsLoop, TodayLoop!LoopedEmpty
  <2>2. Latest(<<>>) = NoToday
    BY DEF Latest
  <2>3. <<>> \in Seq(Line)
    OBVIOUS
  <2> QED
    BY <2>1, <2>2, <2>3
<1>2. ASSUME NEW s \in Seq(Line), NEW e \in Line, s \in P PROVE Append(s, e) \in P
  <2>1. readTodaySnapshot(Append(s, e)) = TodayRow(readTodaySnapshot(s), e)
    <3>1. TodayLoop!Looped(0, NoToday, Append(s, e))
            = TodayLine(0, TodayLoop!Looped(0, NoToday, s), e)
      BY TodayLoop!LoopedAppend
    <3> QED
      BY <3>1, TodayIsLoop DEF TodayLine
  <2>2. readTodaySnapshot(s) = Latest(s)
    BY <1>2
  <2>3. Append(s, e) \in Seq(Line)
    OBVIOUS
  <2>4. CASE DOMAIN e.num = {}
    <3>1. TodayRow(Latest(s), e) = Latest(s)
      BY <2>4, LineReadings DEF TodayRow
    <3>2. Latest(Append(s, e)) = Latest(s)
      BY <2>4, LatestAppend
    <3> QED
      BY <2>1, <2>2, <2>3, <3>1, <3>2
  <2>5. CASE DOMAIN e.num # {}
    <3>1. TodayRow(Latest(s), e)
            = [values |-> Given(e.num, Columns), fan |-> Given(e.num, {FanSpeed}), time |-> e.ts]
      BY <2>5, LineReadings DEF TodayRow
    <3>2. Latest(Append(s, e)) = TodayRow(Latest(s), e)
      BY <2>5, <3>1, LatestAppend
    <3> QED
      BY <2>1, <2>2, <2>3, <3>2
  <2> QED
    BY <2>4, <2>5
<1> HIDE DEF P
<1>3. Seq(Line) \subseteq P
  BY <1>1, <1>2, SizeLoop!SequenceInduction
<1> QED
  BY <1>3 DEF P

\* The panel shows one row, the newest with readings, and its time.
THEOREM TodayShowsOneRow == Spec => []TodayIsOneRow
<1>1. LogInv => TodayIsOneRow
  <2> SUFFICES ASSUME LogInv PROVE TodayIsOneRow
    OBVIOUS
  <2> HIDE DEF Line
  <2>1. readTodaySnapshot(log.lines) = Latest(log.lines)
    BY TodayIsLatest DEF LogInv, FilesOK, FileOK
  <2> QED
    BY <2>1 DEF TodayIsOneRow, Latest
<1> QED
  BY <1>1, Invariant, PTL

-----------------------------------------------------------------------------
(* The rows page.                                                          *)

RingLine(limit, ring, line) ==
    [rows |-> [ring.rows EXCEPT ![ring.total % limit] = line], total |-> ring.total + 1]

RingLoop == INSTANCE FoldFacts WITH body <- RingLine

Ring0(limit) == [rows |-> [slot \in 0 .. limit - 1 |-> Torn(0)], total |-> 0]

Ring(limit, lines) == RingLoop!Looped(limit, Ring0(limit), lines)

\* The rows page is the ring buffer after a loop over the lines.
LEMMA RowsAreRing ==
    \A limit, lines : SendLogRows(lines, limit)
                        = NewestFirst(Ring(limit, lines).rows, Ring(limit, lines).total, limit)
  BY DEF SendLogRows, Ring, Ring0, RingLine, FoldLeft, MapThenFoldSet, Max, RingLoop!Looped,
         RingLoop!FoldLeft, RingLoop!MapThenFoldSet, RingLoop!Max

\* Fewer than limit numbers in a row have different remainders.
LEMMA SlotsDiffer ==
    ASSUME NEW limit \in Nat \ {0}, NEW a \in Nat, NEW b \in Nat, a < b, b < a + limit
    PROVE  a % limit # b % limit
<1> SUFFICES ASSUME a % limit = b % limit PROVE FALSE
  OBVIOUS
<1> DEFINE p == a \div limit
           q == b \div limit
           r == a % limit
<1>1. /\ p \in Int /\ q \in Int /\ r \in Int
      /\ a = limit * p + r /\ b = limit * q + r
  BY SMT
<1> HIDE DEF p, q, r
<1> DEFINE d == q - p
<1>2. d \in Int /\ b - a = limit * d
  BY <1>1
<1> HIDE DEF d
<1>3. limit * d > 0 /\ limit * d < limit
  BY <1>2
<1>4. CASE d >= 1
  <2>1. limit * d >= limit
    BY <1>2, <1>4
  <2> QED
    BY <1>3, <2>1, <1>2
<1>5. CASE d <= 0
  <2>1. limit * d <= 0
    BY <1>2, <1>5
  <2> QED
    BY <1>3, <2>1, <1>2
<1> QED
  BY <1>2, <1>4, <1>5

\* After some lines the ring holds the last of them, each in its slot.
RingHolds(limit, lines, ring) ==
    /\ ring.total = Len(lines)
    /\ DOMAIN ring.rows = 0 .. limit - 1
    /\ \A i \in 1 .. Len(lines) :
          i > Len(lines) - limit => ring.rows[(i - 1) % limit] = lines[i]

\* The ring buffer holds the last lines, each at its number modulo the limit.
LEMMA RingIsNewest ==
    ASSUME NEW limit \in Nat \ {0}
    PROVE  \A s \in Seq(Line) : RingHolds(limit, s, Ring(limit, s))
<1> DEFINE P == {s \in Seq(Line) : RingHolds(limit, s, Ring(limit, s))}
<1> HIDE DEF Line
<1>1. <<>> \in P
  <2>1. Ring(limit, <<>>) = Ring0(limit)
    BY RingLoop!LoopedEmpty DEF Ring
  <2>2. <<>> \in Seq(Line) /\ Len(<<>>) = 0
    OBVIOUS
  <2>3. Ring0(limit).total = 0 /\ DOMAIN Ring0(limit).rows = 0 .. limit - 1
    BY DEF Ring0
  <2>4. RingHolds(limit, <<>>, Ring0(limit))
    BY <2>2, <2>3 DEF RingHolds
  <2> QED
    BY <2>1, <2>2, <2>4
<1>2. ASSUME NEW s \in Seq(Line), NEW e \in Line, s \in P PROVE Append(s, e) \in P
  <2> DEFINE ring == Ring(limit, s)
             t == Append(s, e)
             n == Len(s)
             next == RingLine(limit, ring, e)
  <2>1. Ring(limit, t) = next
    BY RingLoop!LoopedAppend DEF Ring
  <2>2. /\ t \in Seq(Line) /\ n \in Nat /\ Len(t) = n + 1 /\ t[n + 1] = e
        /\ \A i \in 1 .. n : t[i] = s[i]
    OBVIOUS
  <2>3. RingHolds(limit, s, ring)
    BY <1>2
  <2>4. /\ ring.total = n /\ DOMAIN ring.rows = 0 .. limit - 1
        /\ next = [rows |-> [ring.rows EXCEPT ![n % limit] = e], total |-> n + 1]
    BY <2>3 DEF RingHolds, RingLine
  <2>5. \A i \in 1 .. n : i > n - limit => ring.rows[(i - 1) % limit] = s[i]
    BY <2>3 DEF RingHolds
  <2> HIDE DEF ring, t, n, next
  <2>6. \A k \in Nat : k % limit \in 0 .. limit - 1
    BY SMT
  <2>7. ASSUME NEW i \in 1 .. n + 1, i > n + 1 - limit
        PROVE  next.rows[(i - 1) % limit] = t[i]
    <3>1. CASE i = n + 1
      <4>1. (i - 1) % limit = n % limit /\ n % limit \in 0 .. limit - 1
        <5>1. i - 1 = n
          BY <2>2, <3>1
        <5>2. n % limit \in 0 .. limit - 1
          BY <2>2, <2>6
        <5> QED
          BY <5>1, <5>2
      <4> QED
        BY <2>2, <2>4, <3>1, <4>1
    <3>2. CASE i # n + 1
      <4>1. i - 1 \in Nat /\ i - 1 < n /\ n < (i - 1) + limit /\ i \in 1 .. n /\ i > n - limit
        BY <2>2, <2>7, <3>2
      <4> DEFINE k == i - 1
      <4>2. k % limit # n % limit
        <5> HIDE DEF k
        <5> QED
          BY <2>2, <4>1, SlotsDiffer DEF k
      <4>3. k % limit \in 0 .. limit - 1
        BY <2>6, <4>1
      <4>4. next.rows[k % limit] = ring.rows[k % limit]
        BY <2>4, <4>2, <4>3
      <4> QED
        BY <2>2, <2>5, <4>1, <4>4
    <3> QED
      BY <3>1, <3>2
  <2>8. RingHolds(limit, t, next)
    <3>1. next.total = n + 1 /\ DOMAIN next.rows = 0 .. limit - 1
      BY <2>4
    <3> QED
      BY <2>2, <2>7, <3>1 DEF RingHolds
  <2> QED
    BY <2>1, <2>2, <2>8 DEF t
<1> HIDE DEF P
<1>3. Seq(Line) \subseteq P
  BY <1>1, <1>2, SizeLoop!SequenceInduction
<1> QED
  BY <1>3 DEF P

\* The page shows the newest lines, newest first.
LEMMA RowsShown ==
    ASSUME NEW lines \in Seq(Line), NEW limit \in Nat \ {0}
    PROVE  LET n == Len(lines)
               shown == SendLogRows(lines, limit)
           IN  /\ Len(shown) = (IF n < limit THEN n ELSE limit)
               /\ \A i \in DOMAIN shown : shown[i] = lines[n + 1 - i]
<1> HIDE DEF Line
<1> DEFINE n == Len(lines)
           ring == Ring(limit, lines)
           m == IF n < limit THEN n ELSE limit
           shown == SendLogRows(lines, limit)
<1>1. RingHolds(limit, lines, ring)
  BY RingIsNewest
<1>2. n \in Nat /\ m \in Nat /\ ring.total = n
  BY <1>1 DEF RingHolds
<1>3. shown = [i \in 1 .. m |-> ring.rows[(n - i) % limit]]
  BY <1>2, RowsAreRing DEF NewestFirst
<1>4. Len(shown) = m /\ DOMAIN shown = 1 .. m
  <2> HIDE DEF m, shown
  <2> QED
    BY <1>2, <1>3
<1>5. ASSUME NEW i \in 1 .. m PROVE shown[i] = lines[n + 1 - i]
  <2> DEFINE j == n + 1 - i
  <2>1. j \in 1 .. n /\ j > n - limit /\ j - 1 = n - i
    BY <1>2
  <2>2. ring.rows[(j - 1) % limit] = lines[j]
    <3> HIDE DEF j
    <3> QED
      BY <1>1, <2>1 DEF RingHolds
  <2> QED
    BY <1>3, <2>1, <2>2
<1> QED
  BY <1>4, <1>5

\* Whatever is asked for, the limit is one of the allowed ones.
Params == [key : {"limit", "token"}, kind : {"number", "word", "long", "empty"}, value : Int]

GivenLine(env, given, p) ==
    IF p.key = "limit" /\ p.kind # "empty" THEN Append(given, p) ELSE given

GivenLoop == INSTANCE FoldFacts WITH body <- GivenLine

LimitsGiven(params) == Those(params, LAMBDA p : p.key = "limit" /\ p.kind # "empty")

\* The limits of an address line are a loop over its parameters.
LEMMA GivenIsLoop == \A params : LimitsGiven(params) = GivenLoop!Looped(0, <<>>, params)
  BY DEF LimitsGiven, Those, GivenLine, FoldLeft, MapThenFoldSet, Max, GivenLoop!Looped,
         GivenLoop!FoldLeft, GivenLoop!MapThenFoldSet, GivenLoop!Max

\* They are parameters of it.
LEMMA GivenType == \A params \in Seq(Params) : LimitsGiven(params) \in Seq(Params)
<1> DEFINE P == {s \in Seq(Params) : LimitsGiven(s) \in Seq(Params)}
<1> HIDE DEF Params
<1>1. <<>> \in P
  <2>1. LimitsGiven(<<>>) = <<>>
    BY GivenIsLoop, GivenLoop!LoopedEmpty
  <2>2. <<>> \in Seq(Params)
    OBVIOUS
  <2> QED
    BY <2>1, <2>2
<1>2. ASSUME NEW s \in Seq(Params), NEW e \in Params, s \in P PROVE Append(s, e) \in P
  <2>1. LimitsGiven(Append(s, e)) = GivenLine(0, LimitsGiven(s), e)
    BY GivenIsLoop, GivenLoop!LoopedAppend
  <2>2. LimitsGiven(s) \in Seq(Params)
    BY <1>2
  <2>3. Append(s, e) \in Seq(Params) /\ Append(LimitsGiven(s), e) \in Seq(Params)
    BY <2>2
  <2>4. GivenLine(0, LimitsGiven(s), e) \in Seq(Params)
    BY <2>2, <2>3 DEF GivenLine
  <2> QED
    BY <2>1, <2>3, <2>4
<1> HIDE DEF P
<1>3. Seq(Params) \subseteq P
  BY <1>1, <1>2, GivenLoop!SequenceInduction
<1> QED
  BY <1>3 DEF P

\* Whatever is asked for, the limit is positive and not above the largest.
LEMMA LimitInRange ==
    ASSUME NEW params \in Seq(Params), NEW log_row_limit \in Nat
    PROVE  parseLogLimit(params, log_row_limit) \in 1 .. LOGGER_WEB_MAX_LOG_LIMIT
<1> USE PagesAssumption
<1> DEFINE given == LimitsGiven(params)
           parsed == strtoul(given[1])
<1>1. normalizeLogLimit(log_row_limit) \in 1 .. LOGGER_WEB_MAX_LOG_LIMIT
  BY DEF normalizeLogLimit
<1>2. parseLogLimit(params, log_row_limit) =
        IF given = <<>> \/ given[1].kind = "long" \/ parsed = 0
          THEN normalizeLogLimit(log_row_limit)
        ELSE IF parsed > LOGGER_WEB_MAX_LOG_LIMIT THEN LOGGER_WEB_MAX_LOG_LIMIT
        ELSE parsed
  BY DEF parseLogLimit, LimitsGiven
<1>3. ASSUME given # <<>> PROVE parsed \in Nat
  <2>1. given \in Seq(Params)
    BY GivenType
  <2>2. given[1] \in Params
    <3> HIDE DEF Params, given
    <3> QED
      BY <1>3, <2>1
  <2>3. given[1].value \in Int
    BY <2>2 DEF Params
  <2>4. given[1].value % (ULONG_MAX + 1) \in Nat
    BY <2>3, SMT
  <2> QED
    BY <2>3, <2>4 DEF strtoul
<1> HIDE DEF given, parsed
<1> QED
  BY <1>1, <1>2, <1>3

\* The rows page shows the newest lines, newest first, whatever limit the
\* address line holds.
THEOREM RowsPageIsNewest == Spec => []RowsAreNewest
<1>1. LogInv => RowsAreNewest
  <2> SUFFICES ASSUME LogInv, NEW q \in Queries
               PROVE  LET limit == parseLogLimit(q, 2)
                          n == Len(log.lines)
                          page_rows == SendLogRows(log.lines, limit)
                      IN  /\ limit \in 1 .. LOGGER_WEB_MAX_LOG_LIMIT
                          /\ Len(page_rows) = (IF n < limit THEN n ELSE limit)
                          /\ \A i \in DOMAIN page_rows : page_rows[i] = log.lines[n + 1 - i]
    BY DEF RowsAreNewest, Limits
  <2>1. q \in Seq(Params)
    <3> DEFINE one == {[key |-> "limit", kind |-> "number", value |-> n] :
                          n \in {-1, 0, 1, 2, ULONG_MAX + 1}}
                        \cup {[key |-> "limit", kind |-> "word", value |-> 0],
                              [key |-> "limit", kind |-> "long", value |-> 9],
                              [key |-> "limit", kind |-> "empty", value |-> 0],
                              [key |-> "token", kind |-> "word", value |-> 0]}
               empty == [key |-> "limit", kind |-> "empty", value |-> 0]
    <3>1. one \subseteq Params /\ empty \in Params
      BY PagesAssumption DEF Params
    <3>2. q = <<>> \/ (\E p \in one : q = <<p>>) \/ (\E p \in one : q = <<empty, p>>)
      BY DEF Queries
    <3> HIDE DEF one, empty, Params
    <3>3. ASSUME NEW p \in one, q = <<p>> PROVE q \in Seq(Params)
      BY <3>1, <3>3
    <3>4. ASSUME NEW p \in one, q = <<empty, p>> PROVE q \in Seq(Params)
      BY <3>1, <3>4
    <3>5. q = <<>> => q \in Seq(Params)
      OBVIOUS
    <3> QED
      BY <3>2, <3>3, <3>4, <3>5
  <2> DEFINE limit == parseLogLimit(q, 2)
  <2>2. limit \in 1 .. LOGGER_WEB_MAX_LOG_LIMIT
    BY <2>1, LimitInRange
  <2>3. limit \in Nat \ {0}
    BY <2>2, PagesAssumption
  <2>4. log.lines \in Seq(Line)
    <3> HIDE DEF Line
    <3> QED
      BY DEF LogInv, FilesOK, FileOK
  <2> HIDE DEF Line, limit
  <2> QED
    BY <2>2, <2>3, <2>4, RowsShown DEF limit
<1> QED
  BY <1>1, Invariant, PTL

-----------------------------------------------------------------------------
(* The graph: the rows of a range.                                         *)

RangeLine(range, kept_lines, row) ==
    IF Parses(row) /\ range[1] <= row.ts /\ row.ts <= range[2] THEN Append(kept_lines, row)
    ELSE kept_lines

RangeLoop == INSTANCE FoldFacts WITH body <- RangeLine

\* The rows of a range are a loop over the lines.
LEMMA InRangeIsLoop ==
    \A lines, from, to :
        InRange(lines, from, to) = RangeLoop!Looped(<<from, to>>, <<>>, lines)
  BY DEF InRange, Those, RangeLine, FoldLeft, MapThenFoldSet, Max, RangeLoop!Looped,
         RangeLoop!FoldLeft, RangeLoop!MapThenFoldSet, RangeLoop!Max

\* The lines that a loop over a range keeps.
Within(from, to) == {line \in Line : from <= line.ts /\ line.ts <= to}

\* One line more: it is in the range or not.
LEMMA InRangeAppend ==
    ASSUME NEW from, NEW to
    PROVE  /\ InRange(<<>>, from, to) = <<>>
           /\ \A s \in Seq(Line), e \in Line :
                 InRange(Append(s, e), from, to)
                   = RangeLine(<<from, to>>, InRange(s, from, to), e)
<1> HIDE DEF Line
<1>1. ASSUME NEW s \in Seq(Line), NEW e \in Line
      PROVE  RangeLoop!Looped(<<from, to>>, <<>>, Append(s, e))
               = RangeLine(<<from, to>>, RangeLoop!Looped(<<from, to>>, <<>>, s), e)
  BY RangeLoop!LoopedAppend
<1> QED
  BY <1>1, InRangeIsLoop, RangeLoop!LoopedEmpty

\* A sequence over some of the lines is one over all lines.
LEMMA SomeLines == ASSUME NEW S \in SUBSET Line PROVE Seq(S) \subseteq Seq(Line)
<1> HIDE DEF Line
<1> QED
  OBVIOUS

\* They lie in the range, in the order of the file.
LEMMA InRangeIs ==
    ASSUME NEW from, NEW to
    PROVE  \A s \in Seq(Line) :
              /\ InRange(s, from, to) \in Seq(Within(from, to))
              /\ \A ts : NotifsBefore(s, ts) => NotifsBefore(InRange(s, from, to), ts)
              /\ Ordered(s) => Ordered(InRange(s, from, to))
<1> DEFINE W == Within(from, to)
           P == {s \in Seq(Line) :
                   /\ InRange(s, from, to) \in Seq(W)
                   /\ \A ts : NotifsBefore(s, ts) => NotifsBefore(InRange(s, from, to), ts)
                   /\ Ordered(s) => Ordered(InRange(s, from, to))}
<1>0. W \in SUBSET Line /\ \A e \in Line : from <= e.ts /\ e.ts <= to => e \in W
  BY DEF Within
<1> HIDE DEF Line, W
<1>1. <<>> \in P
  <2>1. InRange(<<>>, from, to) = <<>>
    BY InRangeAppend
  <2>2. <<>> \in Seq(Line) /\ <<>> \in Seq(W)
    OBVIOUS
  <2> QED
    BY <2>1, <2>2
<1>2. ASSUME NEW s \in Seq(Line), NEW e \in Line, s \in P PROVE Append(s, e) \in P
  <2> DEFINE t == InRange(s, from, to)
             u == InRange(Append(s, e), from, to)
  <2>1. /\ t \in Seq(W)
        /\ \A ts : NotifsBefore(s, ts) => NotifsBefore(t, ts)
        /\ Ordered(s) => Ordered(t)
    BY <1>2
  <2>2. u = t \/ (e \in W /\ u = Append(t, e))
    BY <1>0, InRangeAppend DEF RangeLine
  <2>3. Append(s, e) \in Seq(Line)
    OBVIOUS
  <2>4. t \in Seq(Line)
    BY <1>0, <2>1, SomeLines
  <2> HIDE DEF t, u
  <2>5. u \in Seq(W)
    BY <2>1, <2>2
  <2>6. ASSUME NEW ts, NotifsBefore(Append(s, e), ts) PROVE NotifsBefore(u, ts)
    <3>1. NotifsBefore(t, ts) /\ (Notif(e) => e.ts <= ts)
      BY <2>1, <2>6, OrderAppend
    <3>2. NotifsBefore(Append(t, e), ts)
      BY <2>4, <3>1, OrderAppend
    <3> QED
      BY <2>2, <3>1, <3>2
  <2>7. Ordered(Append(s, e)) => Ordered(u)
    BY <2>1, <2>2, <2>4, OrderAppend
  <2> QED
    BY <2>3, <2>5, <2>6, <2>7 DEF u
<1> HIDE DEF P
<1>3. Seq(Line) \subseteq P
  BY <1>1, <1>2, SizeLoop!SequenceInduction
<1> QED
  BY <1>3 DEF P, W

-----------------------------------------------------------------------------
(* The points and their statistics.                                        *)

PointLine(series, kept_lines, row) ==
    IF DOMAIN row.num \cap series # {} THEN Append(kept_lines, row) ELSE kept_lines

PointLoop == INSTANCE FoldFacts WITH body <- PointLine

\* What the points of the fan are.
FanPoints(from, to) == {row \in Within(from, to) : FanSpeed \in DOMAIN row.num}

\* The points of a range are a loop over its rows.
LEMMA PointsAreLoop ==
    \A lines, series, from, to :
        Points(lines, series, from, to)
          = PointLoop!Looped(series, <<>>, InRange(lines, from, to))
  BY DEF Points, Those, PointLine, FoldLeft, MapThenFoldSet, Max, PointLoop!Looped,
         PointLoop!FoldLeft, PointLoop!MapThenFoldSet, PointLoop!Max

\* They are rows of the range that have a reading of the series.
LEMMA PointsAre ==
    ASSUME NEW from, NEW to, NEW lines \in Seq(Line)
    PROVE  Points(lines, {FanSpeed}, from, to) \in Seq(FanPoints(from, to))
<1> DEFINE W == Within(from, to)
           F == FanPoints(from, to)
           loop(s) == PointLoop!Looped({FanSpeed}, <<>>, s)
           P == {s \in Seq(W) : loop(s) \in Seq(F)}
<1>0. \A e \in W : FanSpeed \in DOMAIN e.num => e \in F
  BY DEF FanPoints
<1> HIDE DEF Line, W, F
<1>1. <<>> \in P
  <2>1. loop(<<>>) = <<>>
    BY PointLoop!LoopedEmpty
  <2>2. <<>> \in Seq(W) /\ <<>> \in Seq(F)
    OBVIOUS
  <2> QED
    BY <2>1, <2>2
<1>2. ASSUME NEW s \in Seq(W), NEW e \in W, s \in P PROVE Append(s, e) \in P
  <2>1. loop(Append(s, e)) = PointLine({FanSpeed}, loop(s), e)
    BY PointLoop!LoopedAppend
  <2> HIDE DEF loop
  <2>2. loop(s) \in Seq(F)
    BY <1>2
  <2>3. loop(Append(s, e)) = loop(s) \/ (e \in F /\ loop(Append(s, e)) = Append(loop(s), e))
    BY <1>0, <2>1 DEF PointLine
  <2>4. Append(s, e) \in Seq(W)
    OBVIOUS
  <2>5. loop(Append(s, e)) \in Seq(F)
    <3> DEFINE t == loop(s)
               u == loop(Append(s, e))
    <3>1. t \in Seq(F) /\ (u = t \/ (e \in F /\ u = Append(t, e)))
      BY <2>2, <2>3
    <3> HIDE DEF t, u
    <3> HIDE DEF P, loop
    <3>2. ASSUME e \in F PROVE Append(t, e) \in Seq(F)
      BY <3>1, <3>2
    <3>3. u \in Seq(F)
      BY <3>1, <3>2
    <3> QED
      BY <3>3 DEF u
  <2> QED
    BY <2>4, <2>5
<1> HIDE DEF P
<1>3. Seq(W) \subseteq P
  BY <1>1, <1>2, SizeLoop!SequenceInduction
<1>4. InRange(lines, from, to) \in P
  BY <1>3, InRangeIs DEF W
<1> QED
  BY <1>4, PointsAreLoop DEF P, F

StatsLine(range, stats, row) ==
    IF ~(range[1] <= row.ts /\ row.ts <= range[2]) \/ FanSpeed \notin DOMAIN row.num THEN stats
    ELSE LET value == row.num[FanSpeed]
         IN  IF stats = <<>> THEN <<value, value>>
             ELSE <<IF value < stats[1] THEN value ELSE stats[1],
                    IF value > stats[2] THEN value ELSE stats[2]>>

StatsLoop == INSTANCE FoldFacts WITH body <- StatsLine

\* The statistics are a loop over the points.
LEMMA StatsAreLoop ==
    \A points, from, to :
        Stats(points, FanSpeed, from, to) = StatsLoop!Looped(<<from, to>>, <<>>, points)
  BY DEF Stats, StatsLine, FoldLeft, MapThenFoldSet, Max, StatsLoop!Looped,
         StatsLoop!FoldLeft, StatsLoop!MapThenFoldSet, StatsLoop!Max

\* The speeds that the statistics are about.
Speeds(points, from) == {row.num[FanSpeed] : row \in {p \in ToSet(points) : p.ts >= from}}

\* One point more: its speed is counted or not.
LEMMA SpeedsAppend ==
    ASSUME NEW S, NEW s \in Seq(S), NEW e \in S, NEW from
    PROVE  /\ Speeds(<<>>, from) = {}
           /\ Speeds(Append(s, e), from)
                = Speeds(s, from) \cup (IF e.ts >= from THEN {e.num[FanSpeed]} ELSE {})
<1>1. ToSet(<<>>) = {}
  BY DEF ToSet
<1>2. ToSet(Append(s, e)) = ToSet(s) \cup {e}
  <2> DEFINE t == Append(s, e)
             n == Len(s)
  <2>1. /\ n \in Nat /\ DOMAIN s = 1 .. n /\ DOMAIN t = 1 .. n + 1
        /\ t[n + 1] = e /\ \A i \in 1 .. n : t[i] = s[i]
    OBVIOUS
  <2> HIDE DEF t, n
  <2>2. \A i : i \in 1 .. n + 1 <=> i \in 1 .. n \/ i = n + 1
    BY <2>1
  <2>3. ToSet(t) = ToSet(s) \cup {e}
    BY <2>1, <2>2 DEF ToSet
  <2> QED
    BY <2>3 DEF t
<1> HIDE DEF ToSet
<1> QED
  BY <1>1, <1>2 DEF Speeds

\* The statistics of the points up to now are their least and greatest speed.
StatsHold(stats, speeds) ==
    IF speeds = {} THEN stats = <<>>
    ELSE \E lo, hi \in speeds : stats = <<lo, hi>> /\ \A v \in speeds : lo <= v /\ v <= hi

\* One step of the loop keeps the least and the greatest speed.
LEMMA StatsOne ==
    ASSUME NEW speeds \in SUBSET Int, NEW value \in Int, NEW stats, StatsHold(stats, speeds)
    PROVE  StatsHold(IF stats = <<>> THEN <<value, value>>
                     ELSE <<IF value < stats[1] THEN value ELSE stats[1],
                            IF value > stats[2] THEN value ELSE stats[2]>>,
                     speeds \cup {value})
<1>1. CASE speeds = {}
  <2>1. stats = <<>>
    BY <1>1 DEF StatsHold
  <2> QED
    BY <1>1, <2>1 DEF StatsHold
<1>2. CASE speeds # {}
  <2>1. PICK lo, hi \in speeds : stats = <<lo, hi>> /\ \A v \in speeds : lo <= v /\ v <= hi
    BY <1>2 DEF StatsHold
  <2> DEFINE a == IF value < lo THEN value ELSE lo
             b == IF value > hi THEN value ELSE hi
             all == speeds \cup {value}
  <2>2. stats # <<>> /\ stats[1] = lo /\ stats[2] = hi /\ lo \in Int /\ hi \in Int
    BY <2>1
  <2>3. a \in all /\ b \in all /\ all # {} /\ \A v \in all : a <= v /\ v <= b
    <3>1. /\ a \in {value, lo} /\ a <= value /\ a <= lo
          /\ b \in {value, hi} /\ value <= b /\ hi <= b /\ a \in Int /\ b \in Int
      BY <2>2
    <3> HIDE DEF a, b
    <3>2. ASSUME NEW v \in speeds PROVE a <= v /\ v <= b
      BY <2>1, <2>2, <3>1
    <3> QED
      BY <2>1, <3>1, <3>2
  <2>4. StatsHold(<<a, b>>, all)
    <3> HIDE DEF a, b, all
    <3> QED
      BY <2>3 DEF StatsHold
  <2> QED
    BY <2>2, <2>4
<1> QED
  BY <1>1, <1>2

\* The loop ends with the least and the greatest speed of the range.
LEMMA StatsAre ==
    ASSUME NEW from, NEW to
    PROVE  \A points \in Seq(FanPoints(0, to)) :
              /\ Speeds(points, from) \in SUBSET Int
              /\ StatsHold(Stats(points, FanSpeed, from, to), Speeds(points, from))
<1> DEFINE F == FanPoints(0, to)
           loop(s) == StatsLoop!Looped(<<from, to>>, <<>>, s)
           P == {s \in Seq(F) : /\ Speeds(s, from) \in SUBSET Int
                                /\ StatsHold(loop(s), Speeds(s, from))}
<1>0. \A e \in F : e.ts <= to /\ FanSpeed \in DOMAIN e.num /\ e.num[FanSpeed] \in Int
  BY LineReadings DEF FanPoints, Within
<1> HIDE DEF Line, F
<1>1. <<>> \in P
  <2>1. loop(<<>>) = <<>>
    BY StatsLoop!LoopedEmpty
  <2>2. <<>> \in Seq(F)
    OBVIOUS
  <2>3. Speeds(<<>>, from) = {}
    BY DEF Speeds, ToSet
  <2> QED
    BY <2>1, <2>2, <2>3 DEF StatsHold
<1>2. ASSUME NEW s \in Seq(F), NEW e \in F, s \in P PROVE Append(s, e) \in P
  <2>1. loop(Append(s, e)) = StatsLine(<<from, to>>, loop(s), e)
    BY StatsLoop!LoopedAppend
  <2> DEFINE stats == loop(s)
             speeds == Speeds(s, from)
             value == e.num[FanSpeed]
             more == Speeds(Append(s, e), from)
             next == loop(Append(s, e))
  <2>2. speeds \in SUBSET Int /\ StatsHold(stats, speeds) /\ value \in Int
    BY <1>0, <1>2
  <2>3. Append(s, e) \in Seq(F)
    OBVIOUS
  <2>4. more = speeds \cup (IF e.ts >= from THEN {value} ELSE {})
    BY SpeedsAppend
  <2>5. next = IF ~(from <= e.ts) THEN stats
               ELSE IF stats = <<>> THEN <<value, value>>
               ELSE <<IF value < stats[1] THEN value ELSE stats[1],
                      IF value > stats[2] THEN value ELSE stats[2]>>
    <3>1. e.ts <= to /\ FanSpeed \in DOMAIN e.num
      BY <1>0
    <3> HIDE DEF loop
    <3> QED
      BY <2>1, <3>1 DEF StatsLine
  <2>6. e.ts >= from <=> from <= e.ts
    OBVIOUS
  <2> HIDE DEF stats, speeds, value, more, next
  <2>7. more \in SUBSET Int
    BY <2>2, <2>4
  <2>8. StatsHold(next, more)
    <3>1. CASE from <= e.ts
      <4>1. more = speeds \cup {value}
        BY <2>4, <2>6, <3>1
      <4> QED
        BY <2>2, <2>5, <3>1, <4>1, StatsOne
    <3>2. CASE ~(from <= e.ts)
      <4>1. more = speeds
        BY <2>4, <2>6, <3>2
      <4> QED
        BY <2>2, <2>5, <3>2, <4>1
    <3> QED
      BY <3>1, <3>2
  <2> QED
    BY <2>3, <2>7, <2>8 DEF more, next
<1> HIDE DEF P
<1>3. Seq(F) \subseteq P
  BY <1>1, <1>2, SizeLoop!SequenceInduction
<1> QED
  BY <1>3, StatsAreLoop DEF P, F

\* The least and the greatest of some numbers are the ones CHOOSE finds.
LEMMA LeastAndGreatest ==
    ASSUME NEW S \in SUBSET Int, NEW lo \in S, NEW hi \in S, \A v \in S : lo <= v /\ v <= hi
    PROVE  Min(S) = lo /\ Max(S) = hi
<1>1. \A x \in S : (\A y \in S : x <= y) => x = lo
  OBVIOUS
<1>2. \A x \in S : (\A y \in S : x >= y) => x = hi
  OBVIOUS
<1> QED
  BY <1>1, <1>2 DEF Min, Max

-----------------------------------------------------------------------------
(* The spans.                                                              *)

SpanLine(env, span, row) == SpanRow(span, row)

SpanLoop == INSTANCE FoldFacts WITH body <- SpanLine

Drawing(q) == FoldLeft(SpanRow, [start |-> <<>>, drawn |-> <<>>], q)

\* The spans are a loop over the rows of the range.
LEMMA DrawingIsLoop ==
    \A q : Drawing(q) = SpanLoop!Looped(0, [start |-> <<>>, drawn |-> <<>>], q)
  BY DEF Drawing, SpanLine, FoldLeft, MapThenFoldSet, Max, SpanLoop!Looped,
         SpanLoop!FoldLeft, SpanLoop!MapThenFoldSet, SpanLoop!Max

\* The starts that wait for an end before line j, and the ends that have one.
Opens(q, j) == {i \in 1 .. j - 1 : /\ q[i].event = "open notif"
                                   /\ \A k \in i .. j - 1 : q[k].event # "close notif"}

Ends(q) == {j \in DOMAIN q : q[j].event = "close notif" /\ Opens(q, j) # {}}

\* After q the loop waits with the first such start, and has drawn a span for
\* every such end.
SpansHold(q, span) ==
    /\ span = [start |-> span.start, drawn |-> span.drawn]
    /\ span.start = (IF Opens(q, Len(q) + 1) = {} THEN <<>>
                     ELSE <<q[Min(Opens(q, Len(q) + 1))].ts>>)
    /\ span.drawn \in Seq(Nat \X Nat) /\ Len(span.drawn) = Cardinality(Ends(q))
    /\ \A j \in Ends(q) : span.drawn[Cardinality(Ends(q) \cap 1 .. j)]
                            = <<q[Min(Opens(q, j))].ts, q[j].ts>>
    /\ \A i \in DOMAIN span.drawn : span.drawn[i][1] <= span.drawn[i][2]

\* The first of some lines.
LEMMA FirstOf ==
    ASSUME NEW S \in SUBSET Nat, S # {}
    PROVE  Min(S) \in S /\ \A i \in S : Min(S) <= i
<1>1. PICK n \in S : \A m \in S : n <= m
  BY SizeLoop!LeastOfNaturals
<1> QED
  BY <1>1 DEF Min

\* One line more neither adds nor takes away starts before it.
LEMMA OpensAppend ==
    ASSUME NEW s \in Seq(Line), NEW e \in Line
    PROVE  LET n == Len(s)
               t == Append(s, e)
           IN  /\ \A j \in 1 .. n + 1 : Opens(t, j) = Opens(s, j)
               /\ Opens(t, n + 2) =
                     IF e.event = "close notif" THEN {}
                     ELSE Opens(s, n + 1) \cup (IF e.event = "open notif" THEN {n + 1} ELSE {})
               /\ Ends(t) = Ends(s) \cup (IF e.event = "close notif" /\ Opens(s, n + 1) # {}
                                            THEN {n + 1} ELSE {})
               /\ Ends(s) \subseteq 1 .. n
<1> DEFINE n == Len(s)
           t == Append(s, e)
<1> HIDE DEF Line
<1>1. /\ n \in Nat /\ DOMAIN s = 1 .. n /\ DOMAIN t = 1 .. n + 1
      /\ t[n + 1] = e /\ \A i \in 1 .. n : t[i] = s[i]
  OBVIOUS
<1> HIDE DEF n, t
<1>2. ASSUME NEW j \in 1 .. n + 1 PROVE Opens(t, j) = Opens(s, j)
  <2>1. \A i \in 1 .. j - 1 : i \in 1 .. n /\ \A k \in i .. j - 1 : k \in 1 .. n
    BY <1>1
  <2> QED
    BY <1>1, <2>1 DEF Opens
<1>3. Opens(t, n + 2) =
         IF e.event = "close notif" THEN {}
         ELSE Opens(s, n + 1) \cup (IF e.event = "open notif" THEN {n + 1} ELSE {})
  <2>1. (n + 2) - 1 = n + 1 /\ (n + 1) - 1 = n
    BY <1>1
  <2>2. Opens(t, n + 2) = {i \in 1 .. n + 1 : /\ t[i].event = "open notif"
                                              /\ \A k \in i .. n + 1 : t[k].event # "close notif"}
    <3> DEFINE O(m) == {i \in 1 .. m : /\ t[i].event = "open notif"
                                      /\ \A k \in i .. m : t[k].event # "close notif"}
    <3>1. Opens(t, n + 2) = O((n + 2) - 1)
      BY DEF Opens
    <3>2. O((n + 2) - 1) = O(n + 1)
      <4> HIDE DEF O
      <4> QED
        BY <2>1
    <3> QED
      BY <3>1, <3>2
  <2>3. Opens(s, n + 1) = {i \in 1 .. n : /\ s[i].event = "open notif"
                                          /\ \A k \in i .. n : s[k].event # "close notif"}
    <3> DEFINE O(m) == {i \in 1 .. m : /\ s[i].event = "open notif"
                                      /\ \A k \in i .. m : s[k].event # "close notif"}
    <3>1. Opens(s, n + 1) = O((n + 1) - 1)
      BY DEF Opens
    <3>2. O((n + 1) - 1) = O(n)
      <4> HIDE DEF O
      <4> QED
        BY <2>1
    <3> QED
      BY <3>1, <3>2
  <2>4. ASSUME e.event = "close notif" PROVE Opens(t, n + 2) = {}
    <3>1. \A i \in 1 .. n + 1 : n + 1 \in i .. n + 1
      BY <1>1
    <3> QED
      BY <1>1, <2>2, <2>4, <3>1
  <2>5. ASSUME e.event # "close notif", NEW i
        PROVE  i \in Opens(t, n + 2) <=> i \in Opens(s, n + 1) \/ (i = n + 1 /\ e.event = "open notif")
    <3>1. CASE i \in 1 .. n
      <4>1. \A k : k \in i .. n + 1 <=> k \in i .. n \/ k = n + 1
        BY <1>1, <3>1
      <4>2. \A k \in i .. n : k \in 1 .. n
        BY <1>1, <3>1
      <4>3. i \in 1 .. n + 1 /\ i # n + 1
        BY <1>1, <3>1
      <4> QED
        BY <1>1, <2>2, <2>3, <2>5, <3>1, <4>1, <4>2, <4>3
    <3>2. CASE i = n + 1
      <4>1. i \in 1 .. n + 1 /\ i \notin 1 .. n /\ \A k \in i .. n + 1 : k = n + 1
        BY <1>1, <3>2
      <4> QED
        BY <1>1, <2>2, <2>3, <2>5, <3>2, <4>1
    <3>3. CASE i \notin 1 .. n /\ i # n + 1
      <4>1. i \notin 1 .. n + 1
        BY <1>1, <3>3
      <4> QED
        BY <2>2, <2>3, <3>3, <4>1
    <3> QED
      BY <3>1, <3>2, <3>3
  <2> QED
    BY <2>4, <2>5
<1>4. Ends(t) = Ends(s) \cup (IF e.event = "close notif" /\ Opens(s, n + 1) # {}
                                THEN {n + 1} ELSE {})
  <2>1. \A j : j \in 1 .. n + 1 <=> j \in 1 .. n \/ j = n + 1
    BY <1>1
  <2>2. n + 1 \notin 1 .. n
    BY <1>1
  <2> QED
    BY <1>1, <1>2, <2>1, <2>2 DEF Ends
<1>5. Ends(s) \subseteq 1 .. n
  BY <1>1 DEF Ends
<1>6. /\ \A j \in 1 .. n + 1 : Opens(t, j) = Opens(s, j)
      /\ Opens(t, n + 2) =
            IF e.event = "close notif" THEN {}
            ELSE Opens(s, n + 1) \cup (IF e.event = "open notif" THEN {n + 1} ELSE {})
      /\ Ends(t) = Ends(s) \cup (IF e.event = "close notif" /\ Opens(s, n + 1) # {}
                                   THEN {n + 1} ELSE {})
      /\ Ends(s) \subseteq 1 .. n
  BY <1>2, <1>3, <1>4, <1>5
<1> QED
  BY <1>6 DEF n, t

\* The rank of one of some lines.
LEMMA RankOf ==
    ASSUME NEW n \in Nat, NEW S \in SUBSET (1 .. n)
    PROVE  /\ IsFiniteSet(S) /\ Cardinality(S) \in Nat
           /\ \A j \in S : Cardinality(S \cap 1 .. j) \in 1 .. Cardinality(S)
           /\ n + 1 \notin S
           /\ Cardinality(S \cup {n + 1}) = Cardinality(S) + 1
<1>1. IsFiniteSet(S) /\ Cardinality(S) \in Nat
  <2>1. IsFiniteSet(1 .. n)
    BY FS_Interval
  <2>2. IsFiniteSet(S)
    BY <2>1, FS_Subset
  <2> QED
    BY <2>2, FS_CardinalityType
<1>2. ASSUME NEW j \in S PROVE Cardinality(S \cap 1 .. j) \in 1 .. Cardinality(S)
  <2> DEFINE T == S \cap 1 .. j
  <2>1. T \in SUBSET S /\ j \in T
    OBVIOUS
  <2> HIDE DEF T
  <2>2. IsFiniteSet(T) /\ Cardinality(T) <= Cardinality(S)
    BY <1>1, <2>1, FS_Subset
  <2>3. Cardinality(T) \in Nat /\ Cardinality(T) # 0
    BY <2>1, <2>2, FS_CardinalityType, FS_EmptySet
  <2>4. Cardinality(T) \in 1 .. Cardinality(S)
    BY <1>1, <2>2, <2>3
  <2> QED
    BY <2>4 DEF T
<1>3. n + 1 \notin S
  OBVIOUS
<1>4. Cardinality(S \cup {n + 1}) = Cardinality(S) + 1
  BY <1>1, <1>3, FS_AddElement
<1> QED
  BY <1>1, <1>2, <1>3, <1>4

\* The loop does one line more.
LEMMA SpansAppend ==
    ASSUME NEW s \in Seq(Line), NEW e \in Line, Ordered(Append(s, e)),
           NEW span, SpansHold(s, span)
    PROVE  SpansHold(Append(s, e), SpanRow(span, e))
<1> DEFINE n == Len(s)
           t == Append(s, e)
           pend == Opens(s, n + 1)
           first == s[Min(pend)].ts
           ends == Ends(s)
           count == Cardinality(ends)
           next == SpanRow(span, e)
           start == span.start
           drawn == span.drawn
<1>1. /\ n \in Nat /\ DOMAIN s = 1 .. n /\ Len(t) = n + 1 /\ DOMAIN t = 1 .. n + 1
      /\ t[n + 1] = e /\ \A i \in 1 .. n : t[i] = s[i] /\ s[i] \in Line
  <2> HIDE DEF Line
  <2> QED
    OBVIOUS
<1>2. e.ts \in Nat /\ \A i \in 1 .. n : s[i].ts \in Nat
  BY <1>1 DEF Line
<1>3. /\ \A j \in 1 .. n + 1 : Opens(t, j) = Opens(s, j)
      /\ Opens(t, n + 2) = IF e.event = "close notif" THEN {}
                           ELSE pend \cup (IF e.event = "open notif" THEN {n + 1} ELSE {})
      /\ Ends(t) = ends \cup (IF e.event = "close notif" /\ pend # {} THEN {n + 1} ELSE {})
      /\ ends \in SUBSET (1 .. n)
  BY OpensAppend
<1>4. /\ start = (IF pend = {} THEN <<>> ELSE <<first>>)
      /\ span = [start |-> start, drawn |-> drawn]
      /\ drawn \in Seq(Nat \X Nat) /\ Len(drawn) = count
      /\ \A j \in ends : drawn[Cardinality(ends \cap 1 .. j)] = <<s[Min(Opens(s, j))].ts, s[j].ts>>
      /\ \A i \in DOMAIN drawn : drawn[i][1] <= drawn[i][2]
  BY DEF SpansHold
<1>5. ASSUME NEW j \in 1 .. n + 1, Opens(s, j) # {}
      PROVE  Min(Opens(s, j)) \in 1 .. n /\ \A i \in Opens(s, j) : Min(Opens(s, j)) <= i
  <2> DEFINE S == Opens(s, j)
  <2>1. S \in SUBSET (1 .. j - 1)
    BY DEF Opens
  <2>2. S \in SUBSET Nat /\ S \subseteq 1 .. n
    BY <1>1, <2>1
  <2> HIDE DEF S
  <2>3. Min(S) \in S /\ \A i \in S : Min(S) <= i
    BY <1>5, <2>2, FirstOf DEF S
  <2> QED
    BY <2>2, <2>3 DEF S
<1>6. ASSUME NEW j \in ends
      PROVE  <<t[Min(Opens(t, j))].ts, t[j].ts>> = <<s[Min(Opens(s, j))].ts, s[j].ts>>
  <2>1. j \in 1 .. n /\ j \in 1 .. n + 1 /\ Opens(s, j) # {}
    BY <1>1, <1>3 DEF Ends
  <2>2. Min(Opens(s, j)) \in 1 .. n /\ Opens(t, j) = Opens(s, j)
    BY <1>3, <1>5, <2>1
  <2> QED
    BY <1>1, <2>1, <2>2
<1>7. n + 1 \in 1 .. n + 1 /\ (n + 1) + 1 = n + 2 /\ n + 1 \notin 1 .. n
  BY <1>1
<1>8. ASSUME pend # {}
      PROVE  /\ Min(pend) \in 1 .. n /\ t[Min(pend)].ts = first /\ first \in Nat
             /\ pend \in SUBSET (1 .. n) /\ (\A i \in pend : Min(pend) <= i) /\ Min(pend) \in pend
             /\ s[Min(pend)].event = "open notif"
  <2>1. pend \in SUBSET (1 .. n)
    <3>1. pend \in SUBSET (1 .. (n + 1) - 1)
      BY DEF Opens
    <3>2. (n + 1) - 1 = n
      BY <1>1
    <3> HIDE DEF pend, n
    <3> QED
      BY <3>1, <3>2
  <2>2. Min(pend) \in pend
    <3>1. pend \in SUBSET Nat
      BY <2>1
    <3> QED
      BY <1>8, <3>1, FirstOf
  <2>3. \A i \in pend : s[i].event = "open notif"
    BY DEF Opens
  <2> QED
    BY <1>1, <1>2, <1>5, <1>7, <1>8, <2>1, <2>2, <2>3
<1> HIDE DEF n, t, pend, first, ends, count, start, drawn, Line
<1>9. ASSUME Ends(t) = ends, next = [start |-> next.start, drawn |-> drawn],
             next.start = (IF Opens(t, n + 2) = {} THEN <<>>
                           ELSE <<t[Min(Opens(t, n + 2))].ts>>)
      PROVE  SpansHold(t, next)
  <2>1. next.drawn = drawn
    BY <1>9
  <2>2. Opens(t, Len(t) + 1) = Opens(t, n + 2)
    BY <1>1, <1>7
  <2>3. Len(drawn) = Cardinality(Ends(t))
    BY <1>4, <1>9 DEF count
  <2>4. \A j \in Ends(t) : drawn[Cardinality(Ends(t) \cap 1 .. j)]
                             = <<t[Min(Opens(t, j))].ts, t[j].ts>>
    BY <1>4, <1>6, <1>9
  <2> HIDE DEF next
  <2> QED
    BY <1>4, <1>9, <2>1, <2>2, <2>3, <2>4 DEF SpansHold
<1>10. CASE e.event = "open notif"
  <2>1. next = IF start = <<>> THEN [span EXCEPT !.start = <<e.ts>>] ELSE span
    BY <1>10 DEF SpanRow, start
  <2>2. Ends(t) = ends /\ Opens(t, n + 2) = pend \cup {n + 1}
    BY <1>3, <1>10
  <2>3. CASE pend = {}
    <3>1. start = <<>>
      BY <1>4, <2>3
    <3>2. next = [start |-> <<e.ts>>, drawn |-> drawn]
      BY <1>4, <2>1, <3>1
    <3>3. Opens(t, n + 2) = {n + 1}
      BY <2>2, <2>3
    <3>4. Min({n + 1}) = n + 1
      BY <1>1 DEF Min
    <3>5. next.start = <<e.ts>> /\ next = [start |-> next.start, drawn |-> drawn]
      BY <3>2
    <3> HIDE DEF next
    <3>6. SpansHold(t, next)
      BY <1>1, <1>9, <2>2, <3>3, <3>4, <3>5
    <3> QED
      BY <3>6 DEF t, next
  <2>4. CASE pend # {}
    <3>1. start = <<first>>
      BY <1>4, <2>4
    <3>2. next = [start |-> <<first>>, drawn |-> drawn]
      BY <1>4, <2>1, <3>1
    <3>3. Min(pend \cup {n + 1}) = Min(pend)
      <4> DEFINE m == Min(pend)
                 S == pend \cup {n + 1}
      <4>1. /\ m \in 1 .. n /\ pend \in SUBSET (1 .. n) /\ (\A i \in pend : m <= i)
            /\ m \in pend
        BY <1>8, <2>4
      <4> HIDE DEF m
      <4>2. S \in SUBSET Nat /\ m \in S /\ \A i \in S : m <= i
        BY <1>1, <4>1
      <4> HIDE DEF S
      <4>3. \A x \in S : (\A y \in S : x <= y) => x = m
        BY <4>2
      <4>4. Min(S) = m
        BY <4>2, <4>3 DEF Min
      <4> QED
        BY <4>4 DEF m, S
    <3>4. next.start = <<first>> /\ next = [start |-> next.start, drawn |-> drawn]
      BY <3>2
    <3>5. pend \cup {n + 1} # {}
      OBVIOUS
    <3> HIDE DEF next
    <3>6. SpansHold(t, next)
      BY <1>8, <1>9, <2>2, <2>4, <3>3, <3>4, <3>5
    <3> QED
      BY <3>6 DEF t, next
  <2> QED
    BY <2>3, <2>4
<1>11. CASE e.event = "close notif" /\ pend # {}
  <2>1. first <= e.ts
    <3> DEFINE m == Min(pend)
    <3>1. m \in 1 .. n /\ t[m].ts = first /\ s[m].event = "open notif"
      BY <1>8, <1>11
    <3> HIDE DEF m
    <3>2. m \in 1 .. n + 1 /\ m < n + 1 /\ t[m] = s[m]
      <4>1. n \in Nat /\ m \in 1 .. n
        BY <1>1, <3>1
      <4>2. m \in 1 .. n + 1 /\ m < n + 1
        BY <4>1
      <4>3. t[m] = s[m]
        BY <1>1, <4>1
      <4> QED
        BY <4>2, <4>3
    <3>3. Notif(e) /\ Notif(t[m])
      BY <1>11, <3>1, <3>2 DEF Notif
    <3>4. \A i, j \in 1 .. n + 1 :
             i < j /\ Notif(t[i]) /\ Notif(t[j]) => t[i].ts <= t[j].ts
      BY <1>1 DEF Ordered, t
    <3> QED
      BY <1>1, <1>7, <3>1, <3>2, <3>3, <3>4
  <2>2. next = [start |-> <<>>, drawn |-> Append(drawn, <<first, e.ts>>)]
    <3>1. start = <<first>> /\ start # <<>> /\ start[1] = first
      BY <1>4, <1>11
    <3>2. e.ts >= first
      BY <1>2, <1>8, <1>11, <2>1
    <3> QED
      BY <1>11, <3>1, <3>2 DEF SpanRow, start, drawn
  <2> DEFINE pair == <<first, e.ts>>
             all == ends \cup {n + 1}
             more == Append(drawn, pair)
  <2>3. Ends(t) = all /\ Opens(t, n + 2) = {}
    BY <1>3, <1>11
  <2>4. pair \in Nat \X Nat /\ pair[1] <= pair[2]
    BY <1>2, <1>8, <1>11, <2>1
  <2>5. /\ count \in Nat /\ Cardinality(all) = count + 1
        /\ \A j \in ends : Cardinality(ends \cap 1 .. j) \in 1 .. count
    BY <1>1, <1>3, RankOf DEF count
  <2>6. <<t[Min(Opens(t, n + 1))].ts, t[n + 1].ts>> = pair
    <3>1. Opens(t, n + 1) = pend
      BY <1>3, <1>7 DEF pend
    <3> QED
      BY <1>1, <1>8, <1>11, <3>1
  <2> HIDE DEF pair
  <2>7. /\ more \in Seq(Nat \X Nat) /\ Len(more) = count + 1 /\ more[count + 1] = pair
        /\ \A i \in 1 .. count : more[i] = drawn[i]
        /\ DOMAIN more = 1 .. count + 1 /\ DOMAIN drawn = 1 .. count
    BY <1>4, <2>4
  <2> HIDE DEF more
  <2>8. ASSUME NEW j \in all
        PROVE  more[Cardinality(all \cap 1 .. j)] = <<t[Min(Opens(t, j))].ts, t[j].ts>>
    <3>1. CASE j \in ends
      <4>1. all \cap 1 .. j = ends \cap 1 .. j
        <5>1. n + 1 \notin 1 .. j
          <6>1. j \in 1 .. n
            BY <1>3, <3>1
          <6> QED
            BY <1>1, <6>1
        <5> QED
          BY <5>1
      <4>2. Cardinality(ends \cap 1 .. j) \in 1 .. count
        BY <2>5, <3>1
      <4> QED
        BY <1>4, <1>6, <2>7, <3>1, <4>1, <4>2
    <3>2. CASE j = n + 1
      <4>1. all \cap 1 .. j = all
        <5>1. 1 .. n \subseteq 1 .. n + 1 /\ n + 1 \in 1 .. n + 1
          BY <1>1
        <5> QED
          BY <1>3, <3>2, <5>1
      <4> QED
        BY <2>5, <2>6, <2>7, <3>2, <4>1
    <3> QED
      BY <3>1, <3>2
  <2>9. ASSUME NEW i \in DOMAIN more PROVE more[i][1] <= more[i][2]
    <3>1. i \in 1 .. count \/ i = count + 1
      BY <2>5, <2>7
    <3> QED
      BY <1>4, <2>4, <2>7, <3>1
  <2>10. /\ next.start = <<>> /\ next.drawn = more
         /\ next = [start |-> next.start, drawn |-> next.drawn]
    BY <2>2 DEF more, pair
  <2>11. Opens(t, Len(t) + 1) = Opens(t, n + 2)
    BY <1>1, <1>7
  <2> HIDE DEF next, all
  <2>12. SpansHold(t, next)
    BY <2>3, <2>5, <2>7, <2>8, <2>9, <2>10, <2>11 DEF SpansHold
  <2> QED
    BY <2>12 DEF t, next
<1>12. CASE e.event # "open notif" /\ ~(e.event = "close notif" /\ pend # {})
  <2>1. next = span
    <3>1. e.event = "close notif" => start = <<>>
      BY <1>4, <1>12
    <3> QED
      BY <1>12, <3>1 DEF SpanRow, start
  <2>2. Ends(t) = ends /\ Opens(t, n + 2) = pend
    BY <1>3, <1>12
  <2>3. next.start = start /\ next = [start |-> next.start, drawn |-> drawn]
    BY <1>4, <2>1 DEF start
  <2> HIDE DEF next
  <2>4. SpansHold(t, next)
    BY <1>4, <1>8, <1>9, <2>2, <2>3
  <2> QED
    BY <2>4 DEF t, next
<1> QED
  BY <1>10, <1>11, <1>12

\* So it draws the spans of any rows in order.
LEMMA SpansAre == \A q \in Seq(Line) : Ordered(q) => SpansHold(q, Drawing(q))
<1> DEFINE P == {q \in Seq(Line) : Ordered(q) => SpansHold(q, Drawing(q))}
<1> HIDE DEF Line
<1>1. <<>> \in P
  <2> DEFINE none == [start |-> <<>>, drawn |-> <<>>]
  <2>1. Drawing(<<>>) = none
    BY DrawingIsLoop, SpanLoop!LoopedEmpty
  <2>2. <<>> \in Seq(Line) /\ <<>> \in Seq(Nat \X Nat) /\ Len(<<>>) = 0 /\ DOMAIN <<>> = {}
    OBVIOUS
  <2>3. Opens(<<>>, Len(<<>>) + 1) = {} /\ Ends(<<>>) = {}
    <3>1. 1 .. (0 + 1) - 1 = {}
      OBVIOUS
    <3> QED
      BY <2>2, <3>1 DEF Opens, Ends
  <2>4. none.start = <<>> /\ none.drawn = <<>>
    OBVIOUS
  <2>5. SpansHold(<<>>, none)
    BY <2>2, <2>3, <2>4, FS_EmptySet DEF SpansHold
  <2> QED
    BY <2>1, <2>2, <2>5
<1>2. ASSUME NEW s \in Seq(Line), NEW e \in Line, s \in P PROVE Append(s, e) \in P
  <2>1. Append(s, e) \in Seq(Line)
    OBVIOUS
  <2>2. Drawing(Append(s, e)) = SpanRow(Drawing(s), e)
    <3> DEFINE none == [start |-> <<>>, drawn |-> <<>>]
    <3>1. SpanLoop!Looped(0, none, Append(s, e)) = SpanLine(0, SpanLoop!Looped(0, none, s), e)
      BY SpanLoop!LoopedAppend
    <3> QED
      BY <3>1, DrawingIsLoop DEF SpanLine
  <2>3. ASSUME Ordered(Append(s, e)) PROVE SpansHold(Append(s, e), Drawing(Append(s, e)))
    <3>1. Ordered(s)
      BY <2>3, OrderAppend
    <3>2. SpansHold(s, Drawing(s))
      BY <1>2, <3>1
    <3> QED
      BY <2>2, <2>3, <3>2, SpansAppend
  <2> QED
    BY <2>1, <2>3
<1> HIDE DEF P
<1>3. Seq(Line) \subseteq P
  BY <1>1, <1>2, SizeLoop!SequenceInduction
<1> QED
  BY <1>3 DEF P

\* Spans and statistics of every range are those of its rows, and no span ends
\* before it starts, though rows are stamped before they queue for the mutex.
THEOREM GraphsAreFaithful == Spec => []GraphIsFaithful
<1>1. LogInv => GraphIsFaithful
  <2> SUFFICES ASSUME LogInv, NEW from \in 0 .. now
               PROVE  /\ QuietSpans(InRange(log.lines, from, now), Spans(log.lines, from, now))
                      /\ \A i \in DOMAIN Spans(log.lines, from, now) :
                            LET span == Spans(log.lines, from, now)[i] IN span[1] <= span[2]
                      /\ LET points == Points(log.lines, {FanSpeed}, 0, now)
                             speeds == {row.num[FanSpeed] :
                                          row \in {p \in ToSet(points) : p.ts >= from}}
                         IN  Stats(points, FanSpeed, from, now) =
                               IF speeds = {} THEN <<>> ELSE <<Min(speeds), Max(speeds)>>
    BY DEF GraphIsFaithful
  <2> DEFINE q == InRange(log.lines, from, now)
             span == Drawing(q)
             points == Points(log.lines, {FanSpeed}, 0, now)
             speeds == Speeds(points, from)
             stats == Stats(points, FanSpeed, from, now)
  <2> HIDE DEF Line
  <2>1. log.lines \in Seq(Line) /\ Ordered(log.lines)
    BY DEF LogInv, FilesOK, FileOK, OrderOK
  <2>2. q \in Seq(Line) /\ Ordered(q)
    <3>1. Within(from, now) \in SUBSET Line
      BY DEF Within
    <3> QED
      BY <2>1, <3>1, InRangeIs, SomeLines
  <2>3. SpansHold(q, span)
    BY <2>2, SpansAre
  <2>4. Spans(log.lines, from, now) = span.drawn
    BY DEF Spans, Drawing
  <2>5. QuietSpans(q, span.drawn)
    <3> HIDE DEF q, span
    <3> QED
      BY <2>3 DEF SpansHold, QuietSpans, Ends, Opens
  <2>6. \A i \in DOMAIN span.drawn : span.drawn[i][1] <= span.drawn[i][2]
    <3> HIDE DEF q, span
    <3> QED
      BY <2>3 DEF SpansHold
  <2>7. stats = IF speeds = {} THEN <<>> ELSE <<Min(speeds), Max(speeds)>>
    <3>1. points \in Seq(FanPoints(0, now))
      BY <2>1, PointsAre
    <3>2. speeds \in SUBSET Int /\ StatsHold(stats, speeds)
      <4> HIDE DEF points
      <4> QED
        BY <3>1, StatsAre
    <3> HIDE DEF stats, speeds
    <3>3. CASE speeds = {}
      BY <3>2, <3>3 DEF StatsHold
    <3>4. CASE speeds # {}
      <4>1. PICK lo, hi \in speeds : stats = <<lo, hi>> /\ \A v \in speeds : lo <= v /\ v <= hi
        BY <3>2, <3>4 DEF StatsHold
      <4>2. Min(speeds) = lo /\ Max(speeds) = hi
        BY <3>2, <4>1, LeastAndGreatest
      <4> QED
        BY <3>4, <4>1, <4>2
    <3> QED
      BY <3>3, <3>4
  <2> QED
    BY <2>4, <2>5, <2>6, <2>7 DEF Speeds
<1> QED
  BY <1>1, Invariant, PTL

=============================================================================
