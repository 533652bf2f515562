--------------------------- MODULE RecClockProofs ---------------------------
(***************************************************************************)
(* The policy's properties hold at every moment, for any temperatures.     *)
(***************************************************************************)
EXTENDS MCRecClock, TLAPS

-----------------------------------------------------------------------------
(* Remainders: a moment is a number of days and a time of day.             *)

\* A time is its day and its time of day.
LEMMA DayParts ==
    ASSUME NEW D \in Nat, D > 0, NEW n \in Nat
    PROVE  n % D \in 0 .. D - 1 /\ n \div D \in Nat /\ n = D * (n \div D) + (n % D)
  BY SMT

\* The time of day is less than a day.
LEMMA TimeOfDay ==
    ASSUME NEW D \in Nat, D > 0, NEW q \in Nat, NEW r \in 0 .. D - 1
    PROVE  (D * q + r) % D = r
  BY SMT

\* A time later on the same day.
LEMMA LaterToday ==
    ASSUME NEW D \in Nat, D > 0, NEW n \in Nat, NEW k \in Nat, (n % D) + k < D
    PROVE  (n + k) % D = (n % D) + k
<1> DEFINE q == n \div D
           r == (n % D)
<1>1. q \in Nat /\ r \in Nat /\ n = D * q + r
  BY DayParts
<1>2. r + k \in 0 .. D - 1
  BY <1>1
<1> HIDE DEF q, r
<1>3. n + k = D * q + (r + k)
  BY <1>1
<1>4. (n + k) % D = r + k
  BY <1>1, <1>2, <1>3, TimeOfDay
<1> QED
  BY <1>4 DEF r

\* A time on the next day.
LEMMA Tomorrow ==
    ASSUME NEW D \in Nat, D > 0, NEW n \in Nat, NEW k \in Nat,
           (n % D) + k >= D, (n % D) + k < 2 * D
    PROVE  (n + k) % D = (n % D) + k - D
<1> DEFINE q == n \div D
           r == (n % D)
           s == r + k - D
<1>1. q \in Nat /\ r \in Nat /\ n = D * q + r
  BY DayParts
<1>2. s \in 0 .. D - 1 /\ q + 1 \in Nat
  BY <1>1
<1>3. n + k = D * q + r + k /\ s = r + k - D
  BY <1>1
<1> HIDE DEF q, r, s
<1>4. n + k = D * (q + 1) + s
  BY <1>1, <1>2, <1>3
<1>5. (n + k) % D = s
  BY <1>2, <1>4, TimeOfDay
<1> QED
  BY <1>5 DEF r, s

-----------------------------------------------------------------------------

\* localtime() gives the time of day.
LEMMA LocalTotal ==
    ASSUME NEW t \in Nat
    PROVE  localTotal(t) \in 0 .. dayTimeSeconds - 1
  BY DayParts, WindowAssumption DEF localTotal

\* The time of day a while later, today or tomorrow.
LEMMA LocalTotalLater ==
    ASSUME NEW t \in Nat, NEW k \in Nat
    PROVE  /\ localTotal(t) + k < dayTimeSeconds => localTotal(t + k) = localTotal(t) + k
           /\ localTotal(t) + k >= dayTimeSeconds /\ localTotal(t) + k < 2 * dayTimeSeconds
                 => localTotal(t + k) = localTotal(t) + k - dayTimeSeconds
<1> DEFINE D == dayTimeSeconds
<1>1. D \in Nat /\ D > 0
  BY WindowAssumption
<1> HIDE DEF D
<1>2. (t % D) + k < D => (t + k) % D = (t % D) + k
  BY <1>1, LaterToday
<1>3. (t % D) + k >= D /\ (t % D) + k < 2 * D => (t + k) % D = (t % D) + k - D
  BY <1>1, Tomorrow
<1> QED
  BY <1>2, <1>3 DEF localTotal, D

\* No reading deserves both recommendations at the same moment.
LEMMA WindowsDisjoint ==
    ASSUME NEW t \in Nat
    PROVE  ~(withinWindow(REC_OPEN, t) /\ withinWindow(REC_CLOSE, t))
  BY LocalTotal, WindowAssumption DEF withinWindow, REC_OPEN, REC_CLOSE

\* A recommendation is only made within its window.
LEMMA RecommendedInWindow ==
    ASSUME NEW h, NEW o, NEW t, getRecForTime(h, o, t) # REC_NONE
    PROVE  getRecForTime(h, o, t) \in Kind /\ withinWindow(getRecForTime(h, o, t), t)
<1> DEFINE diff == o - h
           opens == diff <= -MARGIN /\ withinWindow(REC_OPEN, t)
           closes == diff >= MARGIN /\ withinWindow(REC_CLOSE, t)
<1>1. getRecForTime(h, o, t) =
         IF opens THEN REC_OPEN ELSE IF closes THEN REC_CLOSE ELSE REC_NONE
  BY DEF getRecForTime
<1>2. opens => withinWindow(REC_OPEN, t)
  OBVIOUS
<1>3. closes => withinWindow(REC_CLOSE, t)
  OBVIOUS
<1> HIDE DEF opens, closes
<1> QED
  BY <1>1, <1>2, <1>3 DEF Kind

\* A quiet period is positive and shorter than a day.
LEMMA QuietLength ==
    ASSUME NEW t \in Nat, NEW rec \in Kind, withinWindow(rec, t)
    PROVE  secUntilWindow(rec, t) \in 1 .. dayTimeSeconds - 1
  BY LocalTotal, WindowAssumption
     DEF Kind, withinWindow, secUntilWindow, REC_OPEN, REC_CLOSE, REC_NONE

\* During an open notification's quiet period it is never time to close the
\* windows, and at its end it is for the first time.
LEMMA QuietAfterOpen ==
    ASSUME NEW t \in Nat, withinWindow(REC_OPEN, t)
    PROVE  LET until == t + secUntilWindow(REC_OPEN, t)
           IN  /\ WindowStarts(REC_CLOSE, until)
               /\ \A m \in t .. until - 1 : ~withinWindow(REC_CLOSE, m)
<1> DEFINE sec == secUntilWindow(REC_OPEN, t)
<1> USE WindowAssumption DEF REC_OPEN, REC_CLOSE, REC_NONE
<1>1. /\ localTotal(t) \in openWindowSeconds .. dayTimeSeconds - 1
      /\ sec = dayTimeSeconds - localTotal(t) + closeWindowSeconds
  BY LocalTotal DEF withinWindow, secUntilWindow
<1>2. sec \in Nat /\ sec - 1 \in Nat /\ (t + sec) - 1 = t + (sec - 1)
  BY <1>1
<1>2a. /\ localTotal(t) + sec = dayTimeSeconds + closeWindowSeconds
       /\ localTotal(t) + (sec - 1) = dayTimeSeconds + (closeWindowSeconds - 1)
       /\ localTotal(t) + sec >= dayTimeSeconds
       /\ localTotal(t) + (sec - 1) >= dayTimeSeconds
       /\ localTotal(t) + sec < 2 * dayTimeSeconds
       /\ localTotal(t) + (sec - 1) < 2 * dayTimeSeconds
  BY <1>1
<1> HIDE DEF sec
<1>3. localTotal(t + sec) = closeWindowSeconds
  <2>1. localTotal(t + sec) = localTotal(t) + sec - dayTimeSeconds
    BY <1>1, <1>2, <1>2a, LocalTotalLater
  <2> QED
    BY <1>1, <1>2a, <2>1
<1>4. localTotal(t + (sec - 1)) = closeWindowSeconds - 1
  <2>1. localTotal(t + (sec - 1)) = localTotal(t) + (sec - 1) - dayTimeSeconds
    BY <1>1, <1>2, <1>2a, LocalTotalLater
  <2> QED
    BY <1>1, <1>2a, <2>1
<1>5. WindowStarts(REC_CLOSE, t + sec)
  BY <1>2, <1>3, <1>4 DEF WindowStarts, withinWindow
<1>6. ASSUME NEW m \in t .. (t + sec) - 1
      PROVE  ~withinWindow(REC_CLOSE, m)
  <2>1. m - t \in Nat /\ t + (m - t) = m /\ m - t < sec
    BY <1>2
  <2>2. localTotal(m) >= openWindowSeconds \/ localTotal(m) < closeWindowSeconds
    <3> DEFINE k == m - t
    <3>1. k \in Nat /\ k < sec /\ localTotal(t) + k < 2 * dayTimeSeconds
      BY <1>1, <2>1
    <3>2. \/ localTotal(t) + k < dayTimeSeconds /\ localTotal(m) = localTotal(t) + k
          \/ localTotal(m) = localTotal(t) + k - dayTimeSeconds
      <4> HIDE DEF k
      <4>1. t + k = m
        BY <2>1 DEF k
      <4>2. /\ localTotal(t) + k < dayTimeSeconds
                 => localTotal(t + k) = localTotal(t) + k
            /\ localTotal(t) + k >= dayTimeSeconds
                 => localTotal(t + k) = localTotal(t) + k - dayTimeSeconds
        BY <3>1, LocalTotalLater
      <4> QED
        BY <1>1, <3>1, <4>1, <4>2
    <3> QED
      BY <1>1, <3>1, <3>2
  <2> QED
    BY <2>1, <2>2, LocalTotal DEF withinWindow
<1> QED
  BY <1>5, <1>6 DEF sec

\* The same for a close notification, whose quiet period ends the same day.
LEMMA QuietAfterClose ==
    ASSUME NEW t \in Nat, withinWindow(REC_CLOSE, t)
    PROVE  LET until == t + secUntilWindow(REC_CLOSE, t)
           IN  /\ WindowStarts(REC_OPEN, until)
               /\ \A m \in t .. until - 1 : ~withinWindow(REC_OPEN, m)
<1> DEFINE sec == secUntilWindow(REC_CLOSE, t)
<1> USE WindowAssumption DEF REC_OPEN, REC_CLOSE, REC_NONE
<1>1. /\ localTotal(t) \in closeWindowSeconds .. openWindowSeconds - 1
      /\ sec = openWindowSeconds - localTotal(t)
  BY LocalTotal DEF withinWindow, secUntilWindow
<1>2. sec \in Nat /\ sec - 1 \in Nat /\ (t + sec) - 1 = t + (sec - 1)
  BY <1>1
<1>2a. /\ localTotal(t) + sec = openWindowSeconds
       /\ localTotal(t) + (sec - 1) = openWindowSeconds - 1
       /\ localTotal(t) + sec < dayTimeSeconds
       /\ localTotal(t) + (sec - 1) < dayTimeSeconds
  BY <1>1
<1> HIDE DEF sec
<1>3. localTotal(t + sec) = openWindowSeconds
  BY <1>2, <1>2a, LocalTotalLater
<1>4. localTotal(t + (sec - 1)) = openWindowSeconds - 1
  BY <1>2, <1>2a, LocalTotalLater
<1>5. WindowStarts(REC_OPEN, t + sec)
  BY <1>2, <1>3, <1>4 DEF WindowStarts, withinWindow
<1>6. ASSUME NEW m \in t .. (t + sec) - 1
      PROVE  ~withinWindow(REC_OPEN, m)
  <2>1. m - t \in Nat /\ t + (m - t) = m /\ m - t < sec
    BY <1>2
  <2>2. localTotal(m) < openWindowSeconds
    BY <1>1, <2>1, LocalTotalLater
  <2> QED
    BY <2>1, <2>2, LocalTotal DEF withinWindow
<1> QED
  BY <1>5, <1>6 DEF sec

\* The two cases in one: from a moment of rec's window to the end of the
\* quiet period there is no moment of the other window, at its end there is.
LEMMA QuietCovers ==
    ASSUME NEW t \in Nat, NEW rec \in Kind, withinWindow(rec, t)
    PROVE  LET until == t + secUntilWindow(rec, t)
           IN  /\ secUntilWindow(rec, t) \in Nat \ {0}
               /\ WindowStarts(Opposite(rec), until)
               /\ \A m \in t .. until - 1 : ~withinWindow(Opposite(rec), m)
<1>1. secUntilWindow(rec, t) \in Nat \ {0}
  BY QuietLength, WindowAssumption
<1>2. CASE rec = REC_OPEN
  BY <1>1, <1>2, QuietAfterOpen DEF Opposite
<1>3. CASE rec = REC_CLOSE
  BY <1>1, <1>3, QuietAfterClose DEF Opposite, REC_OPEN, REC_CLOSE
<1> QED
  BY <1>2, <1>3 DEF Kind

-----------------------------------------------------------------------------
(* The windows of the graphs.  Only one thing can go wrong: the clock is   *)
(* changed between the moment and an end of its window.  A midnight is two *)
(* hours away from the change, so it is one moment and no other.           *)

\* The quotient of a division by a positive number.
LEMMA Quotient ==
    ASSUME NEW D \in Nat, D > 0, NEW n \in Int
    PROVE  /\ n \div D \in Int /\ (n \div D) * D <= n /\ n < (n \div D) * D + D
           /\ n % D = n - (n \div D) * D
  BY SMT

\* The clock is changed at two in the morning of day d.
ChangedOn(calendar, d) ==
    calendar.at = 2 * Hour + d * Day /\ calendar.shift \in {Hour, -Hour}

\* A day has twenty-four hours.
LEMMA DayIs == Hour \in Nat /\ Hour > 0 /\ Day = 24 * Hour /\ Day \in Nat /\ Day > 0
  BY HourAssumption DEF Day

\* Days apart are at least a day apart.
LEMMA DaysApart ==
    ASSUME NEW k \in Int, NEW d \in Int
    PROVE  /\ k * Day \in Int /\ d * Day \in Int
           /\ (k + 1) * Day = k * Day + Day
           /\ k <= d => k * Day <= d * Day
           /\ k > d => k * Day >= d * Day + Day
<1> DEFINE D == Day
<1>1. D \in Nat /\ D > 0
  BY DayIs
<1> HIDE DEF D
<1>2. k * D \in Int /\ d * D \in Int /\ (k + 1) * D = k * D + D
  BY <1>1
<1>3. k <= d => k * D <= d * D
  BY <1>1, SMT
<1>4. k > d => k * D >= d * D + D
  <2> SUFFICES ASSUME k > d PROVE k * D >= d * D + D
    OBVIOUS
  <2>1. k - d >= 1 /\ k - d \in Int
    OBVIOUS
  <2>2. (k - d) * D >= D
    BY <1>1, <2>1, SMT
  <2> QED
    BY <1>1, <2>2, SMT
<1> QED
  BY <1>2, <1>3, <1>4 DEF D

\* What mktime may answer.
LEMMA MkTime ==
    ASSUME NEW c, NEW at \in Int, c.at = at, c.shift \in {Hour, -Hour}, NEW local \in Int
    PROVE  /\ mktime(c, local) # {}
           /\ \A x \in mktime(c, local) :
                 /\ x = local \/ x = local - c.shift
                 /\ local < at /\ (c.shift = Hour \/ local < at - Hour) => x = local
                 /\ local >= at + Hour \/ (c.shift = -Hour /\ local >= at)
                       => x = local - c.shift
<1> DEFINE sh == c.shift
           exact == {t \in {local, local - sh} : Local(c, t) = local}
           answers == mktime(c, local)
<1>0. Hour \in Nat /\ Hour > 0 /\ sh \in Int
  BY DayIs
<1>1. /\ Local(c, local) = IF local < at THEN local ELSE local + sh
      /\ Local(c, local - sh) = IF local - sh < at THEN local - sh ELSE local
  BY <1>0 DEF Local
<1>2. answers = IF exact = {} THEN {local, local - sh} ELSE exact
  BY DEF mktime
<1>3. answers # {} /\ \A x \in answers : x = local \/ x = local - sh
  <2>1. exact \subseteq {local, local - sh}
    OBVIOUS
  <2> HIDE DEF exact, answers, sh
  <2> QED
    BY <1>2, <2>1
<1>4. /\ local \in exact <=> local < at
      /\ local - sh \in exact <=> ~(local - sh < at)
  BY <1>0, <1>1
<1>5. sh = Hour \/ sh = -Hour
  OBVIOUS
<1> HIDE DEF exact, answers, sh
<1>6. ASSUME NEW x \in answers, local < at /\ (sh = Hour \/ local < at - Hour)
      PROVE  x = local
  <2>1. local \in exact /\ local - sh \notin exact
    BY <1>0, <1>4, <1>5, <1>6
  <2> QED
    BY <1>2, <1>3, <1>6, <2>1
<1>7. ASSUME NEW x \in answers, local >= at + Hour \/ (sh = -Hour /\ local >= at)
      PROVE  x = local - sh
  <2>1. local \notin exact /\ local - sh \in exact
    BY <1>0, <1>4, <1>5, <1>7
  <2> QED
    BY <1>2, <1>3, <1>7, <2>1
<1> QED
  BY <1>3, <1>6, <1>7 DEF answers, sh

\* A midnight is one moment.
LEMMA MidnightIs ==
    ASSUME NEW c, NEW d \in Int, ChangedOn(c, d), NEW k \in Int
    PROVE  mktime(c, k * Day) = {IF k <= d THEN k * Day ELSE k * Day - c.shift}
<1> DEFINE at == 2 * Hour + d * Day
           m == k * Day
<1>1. /\ Hour \in Nat /\ Hour > 0 /\ Day = 24 * Hour /\ d * Day \in Int /\ m \in Int
      /\ k <= d => m <= d * Day
      /\ k > d => m >= d * Day + Day
  BY DayIs, DaysApart
<1>2. at \in Int /\ c.at = at /\ c.shift \in {Hour, -Hour}
  BY <1>1 DEF ChangedOn
<1>3. k <= d => m < at - Hour /\ m < at
  BY <1>1
<1>4. k > d => m >= at + Hour
  BY <1>1
<1> HIDE DEF at, m
<1>5. /\ mktime(c, m) # {}
      /\ \A x \in mktime(c, m) : x = IF k <= d THEN m ELSE m - c.shift
  <2>1. k <= d \/ k > d
    OBVIOUS
  <2> QED
    BY <1>1, <1>2, <1>3, <1>4, <2>1, MkTime
<1>6. mktime(c, m) = {IF k <= d THEN m ELSE m - c.shift}
  BY <1>5
<1> QED
  BY <1>6 DEF m

\* The local day of a moment: its midnights around it.
LEMMA LocalDay ==
    ASSUME NEW c, NEW d \in Int, ChangedOn(c, d), NEW t \in Int
    PROVE  LET k == Local(c, t) \div Day
               mid(j) == IF j <= d THEN j * Day ELSE j * Day - c.shift
           IN  /\ k \in Int
               /\ k * Day <= Local(c, t) /\ Local(c, t) < k * Day + Day
               /\ \A n \in Int : localDayStart(c, t, n) = {mid(k + n)}
               /\ mid(k) <= t /\ t < mid(k + 1)
<1> DEFINE at == 2 * Hour + d * Day
           local == Local(c, t)
           k == local \div Day
           sh == c.shift
           mid(j) == IF j <= d THEN j * Day ELSE j * Day - sh
<1>1. Hour \in Nat /\ Hour > 0 /\ Day = 24 * Hour /\ Day \in Nat /\ Day > 0 /\ d * Day \in Int
  BY DayIs, DaysApart
<1>2. c.at = at /\ at \in Int /\ (sh = Hour \/ sh = -Hour) /\ sh \in Int
  BY <1>1 DEF ChangedOn
<1>3. local = (IF t < at THEN t ELSE t + sh) /\ local \in Int
  BY <1>2 DEF Local
<1> HIDE DEF local, sh
<1>4. k \in Int /\ k * Day <= local /\ local < k * Day + Day
  BY <1>1, <1>3, Quotient
<1> HIDE DEF k
<1>5. \A n \in Int : localDayStart(c, t, n) = {mid(k + n)}
  <2> TAKE n \in Int
  <2>1. localDayStart(c, t, n) = mktime(c, (k + n) * Day)
    BY DEF localDayStart, k, local
  <2>2. k + n \in Int
    BY <1>4
  <2> QED
    BY <2>1, <2>2, MidnightIs DEF sh
<1>6. /\ k * Day \in Int /\ (k + 1) * Day = k * Day + Day
      /\ k <= d => k * Day <= d * Day
      /\ k > d => k * Day >= d * Day + Day
      /\ k + 1 <= d => (k + 1) * Day <= d * Day
      /\ k + 1 > d => (k + 1) * Day >= d * Day + Day
  <2>1. k + 1 \in Int
    BY <1>4
  <2> QED
    BY <1>4, <2>1, DaysApart
<1> DEFINE m == k * Day
           next == (k + 1) * Day
           day == d * Day
<1>7. mid(k) <= t
  <2>1. CASE k <= d
    <3>1. m <= day /\ m <= local /\ m \in Int /\ day \in Int
      BY <1>1, <1>4, <1>6, <2>1
    <3> HIDE DEF m, day
    <3>2. m <= t
      BY <1>1, <1>2, <1>3, <3>1 DEF day
    <3> QED
      BY <2>1, <3>2 DEF m
  <2>2. CASE k > d
    <3>1. m >= day + Day /\ m <= local /\ m \in Int /\ day \in Int
      BY <1>1, <1>4, <1>6, <2>2
    <3> HIDE DEF m, day
    <3>2. m - sh <= t
      BY <1>1, <1>2, <1>3, <3>1 DEF day
    <3>3. ~(k <= d)
      BY <1>4, <2>2
    <3> QED
      BY <3>2, <3>3 DEF m
  <2> QED
    BY <1>4, <2>1, <2>2
<1>8. t < mid(k + 1)
  <2>0. next \in Int /\ day \in Int /\ local < next
    BY <1>1, <1>4, <1>6
  <2>1. CASE k + 1 <= d
    <3>1. next <= day
      BY <1>6, <2>1
    <3> HIDE DEF next, day
    <3>2. t < next
      BY <1>1, <1>2, <1>3, <2>0, <3>1 DEF day
    <3> QED
      BY <2>1, <3>2 DEF next
  <2>2. CASE k + 1 > d
    <3>1. next >= day + Day
      BY <1>6, <2>2
    <3> HIDE DEF next, day
    <3>2. t < next - sh
      BY <1>1, <1>2, <1>3, <2>0, <3>1 DEF day
    <3>3. ~(k + 1 <= d)
      BY <1>4, <2>2
    <3> QED
      BY <3>2, <3>3 DEF next
  <2> QED
    BY <1>4, <2>1, <2>2
<1> QED
  BY <1>4, <1>5, <1>7, <1>8 DEF k, local, sh

\* The windows of several days run from one midnight to another.
LEMMA DaysHold ==
    ASSUME NEW c, NEW d \in Int, ChangedOn(c, d), NEW t \in Int, NEW n \in {2, 6},
           NEW w \in localDayStart(c, t, -n) \X localDayStart(c, t, 1)
    PROVE  /\ w[1] < w[2] /\ w[1] <= t /\ t <= w[2]
           /\ \A s \in localDayStart(c, t, -n) : w[1] <= s /\ s <= t
<1> DEFINE k == Local(c, t) \div Day
           sh == c.shift
           mid(j) == IF j <= d THEN j * Day ELSE j * Day - sh
<1>1. /\ k \in Int /\ \A i \in Int : localDayStart(c, t, i) = {mid(k + i)}
      /\ mid(k) <= t /\ t < mid(k + 1)
  BY LocalDay
<1>2. Hour \in Nat /\ Hour > 0 /\ Day = 24 * Hour /\ (sh = Hour \/ sh = -Hour) /\ sh \in Int
  BY DayIs DEF ChangedOn
<1> HIDE DEF k, sh
<1>3. -n \in Int /\ k + (-n) \in Int /\ k + (-n) < k /\ k + 1 \in Int
  BY <1>1
<1>4. w[1] = mid(k + (-n)) /\ w[2] = mid(k + 1)
  <2>1. localDayStart(c, t, -n) = {mid(k + (-n))} /\ localDayStart(c, t, 1) = {mid(k + 1)}
    BY <1>1, <1>3
  <2> HIDE DEF mid
  <2> QED
    BY <2>1
<1>5. mid(k + (-n)) <= mid(k) /\ mid(k + (-n)) \in Int /\ mid(k) \in Int /\ mid(k + 1) \in Int
  <2> DEFINE a == (k + (-n)) * Day
             b == k * Day
             next == (k + 1) * Day
  <2>1. a \in Int /\ b \in Int /\ next \in Int
    BY <1>1, <1>3, DaysApart
  <2>2. a + Day <= b
    BY <1>1, <1>3, DaysApart
  <2> HIDE DEF a, b, next
  <2>3. mid(k + (-n)) \in {a, a - sh} /\ mid(k) \in {b, b - sh} /\ mid(k + 1) \in {next, next - sh}
    BY DEF a, b, next
  <2> HIDE DEF mid
  <2> QED
    BY <1>2, <2>1, <2>2, <2>3
<1>6. \A s \in localDayStart(c, t, -n) : s = w[1]
  BY <1>1, <1>3, <1>4
<1> HIDE DEF mid
<1> QED
  BY <1>1, <1>4, <1>5, <1>6

\* The window of a day runs from an even hour to an even hour.
LEMMA EvenHours ==
    ASSUME NEW local \in Int
    PROVE  /\ EvenHour(local) \in Int /\ EvenHour(local) <= local
           /\ DayEnd(local) \in Int /\ local <= DayEnd(local)
<1> DEFINE H2 == 2 * Hour
           e == local \div H2
           r == local % H2
<1>1. H2 \in Nat /\ H2 > 0 /\ Hour \in Nat
  BY DayIs
<1> HIDE DEF H2
<1>2. e \in Int /\ e * H2 <= local /\ local < e * H2 + H2 /\ r = local - e * H2
  BY <1>1, Quotient
<1>3. EvenHour(local) = e * 2 * Hour
  BY DEF EvenHour, H2
<1>4. DayEnd(local) = EvenHour(local) + (IF r # 0 THEN H2 ELSE 0)
  BY DEF DayEnd, H2
<1> HIDE DEF e, r
<1>5. e * 2 * Hour = e * H2
  BY <1>1, <1>2, SMT DEF H2
<1> DEFINE even == e * H2
<1>6. even \in Int
  BY <1>1, <1>2
<1> HIDE DEF even
<1>7. /\ EvenHour(local) = even /\ even <= local /\ local < even + H2 /\ r = local - even
      /\ DayEnd(local) = even + (IF r # 0 THEN H2 ELSE 0)
  BY <1>2, <1>3, <1>4, <1>5 DEF even
<1> QED
  BY <1>1, <1>6, <1>7

\* The window of the day graph holds its moment.
LEMMA DayHolds ==
    ASSUME NEW c, NEW d \in Int, ChangedOn(c, d), NEW t \in Int,
           NEW w \in loggerWebGraphRangeWindow("day", c, t)
    PROVE  /\ w[1] < w[2] /\ w[1] <= t
           /\ t <= w[2] \/ (c.at - Hour <= t /\ t <= c.at + Hour)
           /\ \A s \in localDayStart(c, t, 0) :
                 LET from == IF t - Day > s THEN t - Day ELSE s
                 IN  w[1] <= from /\ from <= t
<1> DEFINE at == 2 * Hour + d * Day
           local == Local(c, t)
           k == local \div Day
           sh == c.shift
           m == k * Day
           day == d * Day
           mid == IF k <= d THEN m ELSE m - sh
           start == EvenHour(local) - Day
           end == DayEnd(local)
<1>1. /\ Hour \in Nat /\ Hour > 0 /\ Day = 24 * Hour /\ Day \in Nat /\ day \in Int
      /\ at = 2 * Hour + day /\ at \in Int
      /\ c.at = at /\ (sh = Hour \/ sh = -Hour) /\ sh \in Int
  BY DayIs, DaysApart DEF ChangedOn
<1>2. local = (IF t < at THEN t ELSE t + sh) /\ local \in Int
  BY <1>1 DEF Local
<1>3. /\ k \in Int /\ m <= local /\ local < m + Day
      /\ localDayStart(c, t, 0) = {mid} /\ mid <= t
  <2>1. k + 0 = k /\ k \in Int
    BY LocalDay
  <2> QED
    BY <2>1, LocalDay
<1>4. m \in Int /\ (k <= d => m <= day) /\ (k > d => m >= day + Day)
  BY <1>3, DaysApart
<1> HIDE DEF k, local
<1>5. start \in Int /\ start + Day <= local /\ end \in Int /\ local <= end
  BY <1>1, <1>2, EvenHours
<1> HIDE DEF m, day, at, start, end, sh
<1>6. w = <<t - Day, t>> \/
      (w[1] < w[2] /\ w[1] \in mktime(c, start) /\ w[2] \in mktime(c, end))
  <2>1. loggerWebGraphRangeWindow("day", c, t)
          = {IF v[1] < v[2] THEN v ELSE <<t - Day, t>> : v \in mktime(c, start) \X mktime(c, end)}
    BY DEF loggerWebGraphRangeWindow, graphDayWindow, start, end, local
  <2> QED
    BY <2>1
<1>7. CASE w = <<t - Day, t>>
  <2>1. w[1] = t - Day /\ w[2] = t
    BY <1>7
  <2>2. mid \in Int
    BY <1>1, <1>4
  <2> HIDE DEF mid
  <2>3. w[1] < w[2] /\ w[1] <= t /\ t <= w[2]
    BY <1>1, <2>1
  <2>4. mid <= t
    BY <1>3
  <2>5. LET from == IF t - Day > mid THEN t - Day ELSE mid
        IN  w[1] <= from /\ from <= t
    BY <1>1, <2>1, <2>2, <2>4
  <2>6. ASSUME NEW s \in localDayStart(c, t, 0) PROVE s = mid
    BY <1>3
  <2> QED
    BY <2>3, <2>5, <2>6
<1>8. CASE w[1] < w[2] /\ w[1] \in mktime(c, start) /\ w[2] \in mktime(c, end)
  <2> DEFINE a == w[1]
             b == w[2]
  <2>1. /\ a = start \/ a = start - sh
        /\ start < at /\ (sh = Hour \/ start < at - Hour) => a = start
        /\ start >= at + Hour \/ (sh = -Hour /\ start >= at) => a = start - sh
    BY <1>1, <1>5, <1>8, MkTime DEF sh
  <2>2. /\ b = end \/ b = end - sh
        /\ end < at /\ (sh = Hour \/ end < at - Hour) => b = end
        /\ end >= at + Hour \/ (sh = -Hour /\ end >= at) => b = end - sh
    BY <1>1, <1>5, <1>8, MkTime DEF sh
  <2> HIDE DEF a, b
  <2>3. a <= t
    BY <1>1, <1>2, <1>5, <2>1
  <2>4. t <= b \/ (at - Hour <= t /\ t <= at + Hour)
    BY <1>1, <1>2, <1>5, <2>2
  <2>5. a <= t - Day \/ a <= mid
    <3>1. CASE t < at
      <4>1. start <= t - Day /\ start < at - Hour
        BY <1>1, <1>2, <1>5, <3>1
      <4>2. a = start
        BY <1>1, <1>5, <2>1, <4>1
      <4> QED
        BY <4>1, <4>2
    <3>2. CASE t >= at /\ a = start - sh
      <4>1. start + Day <= t + sh
        BY <1>1, <1>2, <1>5, <3>2
      <4> QED
        BY <1>1, <1>5, <3>2, <4>1
    <3>3. CASE t >= at /\ a = start /\ sh = -Hour
      BY <1>1, <1>2, <1>5, <3>3
    <3>4. CASE t >= at /\ a = start /\ sh = Hour
      <4>1. start < at + Hour
        BY <1>1, <1>5, <2>1, <3>4
      <4>2. start < m
        <5>1. local < m + Day
          BY <1>3
        <5> QED
          BY <1>1, <1>2, <1>4, <1>5, <5>1
      <4>3. CASE k <= d
        BY <3>4, <4>2, <4>3, <1>4, <1>5
      <4>4. CASE k > d
        <5>1. m >= day + Day /\ ~(k <= d)
          BY <1>3, <1>4, <4>4
        <5>2. start <= m - Hour
          BY <1>1, <1>4, <1>5, <4>1, <5>1
        <5> QED
          BY <3>4, <5>1, <5>2
      <4> QED
        BY <1>3, <4>3, <4>4
    <3> QED
      BY <1>1, <2>1, <3>1, <3>2, <3>3, <3>4
  <2>6. mid \in Int /\ a \in Int
    BY <1>1, <1>4, <1>5, <2>1
  <2> HIDE DEF mid
  <2>7. LET from == IF t - Day > mid THEN t - Day ELSE mid
        IN  a <= from /\ from <= t
    BY <1>1, <1>3, <2>5, <2>6
  <2>8. a < b
    BY <1>8 DEF a, b
  <2>9. ASSUME NEW s \in localDayStart(c, t, 0) PROVE s = mid
    BY <1>3
  <2> QED
    BY <1>1, <2>3, <2>4, <2>7, <2>8, <2>9 DEF a, b
<1> QED
  BY <1>6, <1>7, <1>8

\* So do the others, for every moment and every range.
LEMMA WindowsAlwaysHold ==
    ASSUME NEW c, NEW d \in Int, ChangedOn(c, d), NEW t \in Int
    PROVE  WindowsHold(c, t)
<1> DEFINE Good(w, starts) ==
             /\ w[1] < w[2] /\ w[1] <= t
             /\ t <= w[2] \/ (c.at - Hour <= t /\ t <= c.at + Hour)
             /\ \A s \in starts : w[1] <= s[1] /\ s[1] <= s[2]
<1>1. ASSUME NEW w \in loggerWebGraphRangeWindow("day", c, t)
      PROVE  Good(w, loggerWebGraphStatsWindow("day", c, t))
  <2>1. loggerWebGraphStatsWindow("day", c, t)
          = {<<s, t>> : s \in {IF t - Day > m THEN t - Day ELSE m : m \in localDayStart(c, t, -0)}}
    BY DEF loggerWebGraphStatsWindow
  <2>2. -0 = 0
    <3>1. \A x \in Int : -x \in Int /\ x + (-x) = 0
      OBVIOUS
    <3>2. \A y \in Int : 0 + y = 0 => y = 0
      OBVIOUS
    <3>3. 0 \in Int
      OBVIOUS
    <3>4. -0 \in Int /\ 0 + (-0) = 0
      BY <3>1, <3>3, Zenon
    <3> QED
      BY <3>2, <3>4, Zenon
  <2> QED
    BY <2>1, <2>2, DayHolds
<1>2. ASSUME NEW range, NEW n, (range = "three-days" /\ n = 2) \/ (range = "week" /\ n = 6),
             NEW w \in loggerWebGraphRangeWindow(range, c, t)
      PROVE  Good(w, loggerWebGraphStatsWindow(range, c, t))
  <2>1. n \in {2, 6} /\ range # "day"
    BY <1>2
  <2>2. loggerWebGraphRangeWindow(range, c, t) = localDayStart(c, t, -n) \X localDayStart(c, t, 1)
    BY <1>2 DEF loggerWebGraphRangeWindow
  <2>3. loggerWebGraphStatsWindow(range, c, t) = {<<s, t>> : s \in localDayStart(c, t, -n)}
    BY <1>2 DEF loggerWebGraphStatsWindow
  <2>4. /\ w[1] < w[2] /\ w[1] <= t /\ t <= w[2]
        /\ \A s \in localDayStart(c, t, -n) : w[1] <= s /\ s <= t
    BY <2>1, <2>2, DaysHold
  <2> QED
    BY <2>3, <2>4
<1> HIDE DEF Good
<1>3. \A range \in {"day", "three-days", "week"} :
         \A w \in loggerWebGraphRangeWindow(range, c, t) :
            Good(w, loggerWebGraphStatsWindow(range, c, t))
  BY <1>1, <1>2
<1> QED
  BY <1>3 DEF WindowsHold, Good

\* At every moment the quiet period runs to the next window and no further.
THEOREM QuietPeriods == Spec => []QuietEndsAtNextWindow
<1>1. Init => TypeOK
  BY DEF Init, TypeOK
<1>2. TypeOK /\ [Next]_vars => TypeOK'
  BY DEF TypeOK, Next, vars
<1>3. TypeOK => QuietEndsAtNextWindow
  <2> SUFFICES ASSUME TypeOK, NEW rec \in Kind, withinWindow(rec, now)
               PROVE  LET until == now + secUntilWindow(rec, now)
                      IN  /\ until > now
                          /\ WindowStarts(Opposite(rec), until)
                          /\ \A t \in now .. until - 1 : ~withinWindow(Opposite(rec), t)
    BY DEF QuietEndsAtNextWindow
  <2>1. now \in Nat
    BY DEF TypeOK
  <2> QED
    BY <2>1, QuietCovers
<1> QED
  BY <1>1, <1>2, <1>3, PTL DEF Spec

\* Two readings of the same moment never contradict each other.
THEOREM NoContradiction == Spec => []OneKindAtATime
<1>1. Init => TypeOK
  BY DEF Init, TypeOK
<1>2. TypeOK /\ [Next]_vars => TypeOK'
  BY DEF TypeOK, Next, vars
<1>3. TypeOK => OneKindAtATime
  BY WindowsDisjoint
     DEF TypeOK, OneKindAtATime, Opposite, getRecForTime, REC_OPEN, REC_CLOSE, REC_NONE
<1> QED
  BY <1>1, <1>2, <1>3, PTL DEF Spec

\* At every moment, in whatever night the clock is changed, no window is empty,
\* each holds the moment it is asked for, and statistics never reach back
\* before what the graph draws.
THEOREM WindowsAreRight == Spec => []WindowsHoldNow
<1>1. Init => TypeOK
  BY DEF Init, TypeOK
<1>2. TypeOK /\ [Next]_vars => TypeOK'
  BY DEF TypeOK, Next, vars
<1>3. TypeOK => WindowsHoldNow
  <2> SUFFICES ASSUME TypeOK, NEW calendar \in Calendars PROVE WindowsHold(calendar, now)
    BY DEF WindowsHoldNow
  <2>1. PICK d \in -7 .. 2 : ChangedOn(calendar, d)
    BY DEF Calendars, ChangedOn
  <2>2. d \in Int /\ now \in Int
    BY DEF TypeOK
  <2> QED
    BY <2>1, <2>2, WindowsAlwaysHold
<1> QED
  BY <1>1, <1>2, <1>3, PTL DEF Spec

=============================================================================
