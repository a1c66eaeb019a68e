--------------------------- MODULE OperatorProofs ---------------------------
(***************************************************************************)
(* What the operators that tools work out their answers with return, for   *)
(* any arguments: the buckets, rows and samples of a log's summary         *)
(* (LogSummary), and the logs of a report within its budget of lines       *)
(* (ReportParts).                                                          *)
(***************************************************************************)
EXTENDS LogSummary, ReportParts, Events, ListProofs

-----------------------------------------------------------------------------
(* The width of the buckets.                                               *)

\* More buckets than the limit take a log longer than all but one of them: the
\* first and the last may each hold a single second.
LEMMA TooManyTakeTime ==
    ASSUME NEW start \in Nat, NEW end \in Nat, NEW w \in Nat \ {0}, NEW limit \in Nat \ {0},
           BucketCount(start, end, w) > limit
    PROVE  end - start > w * (limit - 1)
<1> DEFINE p == start \div w
           q == end \div w
<1>1. p \in Int /\ q \in Int
    OBVIOUS
<1>2. w * p <= start /\ start < w * (p + 1)
    BY Z3
<1>3. w * q <= end /\ end < w * (q + 1)
    BY Z3
<1>4. q - p >= limit
    BY <1>1 DEF BucketCount
<1> HIDE DEF p, q
<1>5. w * (q - p) >= w * limit
    BY <1>1, <1>4, Z3
<1>6. w * q - w * (p + 1) = w * (q - p) - w /\ w * (limit - 1) = w * limit - w
    BY <1>1, Z3
<1>7. w * q \in Int /\ w * (p + 1) \in Int /\ w * limit \in Int /\ w * (q - p) \in Int
    BY <1>1
<1>8. end - start > w * q - w * (p + 1)
    BY <1>2, <1>3, <1>7
<1> QED
    BY <1>5, <1>6, <1>7, <1>8

\* A width of which all but one of the limit's buckets hold the log keeps to the
\* limit.
LEMMA WideKeepsToLimit ==
    ASSUME NEW start \in Nat, NEW end \in Nat, NEW w \in Nat \ {0},
           end - start <= w * (MaxBuckets - 1)
    PROVE  BucketCount(start, end, w) <= MaxBuckets
<1>1. MaxBuckets \in Nat \ {0}
    BY BucketsAssumption
<1>2. BucketCount(start, end, w) \in Int /\ w * (MaxBuckets - 1) \in Int
    BY <1>1 DEF BucketCount
<1>3. ~(BucketCount(start, end, w) > MaxBuckets)
    <2> SUFFICES ASSUME BucketCount(start, end, w) > MaxBuckets PROVE FALSE
        OBVIOUS
    <2>1. end - start > w * (MaxBuckets - 1)
        BY <1>1, TooManyTakeTime
    <2> QED
        BY <1>2, <2>1
<1> QED
    BY <1>1, <1>2, <1>3

\* The narrowest of some widths is one of them.
LEMMA NarrowestIsOne ==
    ASSUME NEW S \in SUBSET Nat, S # {}
    PROVE  Narrowest(S) \in S
<1>1. PICK w \in S : \A v \in S : <<v, w>> \notin OpToRel(<, Nat)
    BY NatLessThanWellFounded, WFMin, Zenon
<1>2. ASSUME NEW v \in S, v < w PROVE FALSE
    <2>1. <<v, w>> \in Nat \X Nat /\ <<v, w>>[1] < <<v, w>>[2]
        BY <1>2
    <2>2. <<v, w>> \in OpToRel(<, Nat)
        BY <2>1 DEF OpToRel
    <2> QED
        BY <1>1, <2>2
<1>3. \A v \in S : w <= v
    BY <1>2
<1> QED
    BY <1>3 DEF Narrowest

\* Rounding needed down loses less than a second of each bucket; the one bucket to
\* spare is at least a day, which makes up for it.
LEMMA DayWidthIsWide ==
    ASSUME NEW start \in Nat, NEW end \in Nat, end - start > MaxBuckets - 1
    PROVE  /\ DayWidth(start, end) \in Nat \ {0}
           /\ end - start <= DayWidth(start, end) * (MaxBuckets - 1)
<1> DEFINE n == MaxBuckets - 2
           S == end - start
           needed == S \div n
           k == (needed + Day - 1) \div Day
           w == Day * k
<1>1. n \in Nat /\ n > 0 /\ S \in Nat /\ S > n /\ Day \in Nat /\ Day > n + 1
    BY BucketsAssumption
<1>2. needed \in Nat /\ S < n * (needed + 1)
    BY <1>1, Z3
<1>3. needed > 0
    BY <1>1, <1>2, Z3
<1>4. k \in Nat /\ needed + Day - 1 < Day * (k + 1)
    BY <1>1, <1>2, Z3
<1> HIDE DEF k, needed, n, S
<1>5. w \in Nat /\ needed <= w
    <2>1. Day * (k + 1) = Day * k + Day /\ Day * k \in Nat
        BY <1>1, <1>4, Z3
    <2> QED
        BY <1>1, <1>2, <1>4, <2>1
<1>6. w >= Day
    <2>1. k # 0
        BY <1>1, <1>2, <1>3, <1>4
    <2> QED
        BY <1>1, <1>4, <2>1, Z3
<1>7. n * (needed + 1) <= n * (w + 1)
    BY <1>1, <1>2, <1>5, Z3
<1>8. n * (w + 1) = n * w + n /\ w * (n + 1) = n * w + w /\ n * w \in Nat
    BY <1>1, <1>5, Z3
<1>9. S <= w * (n + 1)
    <2>1. n * (needed + 1) \in Nat
        BY <1>1, <1>2
    <2> QED
        BY <1>1, <1>2, <1>5, <1>6, <1>7, <1>8, <2>1
<1>10. DayWidth(start, end) = w
    BY DEF DayWidth, w, k, needed, S, n
<1>11. MaxBuckets - 1 = n + 1
    BY BucketsAssumption DEF n
<1> QED
    BY <1>1, <1>5, <1>6, <1>9, <1>10, <1>11 DEF S

\* However long a log and narrow the buckets asked for, no summary has
\* more buckets than the limit (_buckets).
THEOREM WidthBounds ==
    ASSUME NEW start \in Nat, NEW end \in Nat, start <= end, NEW asked \in Nat \ {0}
    PROVE  BucketCount(start, end, Width(start, end, asked)) <= MaxBuckets
<1>1. CASE BucketCount(start, end, asked) <= MaxBuckets
    BY <1>1 DEF Width
<1>2. CASE ~(BucketCount(start, end, asked) <= MaxBuckets)
    <2> DEFINE wide == Usable(start, end, asked)
    <2>1. CASE wide # {}
        <3>1. wide \in SUBSET Nat
            BY BucketsAssumption DEF Usable
        <3>2. Narrowest(wide) \in wide
            BY <2>1, <3>1, NarrowestIsOne
        <3>3. /\ Narrowest(wide) \in Nat \ {0}
              /\ end - start <= Narrowest(wide) * (MaxBuckets - 2)
            BY <3>2, BucketsAssumption DEF Usable, WideEnough
        <3>4. Narrowest(wide) * (MaxBuckets - 2) <= Narrowest(wide) * (MaxBuckets - 1)
            BY <3>3, BucketsAssumption, Z3
        <3>5. /\ Narrowest(wide) * (MaxBuckets - 2) \in Int
              /\ Narrowest(wide) * (MaxBuckets - 1) \in Int
            BY <3>3, BucketsAssumption
        <3>6. end - start <= Narrowest(wide) * (MaxBuckets - 1)
            BY <3>3, <3>4, <3>5
        <3>7. BucketCount(start, end, Narrowest(wide)) <= MaxBuckets
            BY <3>3, <3>6, WideKeepsToLimit
        <3> QED
            BY <1>2, <2>1, <3>7 DEF Width
    <2>2. CASE wide = {}
        <3>1. BucketCount(start, end, asked) > MaxBuckets
            BY <1>2, BucketsAssumption DEF BucketCount
        <3>2. end - start > asked * (MaxBuckets - 1)
            BY <3>1, TooManyTakeTime, BucketsAssumption
        <3>3. asked * (MaxBuckets - 1) >= MaxBuckets - 1 /\ asked * (MaxBuckets - 1) \in Int
            BY BucketsAssumption, Z3
        <3>4. end - start > MaxBuckets - 1
            BY <3>2, <3>3, BucketsAssumption
        <3>5. BucketCount(start, end, DayWidth(start, end)) <= MaxBuckets
            BY <3>4, DayWidthIsWide, WideKeepsToLimit
        <3> QED
            BY <1>2, <2>2, <3>5 DEF Width
    <2> QED
        BY <2>1, <2>2
<1> QED
    BY <1>1, <1>2

\* However far the width asked for is widened, it isn't narrowed.
LEMMA WidthAsked ==
    ASSUME NEW start \in Nat, NEW end \in Nat, NEW asked \in Nat \ {0}
    PROVE  Width(start, end, asked) \in Nat \ {0} /\ Width(start, end, asked) >= asked
<1>1. CASE BucketCount(start, end, asked) <= MaxBuckets BY <1>1 DEF Width
<1>2. CASE ~(BucketCount(start, end, asked) <= MaxBuckets)
    <2> DEFINE wide == Usable(start, end, asked)
    <2>1. CASE wide # {}
        <3>1. wide \in SUBSET Nat BY BucketsAssumption DEF Usable
        <3>2. Narrowest(wide) \in wide BY <2>1, <3>1, NarrowestIsOne
        <3>3. Width(start, end, asked) = Narrowest(wide) BY <1>2, <2>1 DEF Width
        <3> DEFINE v == Narrowest(wide)
        <3>4. v \in Nat /\ v >= asked BY <3>1, <3>2 DEF Usable
        <3> HIDE DEF v
        <3>5. v \in Nat \ {0} /\ v >= asked BY <3>4
        <3> QED BY <3>3, <3>5 DEF v
    <2>2. CASE wide = {}
        <3>1. MaxBuckets \in Nat \ {0} /\ BucketCount(start, end, asked) > MaxBuckets
            BY <1>2, BucketsAssumption DEF BucketCount
        <3>2. end - start > asked * (MaxBuckets - 1) BY <3>1, TooManyTakeTime
        <3> DEFINE w == DayWidth(start, end)
                   n == MaxBuckets - 1
        <3>3. n \in Nat \ {0} BY BucketsAssumption
        <3>4. end - start > n
            <4>1. asked * n >= n /\ asked * n \in Nat BY <3>3, Z3
            <4> QED BY <3>2, <3>3, <4>1
        <3>5. w \in Nat \ {0} /\ end - start <= w * n BY <3>4, DayWidthIsWide
        <3> HIDE DEF w
        <3>6. asked * n < w * n BY <3>2, <3>3, <3>5
        <3> HIDE DEF n
        <3>7. asked < w BY <3>3, <3>5, <3>6, Z3
        <3>8. Width(start, end, asked) = w BY <1>2, <2>2 DEF Width, w
        <3> QED BY <3>5, <3>7, <3>8
    <2> QED BY <2>1, <2>2
<1> QED BY <1>1, <1>2

-----------------------------------------------------------------------------
(* The rows of the buckets.                                                *)

\* A log with a timestamp starts no later than it ends, if its clock doesn't step back.
LEMMA LogSpan ==
    ASSUME NEW log \in Seq(LogLines), InOrder(log), FirstLine(log) # NoTime
    PROVE  FirstLine(log) \in Nat /\ LastLine(log) \in Nat /\ FirstLine(log) <= LastLine(log)
<1> DEFINE S == Stamped(log)
<1>1. S # {} BY DEF FirstLine
<1>2. S \in SUBSET (0 .. Len(log)) /\ S \in SUBSET Nat /\ Len(log) \in Nat BY DEF Stamped
<1>3. Min(S) \in S /\ \A m \in S : Min(S) <= m BY <1>1, <1>2, MinIsLeast
<1>4. Max(S) \in S BY <1>1, <1>2, MaxIsGreatest
<1>5. \A i \in S : log[i].time \in Nat
    <2> SUFFICES ASSUME NEW i \in S PROVE log[i].time \in Nat OBVIOUS
    <2>1. i \in 1 .. Len(log) /\ log[i].time # NoTime BY DEF Stamped
    <2>2. log[i] \in LogLines BY <2>1
    <2> QED BY <2>1, <2>2 DEF LogLines
<1>6. FirstLine(log) = log[Min(S)].time /\ LastLine(log) = log[Max(S)].time BY <1>1 DEF FirstLine, LastLine
<1>7. CASE Min(S) = Max(S) BY <1>3, <1>5, <1>6, <1>7
<1>8. CASE Min(S) < Max(S) BY <1>3, <1>4, <1>5, <1>6, <1>8 DEF InOrder
<1>9. Min(S) <= Max(S) /\ Min(S) \in Nat /\ Max(S) \in Nat BY <1>2, <1>3, <1>4
<1> QED BY <1>7, <1>8, <1>9


\* A bucket is reached by as many seconds as its number and the width make.
LEMMA BucketsOfSeconds ==
    ASSUME NEW a \in Nat, NEW w \in Nat \ {0}, NEW b \in Nat
    PROVE  /\ a \div w \in Nat
           /\ b * w \in Nat
           /\ b <= a \div w <=> b * w <= a
<1> DEFINE q == a \div w
<1>1. q \in Nat /\ w * q <= a /\ a < w * (q + 1) BY Z3
<1> HIDE DEF q
<1>2. b * w \in Nat OBVIOUS
<1>3. ASSUME b <= q PROVE b * w <= a
    <2>1. b * w <= w * q BY <1>1, <1>3, Z3
    <2>2. w * q \in Nat BY <1>1
    <2> QED BY <1>1, <1>2, <2>1, <2>2
<1>4. ASSUME q < b PROVE a < b * w
    <2>1. w * (q + 1) <= b * w BY <1>1, <1>4, Z3
    <2>2. w * (q + 1) \in Nat BY <1>1
    <2> QED BY <1>1, <1>2, <2>1, <2>2
<1>5. b <= q <=> b * w <= a BY <1>1, <1>2, <1>3, <1>4
<1> QED BY <1>1, <1>2, <1>5 DEF q

\* The buckets hold the log.
LEMMA BucketsHold ==
    ASSUME NEW first \in Nat, NEW last \in Nat, first <= last, NEW w \in Nat \ {0}
    PROVE  LET o == (first \div w) * w
               n == BucketCount(first, last, w) IN
           /\ o \in Nat /\ n \in Nat \ {0}
           /\ o <= first /\ last < o + n * w
<1> DEFINE p == first \div w
           q == last \div w
           n == BucketCount(first, last, w)
<1>1. p \in Nat /\ q \in Nat BY BucketsOfSeconds
<1>2. p * w \in Nat /\ p * w <= first BY <1>1, BucketsOfSeconds
<1>3. p <= q BY <1>1, <1>2, BucketsOfSeconds
<1>4. n = q - p + 1 /\ n \in Nat \ {0} BY <1>1, <1>3 DEF BucketCount
<1>5. (q + 1) * w \in Nat /\ ~((q + 1) * w <= last)
    <2>1. q + 1 \in Nat /\ ~(q + 1 <= q) BY <1>1
    <2> QED BY <2>1, BucketsOfSeconds
<1> HIDE DEF p, q, n
<1>6. p * w + n * w = (q + 1) * w
    <2>1. p + n = q + 1 BY <1>1, <1>4
    <2>2. (p + n) * w = p * w + n * w BY <1>1, <1>4, Z3
    <2> QED BY <2>1, <2>2
<1>7. last < p * w + n * w BY <1>5, <1>6
<1> QED BY <1>2, <1>4, <1>7 DEF p, n

\* No line is of before the first timestamp or after the last.
LEMMA TimesInSpan ==
    ASSUME NoTime \notin Int, NEW log \in Seq(LogLines), InOrder(log), FirstLine(log) # NoTime, NEW i \in DOMAIN log
    PROVE  \/ TimeOf(log, i) = NoTime
           \/ TimeOf(log, i) \in Nat /\ FirstLine(log) <= TimeOf(log, i) /\ TimeOf(log, i) <= LastLine(log)
<1> DEFINE S == Stamped(log)
           T == {j \in 1 .. i : log[j].time # NoTime}
<1>1. S # {} BY DEF FirstLine
<1>2. S \in SUBSET (0 .. Len(log)) /\ S \in SUBSET Nat /\ Len(log) \in Nat BY DEF Stamped
<1>3. Min(S) \in S /\ \A m \in S : Min(S) <= m BY <1>1, <1>2, MinIsLeast
<1>4. Max(S) \in S /\ \A m \in S : Max(S) >= m BY <1>1, <1>2, MaxIsGreatest
<1>5. \A j \in S : log[j].time \in Nat
    <2> SUFFICES ASSUME NEW j \in S PROVE log[j].time \in Nat OBVIOUS
    <2>1. j \in 1 .. Len(log) /\ log[j].time # NoTime BY DEF Stamped
    <2>2. log[j] \in LogLines BY <2>1
    <2> QED BY <2>1, <2>2 DEF LogLines
<1>6. FirstLine(log) = log[Min(S)].time /\ LastLine(log) = log[Max(S)].time BY <1>1 DEF FirstLine, LastLine
<1>7. \A j, k \in S : j <= k => log[j].time <= log[k].time
    <2> SUFFICES ASSUME NEW j \in S, NEW k \in S, j <= k PROVE log[j].time <= log[k].time OBVIOUS
    <2>1. CASE j = k BY <1>5, <2>1
    <2>2. CASE j < k BY <2>2 DEF InOrder
    <2> QED BY <1>2, <2>1, <2>2
<1>8. CASE T = {} BY <1>8 DEF TimeOf
<1>9. CASE T # {}
    <2>1. i \in Nat /\ i \in 1 .. Len(log) BY <1>2
    <2>2. T \in SUBSET (0 .. i) BY <2>1
    <2>3. Max(T) \in T BY <1>9, <2>1, <2>2, MaxIsGreatest
    <2>4. Max(T) \in S BY <1>2, <2>1, <2>3 DEF Stamped
    <2>5. TimeOf(log, i) = log[Max(T)].time BY <1>9 DEF TimeOf
    <2> HIDE DEF S, T
    <2> QED BY <1>3, <1>4, <1>5, <1>6, <1>7, <2>4, <2>5
<1> QED BY <1>8, <1>9

\* A line is in one of the buckets, and in those from b to before end exactly when it
\* is of their time, or has none and theirs is the first.
LEMMA BucketsOfLines ==
    ASSUME NoTime \notin Int, NEW log \in Seq(LogLines), InOrder(log), FirstLine(log) # NoTime, NEW w \in Nat \ {0}
    PROVE  LET o == Origin(log, w)
               n == BucketCount(FirstLine(log), LastLine(log), w) IN
           /\ o \in Nat /\ n \in Nat \ {0} /\ o <= FirstLine(log) /\ LastLine(log) < o + n * w
           /\ \A i \in DOMAIN log : BucketOf(log, i, w) \in 0 .. n - 1
           /\ \A b, end \in 0 .. n : b < end =>
                LinesOf(log, w, b, end) =
                    {i \in DOMAIN log : IF TimeOf(log, i) = NoTime THEN o + b * w = o
                                        ELSE o + b * w <= TimeOf(log, i) /\ TimeOf(log, i) < o + end * w}
<1> DEFINE o == Origin(log, w)
           n == BucketCount(FirstLine(log), LastLine(log), w)
           B(i) == BucketOf(log, i, w)
           t(i) == TimeOf(log, i)
<1>1. FirstLine(log) \in Nat /\ LastLine(log) \in Nat /\ FirstLine(log) <= LastLine(log) BY LogSpan
<1>2. o \in Nat /\ n \in Nat \ {0} /\ o <= FirstLine(log) /\ LastLine(log) < o + n * w BY <1>1, BucketsHold DEF Origin
<1>3. \A i \in DOMAIN log : \/ t(i) = NoTime
                            \/ t(i) \in Nat /\ FirstLine(log) <= t(i) /\ t(i) <= LastLine(log)
    BY TimesInSpan
<1>4. \A i \in DOMAIN log : B(i) = IF t(i) = NoTime THEN 0 ELSE (t(i) - o) \div w BY DEF BucketOf
<1> HIDE DEF o, n, B, t
<1>5. ASSUME NEW i \in DOMAIN log, t(i) # NoTime, NEW b \in Nat
      PROVE  B(i) \in Nat /\ b * w \in Nat /\ (b <= B(i) <=> o + b * w <= t(i))
    <2>1. t(i) \in Nat /\ FirstLine(log) <= t(i) BY <1>3, <1>5
    <2>2. t(i) - o \in Nat BY <1>1, <1>2, <2>1
    <2>3. B(i) = (t(i) - o) \div w BY <1>4, <1>5
    <2>4. B(i) \in Nat /\ b * w \in Nat /\ (b <= B(i) <=> b * w <= t(i) - o) BY <2>2, <2>3, BucketsOfSeconds
    <2> QED BY <1>2, <2>1, <2>4
<1>6. ASSUME NEW i \in DOMAIN log PROVE B(i) \in 0 .. n - 1
    <2>1. CASE t(i) = NoTime BY <1>2, <1>4, <2>1
    <2>2. CASE t(i) # NoTime
        <3>1. B(i) \in Nat /\ n * w \in Nat /\ (n <= B(i) <=> o + n * w <= t(i)) BY <1>2, <1>5, <2>2
        <3>2. t(i) \in Nat /\ t(i) <= LastLine(log) BY <1>3, <2>2
        <3>3. ~(o + n * w <= t(i)) BY <1>1, <1>2, <3>1, <3>2
        <3> QED BY <1>2, <3>1, <3>3
    <2> QED BY <2>1, <2>2
<1>7. ASSUME NEW b \in 0 .. n, NEW end \in 0 .. n, b < end, NEW i \in DOMAIN log
      PROVE  b <= B(i) /\ B(i) < end <=>
                IF t(i) = NoTime THEN o + b * w = o ELSE o + b * w <= t(i) /\ t(i) < o + end * w
    <2>0. b \in Nat /\ end \in Nat BY <1>2
    <2>1. CASE t(i) = NoTime
        <3>1. B(i) = 0 BY <1>4, <2>1
        <3>2. b * w \in Nat /\ (b * w = 0 <=> b = 0) BY <2>0, Z3
        <3> QED BY <1>2, <1>7, <2>0, <2>1, <3>1, <3>2
    <2>2. CASE t(i) # NoTime
        <3>1. B(i) \in Nat /\ b * w \in Nat /\ (b <= B(i) <=> o + b * w <= t(i)) BY <1>5, <2>0, <2>2
        <3>2. end * w \in Nat /\ (end <= B(i) <=> o + end * w <= t(i)) BY <1>5, <2>0, <2>2
        <3>3. t(i) \in Nat BY <1>3, <2>2
        <3> QED BY <1>2, <2>0, <2>2, <3>1, <3>2, <3>3
    <2> QED BY <2>1, <2>2
<1>8. \A b, end \in 0 .. n : b < end =>
        LinesOf(log, w, b, end) = {i \in DOMAIN log : IF t(i) = NoTime THEN o + b * w = o
                                                      ELSE o + b * w <= t(i) /\ t(i) < o + end * w}
    BY <1>7 DEF LinesOf, B
<1> QED BY <1>2, <1>6, <1>8 DEF o, n, B, t

\* Rows start at 0, at a bucket with matches or after one, and each ends where the next
\* one starts, or with the last bucket: every bucket is in one.
LEMMA RowsFollow ==
    ASSUME NEW n \in Nat \ {0}, NEW h
    PROVE  LET starts == RowStarts(h, n)
               end(b) == RowEnd(starts, n, b) IN
           /\ 0 \in starts /\ starts \subseteq 0 .. n - 1
           /\ \A b \in starts : /\ end(b) \in 1 .. n /\ b < end(b) /\ (end(b) # n => end(b) \in starts)
                                /\ \A s \in starts : b < s => end(b) <= s
           /\ \E b \in starts : end(b) = n
           /\ \A c \in 0 .. n - 1 : \E b \in starts : b <= c /\ c < end(b)
<1> DEFINE starts == RowStarts(h, n)
           end(b) == RowEnd(starts, n, b)
<1>1. 0 \in starts /\ starts \subseteq 0 .. n - 1 BY DEF RowStarts
<1> HIDE DEF starts
<1>2. ASSUME NEW b \in starts
      PROVE  /\ end(b) \in 1 .. n /\ b < end(b) /\ (end(b) # n => end(b) \in starts)
             /\ \A s \in starts : b < s => end(b) <= s
    <2> DEFINE T == {s \in starts : s > b} \cup {n}
               m == end(b)
    <2>0. \A s \in starts : s \in Nat /\ s <= n - 1 BY <1>1
    <2>1. T \in SUBSET Nat /\ n \in T BY <2>0
    <2>2. m \in T /\ \A s \in T : m <= s BY <2>1, MinIsLeast DEF RowEnd
    <2> HIDE DEF m
    <2>3. m = n \/ (m \in starts /\ m > b) BY <2>2
    <2>4. \A s \in starts : b < s => m <= s
        <3>1. \A s \in starts : b < s => s > b BY <2>0
        <3>2. \A s \in starts : s > b => s \in T OBVIOUS
        <3> QED BY <2>2, <3>1, <3>2
    <2>5. m \in 1 .. n /\ b < m BY <2>0, <2>3
    <2> QED BY <2>3, <2>4, <2>5 DEF m
<1>3. ASSUME NEW c \in 0 .. n - 1 PROVE \E b \in starts : b <= c /\ c < end(b)
    <2> DEFINE T == {s \in starts : s <= c}
    <2>0. \A s \in starts : s \in Nat BY <1>1
    <2>1. T \in SUBSET (0 .. c) /\ 0 \in T /\ c \in Nat
        <3>1. c \in Nat /\ 0 <= c OBVIOUS
        <3>2. T \in SUBSET (0 .. c) BY <2>0, <3>1
        <3> QED BY <1>1, <3>1, <3>2
    <2>2. Max(T) \in T /\ \A m \in T : Max(T) >= m BY <2>1, MaxIsGreatest
    <2> DEFINE b == Max(T)
    <2>3. b \in starts /\ b <= c BY <2>2
    <2>4. ASSUME end(b) <= c PROVE FALSE
        <3>1. end(b) # n /\ end(b) \in starts /\ b < end(b) BY <1>2, <2>3, <2>4
        <3>2. end(b) \in T BY <2>4, <3>1
        <3>3. b >= end(b) BY <2>2, <3>2
        <3>4. b \in Nat /\ end(b) \in Nat BY <2>0, <2>3, <3>1
        <3> HIDE DEF b, end
        <3> QED BY <3>1, <3>3, <3>4
    <2>5. end(b) \in Nat BY <1>2, <2>3
    <2> HIDE DEF b, end
    <2> QED BY <2>3, <2>4, <2>5
<1>4. \E b \in starts : end(b) = n
    <2>1. n - 1 \in 0 .. n - 1 OBVIOUS
    <2>2. PICK b \in starts : b <= n - 1 /\ n - 1 < end(b) BY <1>3, <2>1
    <2>3. end(b) \in 1 .. n BY <1>2
    <2> HIDE DEF end
    <2> QED BY <2>2, <2>3
<1> QED BY <1>1, <1>2, <1>3, <1>4 DEF starts

\* What SummaryComplete says of the rows.
LEMMA RowsComplete ==
    ASSUME NoTime \notin Int, NEW log \in Seq(LogLines), InOrder(log), FirstLine(log) # NoTime, NEW w \in Nat \ {0}
    PROVE  LET rows == Rows(log, w)
               lo == Min({r.from : r \in rows})
               hi == Max({r.to : r \in rows})
               inRow(r) == {i \in DOMAIN log : IF TimeOf(log, i) = NoTime THEN r.from = lo
                                               ELSE r.from <= TimeOf(log, i) /\ TimeOf(log, i) < r.to}
           IN  /\ lo <= FirstLine(log) /\ LastLine(log) < hi
               /\ \A r \in rows : /\ r.to = hi \/ \E s \in rows : s.from = r.to
                                  /\ r.lines = Cardinality(inRow(r))
                                  /\ r.hits = Cardinality(inRow(r) \cap Hits(log))
                                  /\ r.hits = 0 => \A s \in rows : s.from = r.to => s.hits > 0
               /\ \A i \in DOMAIN log : \E r \in rows : {s \in rows : i \in inRow(s)} = {r}
<1> DEFINE rows == Rows(log, w)
           lo == Min({r.from : r \in rows})
           hi == Max({r.to : r \in rows})
           inRow(r) == {i \in DOMAIN log : IF TimeOf(log, i) = NoTime THEN r.from = lo
                                           ELSE r.from <= TimeOf(log, i) /\ TimeOf(log, i) < r.to}
           o == Origin(log, w)
           n == BucketCount(FirstLine(log), LastLine(log), w)
           h == [b \in 0 .. n - 1 |-> Cardinality(LinesOf(log, w, b, b + 1) \cap Hits(log))]
           starts == RowStarts(h, n)
           end(b) == RowEnd(starts, n, b)
           its(b) == LinesOf(log, w, b, end(b))
           at(b) == o + b * w
           row(b) == [from |-> at(b), to |-> at(end(b)),
                      hits |-> Cardinality(its(b) \cap Hits(log)), lines |-> Cardinality(its(b))]
<1>1. rows = {row(b) : b \in starts} BY DEF Rows
<1>2. /\ o \in Nat /\ n \in Nat \ {0} /\ o <= FirstLine(log) /\ LastLine(log) < at(n)
      /\ \A i \in DOMAIN log : BucketOf(log, i, w) \in 0 .. n - 1
      /\ \A b, e \in 0 .. n : b < e =>
            LinesOf(log, w, b, e) =
                {i \in DOMAIN log : IF TimeOf(log, i) = NoTime THEN at(b) = o
                                    ELSE at(b) <= TimeOf(log, i) /\ TimeOf(log, i) < at(e)}
    BY BucketsOfLines
<1>3. /\ 0 \in starts /\ starts \subseteq 0 .. n - 1
      /\ \A b \in starts : /\ end(b) \in 1 .. n /\ b < end(b) /\ (end(b) # n => end(b) \in starts)
                           /\ \A s \in starts : b < s => end(b) <= s
      /\ \E b \in starts : end(b) = n
      /\ \A c \in 0 .. n - 1 : \E b \in starts : b <= c /\ c < end(b)
    <2> HIDE DEF h
    <2> QED BY <1>2, RowsFollow
<1>4. \A b \in starts : b # 0 => h[b] > 0 \/ h[b - 1] > 0
    <2> HIDE DEF h
    <2> QED BY DEF RowStarts
<1>5. /\ \A b \in 0 .. n - 1 : h[b] = Cardinality(LinesOf(log, w, b, b + 1) \cap Hits(log)) OBVIOUS
<1> HIDE DEF h, starts, n, o, end, its
<1>6. \A b \in Nat : b * w \in Nat /\ at(b) \in Nat /\ o <= at(b) BY <1>2
<1>7. \A b, c \in Nat : (b < c <=> at(b) < at(c)) /\ (b = c <=> at(b) = at(c))
    <2> SUFFICES ASSUME NEW b \in Nat, NEW c \in Nat PROVE (b < c <=> b * w < c * w) /\ (b = c <=> b * w = c * w)
        BY <1>2, <1>6
    <2>1. ASSUME NEW d \in Nat, NEW e \in Nat, d < e PROVE d * w < e * w BY <2>1, Z3
    <2> QED BY <1>6, <2>1
<1>0. at(0) = o BY <1>2
<1> HIDE DEF at
<1>8. /\ \A b \in starts : b \in Nat /\ end(b) \in Nat /\ b \in 0 .. n /\ end(b) \in 0 .. n /\ b < end(b)
    <2> SUFFICES ASSUME NEW b \in starts PROVE b \in Nat /\ end(b) \in Nat /\ b \in 0 .. n /\ end(b) \in 0 .. n /\ b < end(b)
        OBVIOUS
    <2>1. b \in 0 .. n - 1 /\ end(b) \in 1 .. n /\ b < end(b) BY <1>3
    <2> QED BY <1>2, <2>1
<1>9. lo = o
    <2> DEFINE F == {r.from : r \in rows}
               m == Min(F)
    <2>1. \A f : f \in F <=> \E b \in starts : f = at(b)
        <3>1. \A b \in starts : row(b).from = at(b) OBVIOUS
        <3> HIDE DEF row, rows
        <3> QED BY <1>1, <3>1
    <2> HIDE DEF F
    <2>2. F \in SUBSET Nat /\ o \in F /\ \A f \in F : o <= f BY <1>0, <1>3, <1>6, <1>8, <2>1
    <2>3. m \in F /\ m <= o BY <2>2, MinIsLeast
    <2> HIDE DEF m
    <2>4. m = o BY <1>2, <2>2, <2>3
    <2> QED BY <2>4 DEF F, m
<1>10. hi = at(n)
    <2> DEFINE F == {r.to : r \in rows}
               k == at(n)
               m == Max(F)
    <2>1. \A f : f \in F <=> \E b \in starts : f = at(end(b))
        <3>1. \A b \in starts : row(b).to = at(end(b)) OBVIOUS
        <3> HIDE DEF row, rows
        <3> QED BY <1>1, <3>1
    <2> HIDE DEF F
    <2>2. k \in Nat BY <1>2, <1>6
    <2>3. k \in F BY <1>3, <2>1
    <2>4. \A f \in F : f \in Nat /\ f <= k
        <3> SUFFICES ASSUME NEW b \in starts PROVE at(end(b)) \in Nat /\ at(end(b)) <= k BY <2>1
        <3>1. end(b) \in Nat /\ (end(b) < n \/ end(b) = n) /\ n \in Nat BY <1>2, <1>8
        <3>2. at(end(b)) < at(n) \/ at(end(b)) = at(n) BY <1>7, <3>1
        <3>3. at(end(b)) \in Nat BY <1>6, <3>1
        <3> HIDE DEF end
        <3> QED BY <2>2, <3>2, <3>3
    <2> HIDE DEF k
    <2>5. F \in SUBSET (0 .. k) BY <2>2, <2>4
    <2>6. m \in F /\ m >= k BY <2>2, <2>3, <2>5, MaxIsGreatest
    <2> HIDE DEF m
    <2>7. m = k BY <2>2, <2>4, <2>6
    <2> QED BY <2>7 DEF F, m, k
<1>11. ASSUME NEW b \in starts PROVE inRow(row(b)) = its(b)
    <2>1. row(b).from = at(b) /\ row(b).to = at(end(b)) OBVIOUS
    <2>2. its(b) = {i \in DOMAIN log : IF TimeOf(log, i) = NoTime THEN at(b) = o
                                       ELSE at(b) <= TimeOf(log, i) /\ TimeOf(log, i) < at(end(b))}
        BY <1>2, <1>8 DEF its
    <2> HIDE DEF row, lo
    <2> QED BY <1>9, <2>1, <2>2
<1> HIDE DEF lo, hi, inRow
<1>12. \A b \in starts, i \in DOMAIN log : i \in its(b) <=> b <= BucketOf(log, i, w) /\ BucketOf(log, i, w) < end(b)
    BY DEF its, LinesOf
<1>13. \A b, c \in starts, i \in DOMAIN log : i \in its(b) /\ i \in its(c) => b = c
    <2> SUFFICES ASSUME NEW b \in starts, NEW c \in starts, NEW i \in DOMAIN log, i \in its(b), i \in its(c), b < c
                 PROVE  FALSE
        <3>1. \A b, c \in starts : b < c \/ c < b \/ b = c BY <1>8
        <3> QED BY <3>1
    <2>1. end(b) <= c BY <1>3
    <2>2. c <= BucketOf(log, i, w) /\ BucketOf(log, i, w) < end(b) BY <1>12
    <2>3. BucketOf(log, i, w) \in Int /\ c \in Int /\ end(b) \in Int BY <1>2, <1>8
    <2> QED BY <2>1, <2>2, <2>3
<1>14. ASSUME NEW i \in DOMAIN log PROVE \E r \in rows : {s \in rows : i \in inRow(s)} = {r}
    <2>1. PICK b \in starts : i \in its(b) BY <1>2, <1>3, <1>12
    <2>2. \A c \in starts : i \in inRow(row(c)) <=> c = b BY <1>11, <1>13, <2>1
    <2> HIDE DEF row, rows
    <2> QED BY <1>1, <2>1, <2>2
<1>15. ASSUME NEW b \in starts, NEW c \in starts, row(c).from = row(b).to PROVE c = end(b)
    <2>1. at(c) = at(end(b)) BY <1>15
    <2> QED BY <1>7, <1>8, <2>1
<1>16. IsFiniteSet(DOMAIN log)
    <2>1. DOMAIN log = 1 .. Len(log) /\ Len(log) \in Nat BY LenProperties
    <2> QED BY <2>1, FS_Interval
<1>17. \A b, e : IsFiniteSet(LinesOf(log, w, b, e) \cap Hits(log))
    <2>1. \A b, e : LinesOf(log, w, b, e) \cap Hits(log) \in SUBSET (DOMAIN log) BY DEF LinesOf
    <2> QED BY <1>16, <2>1, FS_Subset
<1>18. ASSUME NEW b \in starts, NEW c \in starts, c = end(b), row(b).hits = 0 PROVE row(c).hits > 0
    <2>1. its(b) \cap Hits(log) = {}
        <3>1. IsFiniteSet(its(b) \cap Hits(log)) BY <1>17 DEF its
        <3> QED BY <1>18, <3>1, FS_EmptySet
    <2>2. c - 1 \in 0 .. n - 1 /\ b <= c - 1 /\ c - 1 < end(b) /\ c # 0 /\ c \in 0 .. n - 1
        <3>1. b \in Nat /\ b < c /\ c = end(b) BY <1>8, <1>18
        <3>2. c \in 0 .. n - 1 /\ n \in Nat BY <1>2, <1>3
        <3> HIDE DEF row
        <3> QED BY <3>1, <3>2
    <2>3. LinesOf(log, w, c - 1, (c - 1) + 1) \subseteq its(b)
        <3> SUFFICES ASSUME NEW i \in DOMAIN log, c - 1 <= BucketOf(log, i, w), BucketOf(log, i, w) < (c - 1) + 1
                     PROVE  i \in its(b)
            BY DEF LinesOf
        <3>1. BucketOf(log, i, w) \in Int /\ c \in Int /\ b \in Int BY <1>2, <1>8
        <3> QED BY <1>12, <1>18, <2>2, <3>1
    <2>4. h[c - 1] = 0
        <3>1. LinesOf(log, w, c - 1, (c - 1) + 1) \cap Hits(log) = {} BY <2>1, <2>3
        <3> QED BY <1>5, <2>2, <3>1, FS_EmptySet
    <2>5. h[c] > 0 BY <1>4, <2>2, <2>4
    <2>6. LinesOf(log, w, c, c + 1) \cap Hits(log) # {} BY <1>5, <2>2, <2>5, FS_EmptySet
    <2>7. LinesOf(log, w, c, c + 1) \subseteq its(c)
        <3> SUFFICES ASSUME NEW i \in DOMAIN log, c <= BucketOf(log, i, w), BucketOf(log, i, w) < c + 1
                     PROVE  i \in its(c)
            BY DEF LinesOf
        <3>1. BucketOf(log, i, w) \in Int /\ c \in Int /\ c < end(c) /\ end(c) \in Int BY <1>2, <1>8
        <3> QED BY <1>12, <3>1
    <2>8. its(c) \cap Hits(log) # {} BY <2>6, <2>7
    <2>9. IsFiniteSet(its(c) \cap Hits(log)) BY <1>17 DEF its
    <2>10. Cardinality(its(c) \cap Hits(log)) \in Nat /\ Cardinality(its(c) \cap Hits(log)) # 0
        BY <2>8, <2>9, FS_EmptySet, FS_CardinalityType
    <2> QED BY <2>10
<1>19. ASSUME NEW b \in starts
       PROVE  /\ row(b).to = hi \/ \E s \in rows : s.from = row(b).to
              /\ row(b).lines = Cardinality(inRow(row(b)))
              /\ row(b).hits = Cardinality(inRow(row(b)) \cap Hits(log))
              /\ row(b).hits = 0 => \A s \in rows : s.from = row(b).to => s.hits > 0
    <2>1. row(b).to = hi \/ \E s \in rows : s.from = row(b).to
        <3>1. CASE end(b) = n BY <1>10, <3>1
        <3>2. CASE end(b) # n
            <4>1. end(b) \in starts BY <1>3, <3>2
            <4>2. row(end(b)) \in rows /\ row(end(b)).from = row(b).to BY <1>1, <4>1
            <4> HIDE DEF rows, row
            <4> QED BY <4>2
        <3> QED BY <3>1, <3>2
    <2>2. ASSUME row(b).hits = 0, NEW s \in rows, s.from = row(b).to PROVE s.hits > 0
        <3>1. PICK c \in starts : s = row(c) BY <1>1
        <3> HIDE DEF row, rows
        <3> QED BY <1>15, <1>18, <2>2, <3>1
    <2>3. inRow(row(b)) = its(b) BY <1>11
    <2>4. row(b).lines = Cardinality(its(b)) /\ row(b).hits = Cardinality(its(b) \cap Hits(log)) OBVIOUS
    <2> HIDE DEF rows, row
    <2> QED BY <2>1, <2>2, <2>3, <2>4
<1>20. lo <= FirstLine(log) /\ LastLine(log) < hi BY <1>2, <1>9, <1>10
<1>21. \A r \in rows : /\ r.to = hi \/ \E s \in rows : s.from = r.to
                       /\ r.lines = Cardinality(inRow(r))
                       /\ r.hits = Cardinality(inRow(r) \cap Hits(log))
                       /\ r.hits = 0 => \A s \in rows : s.from = r.to => s.hits > 0
    <2> HIDE DEF row
    <2>1. \A r \in rows : \E b \in starts : r = row(b) BY <1>1
    <2> HIDE DEF rows
    <2> QED BY <1>19, <2>1
<1> HIDE DEF rows
<1> QED BY <1>14, <1>20, <1>21 DEF rows, lo, hi, inRow

-----------------------------------------------------------------------------
(* Samples.                                                                *)

\* What round() gives is within a half of what it was given.
LEMMA RoundedNear ==
    ASSUME NEW a \in Nat, NEW b \in Nat \ {0}
    PROVE  LET x == Rounded(a, b) IN
           /\ x \in Nat /\ b * x \in Nat
           /\ 2 * (b * x) <= 2 * a + b
           /\ 2 * a <= 2 * (b * x) + b
<1> DEFINE q == a \div b
           m == a % b
           p == b * q
           x == Rounded(a, b)
<1>1. q \in Nat /\ m \in Nat /\ m < b /\ a = b * q + m BY Z3
<1>2. x = IF 2 * m < b \/ (2 * m = b /\ q % 2 = 0) THEN q ELSE q + 1 BY DEF Rounded
<1> HIDE DEF q, m, x
<1>3. p \in Nat /\ b * (q + 1) = p + b BY <1>1
<1>4. (x = q /\ b * x = p /\ 2 * m <= b) \/ (x = q + 1 /\ b * x = p + b /\ 2 * m >= b)
    <2>1. (x = q /\ 2 * m <= b) \/ (x = q + 1 /\ 2 * m >= b) BY <1>1, <1>2
    <2> QED BY <1>3, <2>1
<1>5. a = p + m BY <1>1
<1> HIDE DEF p
<1>6. x \in Nat /\ b * x \in Nat BY <1>1, <1>3, <1>4
<1>7. 2 * (b * x) <= 2 * a + b /\ 2 * a <= 2 * (b * x) + b
    <2> DEFINE y == b * x
    <2>1. (y = p /\ 2 * m <= b) \/ (y = p + b /\ 2 * m >= b) BY <1>4
    <2> HIDE DEF y
    <2>2. 2 * y <= 2 * a + b /\ 2 * a <= 2 * y + b
        <3>1. p \in Nat /\ m \in Nat /\ m < b BY <1>1, <1>3
        <3> QED BY <1>5, <2>1, <3>1
    <2> QED BY <2>2 DEF y
<1> QED BY <1>6, <1>7 DEF x

\* Steps of more than one never round to the same index twice: the samples are as many
\* as asked for, or all there are, with the first and the last among them.
LEMMA SpreadEven ==
    ASSUME NEW n \in Nat, NEW k \in Nat
    PROVE  LET S == Spread(n, k) IN
           /\ S \subseteq 0 .. n - 1
           /\ Cardinality(S) = IF n < k THEN n ELSE k
           /\ k > 0 /\ n > 0 => 0 \in S
           /\ k > 1 /\ n > 0 => n - 1 \in S
<1> DEFINE S == Spread(n, k)
<1>1. CASE k <= 0 \/ n = 0
    <2>1. S = {} /\ (IF n < k THEN n ELSE k) = 0 BY <1>1 DEF Spread
    <2> QED BY <1>1, <2>1, FS_EmptySet
<1>2. CASE k > 0 /\ n > 0 /\ n <= k
    <2>1. S = 0 .. n - 1 /\ (IF n < k THEN n ELSE k) = n BY <1>2 DEF Spread
    <2>2. 0 \in Int /\ n - 1 \in Int /\ ~(0 > n - 1) BY <1>2
    <2>3. Cardinality(0 .. n - 1) = n BY <2>2, FS_Interval
    <2> QED BY <1>2, <2>1, <2>3
<1>3. CASE k = 1 /\ n > k
    <2>1. S = {0} /\ (IF n < k THEN n ELSE k) = 1 BY <1>3 DEF Spread
    <2>2. Cardinality(S) = 1 BY <2>1, FS_Singleton
    <2>3. 0 \in 0 .. n - 1 BY <1>3
    <2> QED BY <1>3, <2>1, <2>2, <2>3
<1>4. CASE k > 1 /\ n > k
    <2> DEFINE d == k - 1
               m == n - 1
               f(i) == Rounded(i * m, d)
               F == [i \in 0 .. d |-> f(i)]
    <2>1. d \in Nat \ {0} /\ m \in Nat /\ d < m BY <1>4
    <2>2. S = {f(i) : i \in 0 .. d}
        <3>1. ~(k <= 0 \/ n = 0) /\ ~(n <= k) /\ k # 1 BY <1>4
        <3> HIDE DEF f
        <3>2. {Rounded(i * (n - 1), k - 1) : i \in 0 .. k - 1} = {f(i) : i \in 0 .. d} BY DEF f
        <3> QED BY <3>1, <3>2 DEF Spread
    <2>3. (IF n < k THEN n ELSE k) = d + 1 BY <1>4
    <2> HIDE DEF d, m
    <2>4. \A i \in Nat : i * m \in Nat BY <2>1
    <2>5. \A i \in Nat : /\ f(i) \in Nat /\ d * f(i) \in Nat
                         /\ 2 * (d * f(i)) <= 2 * (i * m) + d
                         /\ 2 * (i * m) <= 2 * (d * f(i)) + d
        BY <2>1, <2>4, RoundedNear
    <2> HIDE DEF f
    <2>6. ASSUME NEW i \in Nat, NEW j \in Nat, i < j PROVE f(i) < f(j)
        <3> DEFINE x == f(i)
                   y == f(j)
                   v == i * m
                   u == j * m
                   dx == d * x
                   dy == d * y
        <3>1. x \in Nat /\ y \in Nat /\ dx \in Nat /\ dy \in Nat /\ v \in Nat /\ u \in Nat BY <2>4, <2>5
        <3>2. 2 * dx <= 2 * v + d /\ 2 * u <= 2 * dy + d BY <2>5
        <3>3. u >= v + m
            <4>1. j * m >= (i + 1) * m BY <2>1, <2>6, Z3
            <4>2. (i + 1) * m = i * m + m BY <2>1
            <4> QED BY <4>1, <4>2
        <3>4. y <= x => dy <= dx
            <4> HIDE DEF x, y
            <4> QED BY <2>1, <3>1, Z3
        <3> HIDE DEF x, y, v, u, dx, dy
        <3>5. x < y BY <2>1, <3>1, <3>2, <3>3, <3>4
        <3> QED BY <3>5 DEF x, y
    <2>7. f(0) = 0
        <3> DEFINE x == f(0)
        <3>1. 0 * m = 0 BY <2>1
        <3>2. x \in Nat /\ d * x \in Nat /\ 2 * (d * x) <= d BY <2>1, <2>5, <3>1
        <3> HIDE DEF x
        <3>3. x # 0 => d * x >= d BY <2>1, <3>2, Z3
        <3>4. x = 0 BY <2>1, <3>2, <3>3
        <3> QED BY <3>4 DEF x
    <2>8. f(d) = m
        <3> DEFINE x == f(d)
                   dm == d * m
                   dx == d * x
        <3>1. x \in Nat /\ dx \in Nat /\ dm \in Nat /\ 2 * dx <= 2 * dm + d /\ 2 * dm <= 2 * dx + d BY <2>1, <2>4, <2>5
        <3> HIDE DEF x
        <3>2. x > m => dx >= dm + d BY <2>1, <3>1, Z3
        <3>3. x < m => dm >= dx + d BY <2>1, <3>1, Z3
        <3> HIDE DEF dx, dm
        <3>4. x = m BY <2>1, <3>1, <3>2, <3>3
        <3> QED BY <3>4 DEF x
    <2>9. \A i \in 0 .. d : f(i) \in 0 .. m
        <3> SUFFICES ASSUME NEW i \in 0 .. d PROVE f(i) \in Nat /\ f(i) <= m BY <2>1
        <3>1. i \in Nat /\ (i = d \/ i < d) BY <2>1
        <3>2. f(i) \in Nat BY <2>5, <3>1
        <3>3. f(i) = m \/ f(i) < m BY <2>1, <2>6, <2>8, <3>1
        <3> QED BY <2>1, <3>2, <3>3
    <2>10. F \in Bijection(0 .. d, S)
        <3>1. F \in [0 .. d -> S] BY <2>2
        <3>2. \A i, j \in 0 .. d : F[i] = F[j] => i = j
            <4> SUFFICES ASSUME NEW i \in 0 .. d, NEW j \in 0 .. d, f(i) = f(j) PROVE i = j OBVIOUS
            <4>1. i \in Nat /\ j \in Nat /\ f(i) \in Nat BY <2>5
            <4>2. ~(f(i) < f(i)) BY <4>1
            <4>3. ~(i < j) /\ ~(j < i) BY <2>6, <4>1, <4>2
            <4> QED BY <4>1, <4>3
        <3>3. \A y \in S : \E i \in 0 .. d : F[i] = y BY <2>2
        <3> HIDE DEF F, S
        <3> QED BY <3>1, <3>2, <3>3 DEF Bijection, Injection, Surjection, IsInjective
    <2>11. Cardinality(S) = d + 1
        <3>1. IsFiniteSet(0 .. d) /\ Cardinality(0 .. d) = d + 1
            <4>1. d \in Int /\ ~(0 > d) BY <2>1
            <4> QED BY <4>1, FS_Interval
        <3>2. ExistsBijection(0 .. d, S) BY <2>10 DEF ExistsBijection
        <3> QED BY <3>1, <3>2, FS_Bijection
    <2>12. 0 \in 0 .. d /\ d \in 0 .. d BY <2>1
    <2>13. S \subseteq 0 .. m /\ 0 \in S /\ m \in S BY <2>2, <2>7, <2>8, <2>9, <2>12
    <2> QED BY <1>4, <2>3, <2>11, <2>13 DEF m
<1> QED BY <1>1, <1>2, <1>3, <1>4

-----------------------------------------------------------------------------
(* The logs of a report.                                                   *)

Entries(P, C, m) == [pod : P, container : C, lines : 0 .. m]
LogStates(P, C, m) == [budget : Int, logs : Seq(Entries(P, C, m)), tried : SUBSET P, over : BOOLEAN]

\* The lines shown of some logs, at most m of each, by log and number.
Tails(logs, m) == {x \in (DOMAIN logs) \X (1 .. m) : x[2] <= logs[x[1]].lines}
Total(logs, m) == Cardinality(Tails(logs, m))

\* They can be counted.
LEMMA TailsFinite ==
    ASSUME NEW P, NEW C, NEW m \in Nat, NEW logs \in Seq(Entries(P, C, m))
    PROVE  IsFiniteSet(Tails(logs, m))
<1>0. Len(logs) \in Nat /\ DOMAIN logs = 1 .. Len(logs) BY LenProperties
<1>1. IsFiniteSet(DOMAIN logs) /\ IsFiniteSet(1 .. m) BY <1>0, FS_Interval
<1>2. IsFiniteSet((DOMAIN logs) \X (1 .. m)) BY <1>1, FS_Product
<1>3. Tails(logs, m) \in SUBSET ((DOMAIN logs) \X (1 .. m)) BY DEF Tails
<1> QED BY <1>2, <1>3, FS_Subset

\* One more log adds its own.
LEMMA TailsStep ==
    ASSUME NEW P, NEW C, NEW m \in Nat, NEW logs \in Seq(Entries(P, C, m)), NEW t \in Entries(P, C, m)
    PROVE  /\ IsFiniteSet(Tails(logs, m))
           /\ Total(logs, m) \in Nat
           /\ Total(Append(logs, t), m) = Total(logs, m) + t.lines
<1> DEFINE k == Len(logs) + 1
           more == Append(logs, t)
           its == {k} \X (1 .. t.lines)
<1>0. Len(logs) \in Nat /\ DOMAIN logs = 1 .. Len(logs) /\ t.lines \in 0 .. m /\ t.lines \in Nat
    BY LenProperties DEF Entries
<1>1. DOMAIN more = 1 .. k /\ more[k] = t /\ \A i \in DOMAIN logs : more[i] = logs[i]
    BY <1>0, AppendProperties
<1>2. IsFiniteSet(Tails(logs, m)) BY TailsFinite
<1>3. Tails(more, m) = Tails(logs, m) \cup its
    <2> HIDE DEF more
    <2>1. \A i, n : <<i, n>> \in Tails(more, m) <=> i \in 1 .. k /\ n \in 1 .. m /\ n <= more[i].lines BY <1>1 DEF Tails
    <2>2. \A i, n : <<i, n>> \in Tails(logs, m) <=> i \in DOMAIN logs /\ n \in 1 .. m /\ n <= logs[i].lines BY DEF Tails
    <2>3. \A i : i \in 1 .. k <=> i \in DOMAIN logs \/ i = k BY <1>0
    <2>4. k \notin DOMAIN logs BY <1>0
    <2>5. \A n : n \in 1 .. m /\ n <= t.lines <=> n \in 1 .. t.lines BY <1>0
    <2>6. \A i, n : <<i, n>> \in its <=> i = k /\ n \in 1 .. t.lines OBVIOUS
    <2> HIDE DEF its, k
    <2>7. \A i, n : <<i, n>> \in Tails(more, m) <=> <<i, n>> \in Tails(logs, m) \cup its
        BY <1>1, <2>1, <2>2, <2>3, <2>4, <2>5, <2>6
    <2>8. /\ \A x \in Tails(more, m) : x = <<x[1], x[2]>>
          /\ \A x \in Tails(logs, m) : x = <<x[1], x[2]>>
          /\ \A x \in its : x = <<x[1], x[2]>>
        BY DEF Tails, its
    <2> QED BY <2>7, <2>8
<1>4. Tails(logs, m) \cap its = {}
    <2>1. \A x \in Tails(logs, m) : x[1] \in DOMAIN logs BY DEF Tails
    <2>2. \A x \in its : x[1] = k OBVIOUS
    <2>3. k \notin DOMAIN logs BY <1>0
    <2> QED BY <2>1, <2>2, <2>3
<1>5. IsFiniteSet(its) /\ Cardinality(its) = t.lines
    <2>1. IsFiniteSet({k}) /\ Cardinality({k}) = 1 BY FS_Singleton
    <2>2. IsFiniteSet(1 .. t.lines) /\ Cardinality(1 .. t.lines) = t.lines
        <3>1. 1 \in Int /\ t.lines \in Int /\ (1 > t.lines => t.lines = 0) BY <1>0
        <3>2. IsFiniteSet(1 .. t.lines) /\ Cardinality(1 .. t.lines) = IF 1 > t.lines THEN 0 ELSE t.lines - 1 + 1
            BY <3>1, FS_Interval
        <3> QED BY <1>0, <3>1, <3>2
    <2>3. IsFiniteSet(its) /\ Cardinality(its) = 1 * t.lines
        <3> HIDE DEF k
        <3> QED BY <2>1, <2>2, FS_Product
    <2> QED BY <1>0, <2>3
<1>6. Cardinality(Tails(logs, m)) \in Nat BY <1>2, FS_CardinalityType
<1> HIDE DEF its, more
<1>7. Cardinality(Tails(logs, m) \cup its) = Cardinality(Tails(logs, m)) + Cardinality(its) - 0
    BY <1>2, <1>4, <1>5, FS_Union, FS_EmptySet
<1>8. Cardinality(Tails(more, m)) = Cardinality(Tails(logs, m)) + t.lines BY <1>0, <1>3, <1>5, <1>6, <1>7
<1> QED BY <1>2, <1>6, <1>8 DEF Total, more

\* A tail takes from the budget what it shows, and no more than is left if it isn't the
\* focus pod's; one that could be read, and still was to be, is shown.
LEMMA TailReadKept ==
    ASSUME Unread \notin Int, NEW P, NEW C, NEW m \in Nat, NEW s \in LogStates(P, C, m), NEW instance,
           instance.container \in C, instance.lines \in Nat \cup {Unread}, NEW name \in P,
           NEW want \in Int, want <= m, NEW isFocus \in BOOLEAN, NEW grep \in BOOLEAN
    PROVE  LET r == TailRead(s, instance, name, want, isFocus, grep) IN
           /\ r \in LogStates(P, C, m) /\ r.tried = s.tried
           /\ r.budget + Total(r.logs, m) = s.budget + Total(s.logs, m)
           /\ r.logs = s.logs \/ \E t \in Entries(P, C, m) : t.pod = name /\ r.logs = Append(s.logs, t)
           /\ ~isFocus => r.budget >= 0 \/ r.budget = s.budget
           /\ ~s.over /\ ~isFocus /\ (grep \/ (want > 0 /\ s.budget > 0)) =>
                IF instance.lines = Unread THEN r = s ELSE Len(r.logs) = Len(s.logs) + 1
<1> DEFINE room == IF isFocus THEN want ELSE Least(want, s.budget)
           shown == Least(IF room > 0 THEN room ELSE 0, instance.lines)
           t == [pod |-> name, container |-> instance.container, lines |-> shown]
           r == TailRead(s, instance, name, want, isFocus, grep)
           past == [s EXCEPT !.over = TRUE]
           more == [s EXCEPT !.budget = @ - shown, !.logs = Append(@, t)]
           ends == s.over \/ (room <= 0 /\ ~grep)
<1>0. /\ s.budget \in Int /\ s.logs \in Seq(Entries(P, C, m)) /\ s.tried \in SUBSET P /\ s.over \in BOOLEAN
    BY DEF LogStates
<1>1. r = IF ends THEN past ELSE IF instance.lines = Unread THEN s ELSE more BY DEF TailRead
<1>2. past \in LogStates(P, C, m) /\ past.budget = s.budget /\ past.logs = s.logs /\ past.tried = s.tried
    BY DEF LogStates
<1>3. /\ more.budget = s.budget - shown /\ more.logs = Append(s.logs, t) /\ more.tried = s.tried
      /\ shown \in Int /\ Append(s.logs, t) \in Seq(Entries(P, C, m)) => more \in LogStates(P, C, m)
    <2> HIDE DEF shown, t
    <2> DEFINE left == [s EXCEPT !.budget = @ - shown]
               x == Append(s.logs, t)
    <2>1. /\ left.budget = s.budget - shown /\ left.logs = s.logs /\ left.tried = s.tried
          /\ DOMAIN left = DOMAIN s /\ left.over = s.over
        BY DEF LogStates
    <2>3. more = [left EXCEPT !.logs = x] BY <2>1
    <2>4. /\ DOMAIN left = {"budget", "logs", "tried", "over"}
          /\ shown \in Int => left \in LogStates(P, C, m)
        BY DEF LogStates
    <2> HIDE DEF left, x, more
    <2>5. more.budget = left.budget /\ more.logs = x /\ more.tried = left.tried BY <2>3, <2>4
    <2>6. shown \in Int /\ x \in Seq(Entries(P, C, m)) => more \in LogStates(P, C, m) BY <2>3, <2>4 DEF LogStates
    <2> QED BY <2>1, <2>5, <2>6 DEF x
<1>4. room \in Int /\ room <= m /\ (~isFocus => room <= s.budget) BY <1>0 DEF Least
<1>5. ~isFocus /\ want > 0 /\ s.budget > 0 => room > 0 BY <1>0 DEF Least
<1> HIDE DEF r, past, more, room
<1>6. CASE ends
    <2>1. r = past BY <1>1, <1>6
    <2>4. ~(~s.over /\ ~isFocus /\ (grep \/ (want > 0 /\ s.budget > 0))) BY <1>4, <1>5, <1>6
    <2> QED BY <1>2, <2>1, <2>4 DEF r
<1>7. CASE ~ends /\ instance.lines = Unread
    <2>1. r = s BY <1>1, <1>7
    <2> QED BY <1>7, <2>1 DEF r
<1>8. CASE ~ends /\ instance.lines # Unread
    <2>1. r = more BY <1>1, <1>8
    <2>2. instance.lines \in Nat BY <1>8
    <2>3. shown \in 0 .. m /\ (~isFocus => s.budget - shown >= 0 \/ shown = 0) BY <1>0, <1>4, <2>2 DEF Least
    <2> HIDE DEF shown
    <2>4. t \in Entries(P, C, m) /\ t.pod = name /\ t.lines = shown BY <2>3 DEF Entries
    <2> HIDE DEF t
    <2>5. /\ Append(s.logs, t) \in Seq(Entries(P, C, m))
          /\ Len(Append(s.logs, t)) = Len(s.logs) + 1
        BY <1>0, <2>4, AppendProperties
    <2>6. Total(s.logs, m) \in Nat /\ Total(Append(s.logs, t), m) = Total(s.logs, m) + shown BY <1>0, <2>4, TailsStep
    <2>7. more \in LogStates(P, C, m) BY <1>3, <2>3, <2>5
    <2>8. more.budget = s.budget - shown /\ more.logs = Append(s.logs, t) /\ more.tried = s.tried BY <1>3
    <2>9. more.budget + Total(more.logs, m) = s.budget + Total(s.logs, m) BY <1>0, <2>3, <2>6, <2>8
    <2>10. ~isFocus => more.budget >= 0 \/ more.budget = s.budget BY <1>0, <2>3, <2>8
    <2> QED BY <1>8, <2>1, <2>4, <2>5, <2>7, <2>8, <2>9, <2>10 DEF r
<1> QED BY <1>6, <1>7, <1>8

\* State x comes after s: it shows more, of the pods named, for as much of the budget,
\* and no more than that unless they are the focus pod's.
Continues(s, x, names, isFocus, m) ==
    /\ x.budget + Total(x.logs, m) = s.budget + Total(s.logs, m)
    /\ Len(s.logs) <= Len(x.logs)
    /\ \A i \in 1 .. Len(s.logs) : x.logs[i] = s.logs[i]
    /\ \A i \in 1 .. Len(x.logs) : i > Len(s.logs) => x.logs[i].pod \in names
    /\ isFocus \/ x.budget >= 0 \/ x.budget = s.budget

\* What comes after what comes after a state does so itself.
LEMMA ContinuesOn ==
    ASSUME NEW P, NEW C, NEW m \in Nat, NEW names, NEW isFocus \in BOOLEAN,
           NEW s \in LogStates(P, C, m), NEW x \in LogStates(P, C, m), NEW y \in LogStates(P, C, m),
           Continues(s, x, names, isFocus, m), Continues(x, y, names, isFocus, m)
    PROVE  Continues(s, y, names, isFocus, m)
<1>1. \A z \in LogStates(P, C, m) : Len(z.logs) \in Nat /\ z.budget \in Int BY LenProperties DEF LogStates
<1>2. y.budget + Total(y.logs, m) = s.budget + Total(s.logs, m) /\ (isFocus \/ y.budget >= 0 \/ y.budget = s.budget)
    BY DEF Continues
<1>3. Len(s.logs) <= Len(x.logs) /\ Len(x.logs) <= Len(y.logs) BY DEF Continues
<1>4. \A i \in 1 .. Len(s.logs) : y.logs[i] = s.logs[i]
    <2> SUFFICES ASSUME NEW i \in 1 .. Len(s.logs) PROVE y.logs[i] = s.logs[i] OBVIOUS
    <2>1. i \in 1 .. Len(x.logs) BY <1>1, <1>3
    <2> QED BY <2>1 DEF Continues
<1>5. ASSUME NEW i \in 1 .. Len(y.logs), i > Len(s.logs) PROVE y.logs[i].pod \in names
    <2>1. CASE i > Len(x.logs) BY <1>1, <2>1 DEF Continues
    <2>2. CASE ~(i > Len(x.logs))
        <3>1. i \in 1 .. Len(x.logs) BY <1>1, <2>2
        <3>2. y.logs[i] = x.logs[i] /\ x.logs[i].pod \in names BY <1>5, <3>1 DEF Continues
        <3> QED BY <3>2
    <2> QED BY <2>1, <2>2
<1>6. Len(s.logs) <= Len(y.logs) BY <1>1, <1>3
<1> QED BY <1>2, <1>4, <1>5, <1>6 DEF Continues

\* The instances of a pod: the current one of each container is among them.
LEMMA InstancesLemma ==
    ASSUME NEW pod, NEW previousToo \in BOOLEAN, NEW C, pod.containers \in Seq(Range(pod.containers)),
           \A c \in Range(pod.containers) : c.name \in C /\ {c.current, c.previous} \subseteq Nat \cup {Unread}
    PROVE  LET wanted == Instances(pod, previousToo) IN
           /\ wanted \in Seq([container : C, lines : Nat \cup {Unread}])
           /\ \A i \in DOMAIN pod.containers : \E j \in DOMAIN wanted : wanted[j].lines = pod.containers[i].current
<1> DEFINE S == [container : C, lines : Nat \cup {Unread}]
           cs == pod.containers
           current(i) == [container |-> cs[i].name, lines |-> cs[i].current]
           old(i) == [container |-> cs[i].name, lines |-> cs[i].previous]
           of(i) == <<current(i)>> \o (IF previousToo /\ cs[i].restarts > 0 THEN <<old(i)>> ELSE <<>>)
           ss == [i \in DOMAIN cs |-> of(i)]
           wanted == Instances(pod, previousToo)
<1>0. Len(cs) \in Nat /\ DOMAIN cs = 1 .. Len(cs) /\ \A i \in DOMAIN cs : cs[i] \in Range(cs) BY LenProperties DEF Range
<1>1. wanted = FlattenSeq(ss) BY DEF Instances
<1>2. ASSUME NEW i \in DOMAIN cs PROVE of(i) \in Seq(S) /\ current(i) \in Range(of(i))
    <2>1. cs[i].name \in C /\ cs[i].current \in Nat \cup {Unread} /\ cs[i].previous \in Nat \cup {Unread} BY <1>0
    <2>2. current(i) \in S /\ old(i) \in S BY <2>1
    <2> HIDE DEF current, old, S
    <2>3. <<current(i)>> \in Seq(S) /\ <<old(i)>> \in Seq(S) /\ <<>> \in Seq(S) BY <2>2
    <2>4. current(i) \in Range(<<current(i)>>) BY DEF Range
    <2>5. \A t \in Seq(S) : <<current(i)>> \o t \in Seq(S) /\ current(i) \in Range(<<current(i)>> \o t)
        <3> DEFINE one == <<current(i)>>
        <3> HIDE DEF one
        <3> SUFFICES ASSUME NEW t \in Seq(S) PROVE one \o t \in Seq(S) /\ current(i) \in Range(one \o t) BY DEF one
        <3>1. one \in Seq(S) /\ current(i) \in Range(one) BY <2>3, <2>4 DEF one
        <3>2. one \o t \in Seq(S) BY <3>1, ConcatProperties
        <3>3. Range(one \o t) = Range(one) \cup Range(t) BY <3>1, RangeConcatenation
        <3> QED BY <3>1, <3>2, <3>3
    <2> QED BY <2>3, <2>5
<1> HIDE DEF of
<1>3. ss \in Seq(Seq(S)) /\ Len(ss) = Len(cs) /\ \A i \in DOMAIN cs : ss[i] = of(i)
    <2> DEFINE n == Len(cs)
    <2>1. \A i \in 1 .. n : of(i) \in Seq(S) BY <1>0, <1>2
    <2>2. ss = [i \in 1 .. n |-> of(i)] /\ n \in Nat BY <1>0
    <2> HIDE DEF S, n
    <2>3. ss \in Seq(Seq(S)) /\ Len(ss) = n BY <2>1, <2>2
    <2> QED BY <2>3 DEF n
<1> HIDE DEF ss, wanted
<1>4. wanted \in Seq(S) /\ Range(wanted) = UNION {Range(ss[i]) : i \in 1 .. Len(ss)} BY <1>1, <1>3, FlattenLemma
<1>5. ASSUME NEW i \in DOMAIN cs PROVE \E j \in DOMAIN wanted : wanted[j].lines = cs[i].current
    <2>1. current(i) \in Range(wanted) BY <1>0, <1>2, <1>3, <1>4
    <2>2. PICK j \in DOMAIN wanted : wanted[j] = current(i) BY <2>1 DEF Range
    <2> QED BY <2>2
<1> QED BY <1>4, <1>5 DEF wanted

\* What a tail is asked of, and how many of its lines are wanted.
InstancesOf(C) == [container : C, lines : Nat \cup {Unread}]
Wanted(m) == {want \in Int : want <= m}

\* State y is what one more tail makes of x: of one that could be read and still was to
\* be, it shows more.
OneMore(x, y, lines, name, want, isFocus, grep, m) ==
    /\ y.tried = x.tried
    /\ Continues(x, y, {name}, isFocus, m)
    /\ ~x.over /\ ~isFocus /\ (grep \/ (want > 0 /\ x.budget > 0)) =>
         IF lines = Unread THEN y = x ELSE Len(y.logs) > Len(x.logs)

\* One more tail.
LEMMA TailContinues ==
    ASSUME Unread \notin Int, NEW P, NEW C, NEW m \in Nat, NEW s \in LogStates(P, C, m), NEW instance \in InstancesOf(C),
           NEW name \in P, NEW want \in Wanted(m), NEW isFocus \in BOOLEAN, NEW grep \in BOOLEAN
    PROVE  LET r == TailRead(s, instance, name, want, isFocus, grep) IN
           r \in LogStates(P, C, m) /\ OneMore(s, r, instance.lines, name, want, isFocus, grep, m)
<1> DEFINE r == TailRead(s, instance, name, want, isFocus, grep)
<1>1. /\ r \in LogStates(P, C, m) /\ r.tried = s.tried
      /\ r.budget + Total(r.logs, m) = s.budget + Total(s.logs, m)
      /\ r.logs = s.logs \/ \E t \in Entries(P, C, m) : t.pod = name /\ r.logs = Append(s.logs, t)
      /\ ~isFocus => r.budget >= 0 \/ r.budget = s.budget
      /\ ~s.over /\ ~isFocus /\ (grep \/ (want > 0 /\ s.budget > 0)) =>
            IF instance.lines = Unread THEN r = s ELSE Len(r.logs) = Len(s.logs) + 1
    BY TailReadKept DEF InstancesOf, Wanted
<1> HIDE DEF r
<1>2. s.logs \in Seq(Entries(P, C, m)) /\ Len(s.logs) \in Nat BY LenProperties DEF LogStates
<1>3. /\ Len(s.logs) <= Len(r.logs)
      /\ \A i \in 1 .. Len(s.logs) : r.logs[i] = s.logs[i]
      /\ \A i \in 1 .. Len(r.logs) : i > Len(s.logs) => r.logs[i].pod \in {name}
    <2>1. CASE r.logs = s.logs BY <1>2, <2>1
    <2>2. CASE \E t \in Entries(P, C, m) : t.pod = name /\ r.logs = Append(s.logs, t)
        <3>1. PICK t \in Entries(P, C, m) : t.pod = name /\ r.logs = Append(s.logs, t) BY <2>2
        <3>2. /\ Len(r.logs) = Len(s.logs) + 1 /\ r.logs[Len(s.logs) + 1] = t
              /\ \A i \in 1 .. Len(s.logs) : r.logs[i] = s.logs[i]
            BY <1>2, <3>1, AppendProperties
        <3> QED BY <1>2, <3>1, <3>2
    <2> QED BY <1>1, <2>1, <2>2
<1>4. Len(r.logs) = Len(s.logs) + 1 => Len(r.logs) > Len(s.logs) BY <1>2
<1>5. Continues(s, r, {name}, isFocus, m) BY <1>1, <1>3 DEF Continues
<1> QED BY <1>1, <1>4, <1>5 DEF r, OneMore

\* A pod as the kubelet has it, its logs read or not.
IsPod(pod, P, C) ==
    /\ pod.name \in P /\ pod.containers \in Seq(Range(pod.containers))
    /\ \A c \in Range(pod.containers) : c.name \in C /\ {c.current, c.previous} \subseteq Nat \cup {Unread}

\* No container of it can be read.
Silent(pod) == \A i \in DOMAIN pod.containers : pod.containers[i].current = Unread

\* State r is what the tails of a pod make of s.
PodRead(s, r, pod, want, isFocus, grep, m) ==
    /\ r.tried = s.tried \cup {pod.name}
    /\ Continues(s, r, {pod.name}, isFocus, m)
    /\ ~isFocus /\ (grep \/ (want > 0 /\ s.budget > 0)) => Len(r.logs) > Len(s.logs) \/ Silent(pod)

\* The logs of one pod continue those read; none is passed over while there are lines
\* left, unless none can be read.
LEMMA ReadLogsKept ==
    ASSUME Unread \notin Int, NEW P, NEW C, NEW m \in Nat, NEW s \in LogStates(P, C, m), NEW pod, IsPod(pod, P, C),
           NEW previousToo \in BOOLEAN, NEW want \in Wanted(m), NEW isFocus \in BOOLEAN, NEW grep \in BOOLEAN
    PROVE  LET r == ReadLogs(s, pod, previousToo, want, isFocus, grep) IN
           r \in LogStates(P, C, m) /\ PodRead(s, r, pod, want, isFocus, grep, m)
<1>0. /\ pod.name \in P /\ pod.containers \in Seq(Range(pod.containers))
      /\ \A c \in Range(pod.containers) : c.name \in C /\ {c.current, c.previous} \subseteq Nat \cup {Unread}
    BY DEF IsPod
<1> DEFINE D == LogStates(P, C, m)
           wanted == Instances(pod, previousToo)
           n == Len(wanted)
           name == pod.name
           start == [s EXCEPT !.over = FALSE]
           Read(x, i) == TailRead(x, wanted[i], name, want, isFocus, grep)
           after == CHOOSE after : after = [i \in 0 .. n |-> IF i = 0 THEN start ELSE Read(after[i - 1], i)]
           r == [after[n] EXCEPT !.tried = @ \cup {name}]
<1>1. ReadLogs(s, pod, previousToo, want, isFocus, grep) = r BY DEF ReadLogs
<1>2. /\ wanted \in Seq(InstancesOf(C))
      /\ \A i \in DOMAIN pod.containers : \E j \in DOMAIN wanted : wanted[j].lines = pod.containers[i].current
    BY <1>0, InstancesLemma DEF InstancesOf
<1>3. start \in D /\ start.budget = s.budget /\ start.logs = s.logs /\ start.tried = s.tried /\ start.over = FALSE
    BY DEF LogStates
<1> HIDE DEF wanted, start
<1>4. n \in Nat /\ DOMAIN wanted = 1 .. n /\ \A i \in 1 .. n : wanted[i] \in InstancesOf(C)
    <2>1. n \in Nat /\ DOMAIN wanted = 1 .. n BY <1>2, LenProperties
    <2> HIDE DEF n
    <2>2. \A i \in 1 .. n : wanted[i] \in InstancesOf(C) BY <1>2, <2>1, ElementOfSeq DEF n
    <2> QED BY <2>1, <2>2
<1> HIDE DEF n
<1>5. ASSUME NEW x \in D, NEW i \in 1 .. n
      PROVE  Read(x, i) \in D /\ OneMore(x, Read(x, i), wanted[i].lines, name, want, isFocus, grep, m)
    <2> DEFINE instance == wanted[i]
    <2>1. instance \in InstancesOf(C) BY <1>4
    <2>2. name \in P /\ x \in LogStates(P, C, m) BY <1>0
    <2> HIDE DEF instance, name, D, Read
    <2>3. LET y == TailRead(x, instance, name, want, isFocus, grep) IN
          y \in LogStates(P, C, m) /\ OneMore(x, y, instance.lines, name, want, isFocus, grep, m)
        BY <2>1, <2>2, TailContinues
    <2> QED BY <2>3 DEF instance, D, Read
<1> HIDE DEF D, Read
<1>6. after = [i \in 0 .. n |-> IF i = 0 THEN start ELSE Read(after[i - 1], i)]
    <2> DEFINE step == [p \in D \X (1 .. n) |-> Read(p[1], p[2])]
               Loop(f) == f = [i \in 0 .. n |-> IF i = 0 THEN start ELSE Read(f[i - 1], i)]
    <2>1. \A x \in D, i \in 1 .. n : step[<<x, i>>] = Read(x, i) OBVIOUS
    <2> HIDE DEF step
    <2>2. PICK f \in [0 .. n -> D] : IsLoop(f, n, start, step)
        <3>1. step \in [D \X (1 .. n) -> D] BY <1>5 DEF step
        <3>2. start \in D /\ n \in Nat BY <1>3, <1>4
        <3> QED BY <3>1, <3>2, LoopExists
    <2>3. \A i \in 0 .. n : i # 0 => i \in 1 .. n /\ f[i - 1] \in D BY <1>4, <2>2
    <2>4. \A i \in 0 .. n : (IF i = 0 THEN start ELSE step[<<f[i - 1], i>>]) = IF i = 0 THEN start ELSE Read(f[i - 1], i)
        BY <2>1, <2>3
    <2>5. Loop(f) BY <2>2, <2>4 DEF IsLoop
    <2>6. Loop(after)
        <3> HIDE DEF Loop
        <3>1. after = CHOOSE g : Loop(g) BY DEF Loop
        <3> QED BY <2>5, <3>1
    <2> QED BY <2>6
<1> HIDE DEF after
<1> DEFINE Good(i) == /\ after[i] \in D /\ after[i].tried = s.tried
                      /\ Continues(s, after[i], {name}, isFocus, m)
                      /\ ~isFocus /\ (grep \/ (want > 0 /\ s.budget > 0)) =>
                            \/ Len(after[i].logs) > Len(s.logs)
                            \/ after[i] = start /\ \A j \in 1 .. i : wanted[j].lines = Unread
<1>7. Good(0)
    <2>1. after[0] = start BY <1>4, <1>6
    <2>2. Len(s.logs) \in Nat BY LenProperties DEF LogStates
    <2>3. Continues(s, start, {name}, isFocus, m) BY <1>3, <2>2 DEF Continues
    <2> QED BY <1>3, <2>1, <2>3
<1>8. ASSUME NEW i \in 1 .. n, Good(i - 1) PROVE Good(i)
    <2> DEFINE x == after[i - 1]
               y == after[i]
    <2>1. y = Read(x, i) /\ x \in D BY <1>4, <1>6, <1>8
    <2>0. OneMore(x, y, wanted[i].lines, name, want, isFocus, grep, m)
        <3> HIDE DEF x, y
        <3> QED BY <1>5, <2>1
    <2>2. y \in D /\ y.tried = s.tried BY <1>5, <1>8, <2>0, <2>1 DEF OneMore
    <2>3. Continues(s, x, {name}, isFocus, m) /\ Continues(x, y, {name}, isFocus, m) BY <1>8, <2>0 DEF OneMore
    <2>4. s \in D BY DEF D
    <2>5. Continues(s, y, {name}, isFocus, m)
        <3> HIDE DEF x, y
        <3> QED BY <2>1, <2>2, <2>3, <2>4, ContinuesOn DEF D
    <2>6. ASSUME ~isFocus, grep \/ (want > 0 /\ s.budget > 0)
          PROVE  \/ Len(y.logs) > Len(s.logs)
                 \/ y = start /\ \A j \in 1 .. i : wanted[j].lines = Unread
        <3>0. Len(s.logs) \in Nat /\ Len(x.logs) \in Nat /\ Len(y.logs) \in Nat /\ Len(x.logs) <= Len(y.logs)
            <4>1. Len(x.logs) <= Len(y.logs) BY <2>3 DEF Continues
            <4> QED BY <2>1, <2>2, <4>1, LenProperties DEF LogStates, D
        <3>1. CASE Len(x.logs) > Len(s.logs) BY <3>0, <3>1
        <3>2. CASE x = start /\ \A j \in 1 .. i - 1 : wanted[j].lines = Unread
            <4>1. IF wanted[i].lines = Unread THEN y = x ELSE Len(y.logs) > Len(x.logs)
                BY <1>3, <2>0, <2>6, <3>2 DEF OneMore
            <4>2. \A j \in 1 .. i : j = i \/ j \in 1 .. i - 1 BY <1>4
            <4> HIDE DEF x, y
            <4> QED BY <1>3, <3>2, <4>1, <4>2
        <3> QED BY <1>8, <2>6, <3>1, <3>2
    <2> QED BY <2>2, <2>5, <2>6
<1>9. Good(n)
    <2> DEFINE S == {i \in 0 .. n : Good(i)}
    <2>1. 0 \in S BY <1>4, <1>7
    <2>2. \A i \in 1 .. n : i - 1 \in S => i \in S
        <3> HIDE DEF Good
        <3> QED BY <1>4, <1>8
    <2> HIDE DEF S
    <2>3. 0 .. n \subseteq S BY <1>4, <2>1, <2>2, IntervalClosed
    <2>4. n \in S BY <1>4, <2>3
    <2> QED BY <2>4 DEF S
<1> DEFINE last == after[n]
<1>10. /\ r \in D /\ r.tried = s.tried \cup {name}
       /\ r.logs = last.logs /\ r.budget = last.budget
    <2> HIDE DEF last
    <2>1. last \in LogStates(P, C, m) /\ last.tried = s.tried BY <1>9 DEF last, D
    <2>2. r = [last EXCEPT !.tried = @ \cup {name}] BY DEF last
    <2> HIDE DEF r
    <2> QED BY <1>0, <2>1, <2>2 DEF D, LogStates
<1> HIDE DEF r
<1>11. Continues(s, r, {name}, isFocus, m) BY <1>9, <1>10 DEF Continues
<1>12. ASSUME ~isFocus, grep \/ (want > 0 /\ s.budget > 0)
       PROVE  Len(r.logs) > Len(s.logs) \/ \A i \in DOMAIN pod.containers : pod.containers[i].current = Unread
    <2>1. CASE Len(last.logs) > Len(s.logs) BY <1>10, <2>1
    <2>2. CASE \A j \in 1 .. n : wanted[j].lines = Unread BY <1>2, <1>4, <2>2
    <2> QED BY <1>9, <1>12, <2>1, <2>2
<1> QED BY <1>1, <1>10, <1>11, <1>12 DEF D, PodRead, Silent

\* State r is what the logs of a pod other than the focus pod make of s.
OtherRead(s, r, pod, m) ==
    /\ Continues(s, r, {pod.name}, FALSE, m)
    /\ r.tried = s.tried \/ (r.tried = s.tried \cup {pod.name} /\ (Len(r.logs) > Len(s.logs) \/ Silent(pod)))

\* Such a pod is tried as long as there are lines left for it.
LEMMA ReadOtherKept ==
    ASSUME Unread \notin Int, OtherLogLines \in Nat \ {0}, NEW P, NEW C, NEW m \in Nat \ {0}, NEW s \in LogStates(P, C, m),
           NEW pod, IsPod(pod, P, C), NEW grep \in BOOLEAN
    PROVE  LET r == ReadOther(s, pod, m, grep) IN r \in LogStates(P, C, m) /\ OtherRead(s, r, pod, m)
<1> DEFINE r == ReadOther(s, pod, m, grep)
           want == Least(m, OtherLogLines)
<1>1. CASE grep
    <2>1. r = ReadLogs(s, pod, TRUE, m, FALSE, TRUE) BY <1>1 DEF ReadOther
    <2>2. m \in Wanted(m) /\ TRUE \in BOOLEAN /\ FALSE \in BOOLEAN BY DEF Wanted
    <2> HIDE DEF r
    <2>3. r \in LogStates(P, C, m) /\ PodRead(s, r, pod, m, FALSE, TRUE, m) BY <2>1, <2>2, ReadLogsKept
    <2> QED BY <2>3 DEF r, PodRead, OtherRead
<1>2. CASE ~grep /\ s.budget <= 0
    <2>1. r = s BY <1>2 DEF ReadOther
    <2>2. Len(s.logs) \in Nat /\ s.budget \in Int BY LenProperties DEF LogStates
    <2>3. Continues(s, s, {pod.name}, FALSE, m) BY <2>2 DEF Continues
    <2> QED BY <2>1, <2>3 DEF OtherRead
<1>3. CASE ~grep /\ ~(s.budget <= 0)
    <2>1. r = ReadLogs(s, pod, FALSE, want, FALSE, FALSE) BY <1>3 DEF ReadOther
    <2>2. want \in Wanted(m) /\ want > 0 /\ FALSE \in BOOLEAN BY DEF Wanted, Least
    <2>3. s.budget > 0 BY <1>3 DEF LogStates
    <2> HIDE DEF r, want
    <2>4. r \in LogStates(P, C, m) /\ PodRead(s, r, pod, want, FALSE, FALSE, m) BY <2>1, <2>2, ReadLogsKept
    <2> QED BY <2>2, <2>3, <2>4 DEF r, PodRead, OtherRead
<1> QED BY <1>1, <1>2, <1>3

\* The logs of the focus pod.
LEMMA FocusKept ==
    ASSUME Unread \notin Int, NEW P, NEW C, NEW m \in Nat, NEW s \in LogStates(P, C, m), NEW pod, IsPod(pod, P, C),
           NEW grep \in BOOLEAN
    PROVE  LET r == ReadLogs(s, pod, TRUE, m, TRUE, grep) IN
           r \in LogStates(P, C, m) /\ PodRead(s, r, pod, m, TRUE, grep, m)
<1>1. m \in Wanted(m) /\ TRUE \in BOOLEAN BY DEF Wanted
<1> QED BY <1>1, ReadLogsKept

\* The pods of a report: the focus pod and the others, no two of one name.
ArePods(focus, others, P, C) ==
    /\ IsPod(focus, P, C)
    /\ others \in Seq(Range(others))
    /\ \A p \in Range(others) : IsPod(p, P, C) /\ p.name # focus.name
    /\ \A i, j \in DOMAIN others : others[i].name = others[j].name => i = j

\* The lines of the focus pod's logs.
OwnLines(logs, focus, m) ==
    {x \in {i \in DOMAIN logs : logs[i].pod = focus.name} \X (1 .. m) : x[2] <= logs[x[1]].lines}

\* What r says of them: no more lines than its limit, or than the focus pod's own, and of
\* each only as many as asked for; every other pod shows a log, is named, or has none
\* that can be read.
LogsShown(r, focus, others, m) ==
    LET own == Cardinality(OwnLines(r.logs, focus, m)) IN
    /\ Total(r.logs, m) <= IF own > MaxLogLines THEN own ELSE MaxLogLines
    /\ \A i \in DOMAIN r.logs : r.logs[i].lines <= m
    /\ \A p \in Range(others) : p.name \in r.skipped \/ Silent(p) \/ \E t \in Range(r.logs) : t.pod = p.name

LEMMA LogsKept ==
    ASSUME Unread \notin Int, MaxLogLines \in Nat, OtherLogLines \in Nat \ {0}, OtherLogPods \in Nat, MaxGrepPods \in Nat \ {0},
           NEW focus, NEW others, NEW m \in Nat \ {0}, NEW grep \in BOOLEAN, NEW P, NEW C, ArePods(focus, others, P, C)
    PROVE  LogsShown(Logs(focus, others, m, grep), focus, others, m)
<1>0. /\ IsPod(focus, P, C) /\ others \in Seq(Range(others))
      /\ \A p \in Range(others) : IsPod(p, P, C) /\ p.name # focus.name
      /\ \A i, j \in DOMAIN others : others[i].name = others[j].name => i = j
    BY DEF ArePods
<1> DEFINE D == LogStates(P, C, m)
           none == [budget |-> MaxLogLines, logs |-> <<>>, tried |-> {}, over |-> FALSE]
           most == Least(IF grep THEN MaxGrepPods - 1 ELSE OtherLogPods, Len(others))
           first == ReadLogs(none, focus, TRUE, m, TRUE, grep)
           Read(x, i) == ReadOther(x, others[i], m, grep)
           after == CHOOSE after : after = [i \in 0 .. most |-> IF i = 0 THEN first ELSE Read(after[i - 1], i)]
           last == after[most]
           logs == last.logs
           r == [logs |-> logs, skipped |-> {p.name : p \in Range(others)} \ last.tried]
           names == {p.name : p \in Range(others)}
<1>1. Logs(focus, others, m, grep) = r BY DEF Logs
<1>2. most \in Nat /\ Len(others) \in Nat /\ DOMAIN others = 1 .. Len(others) /\ most <= Len(others)
    BY <1>0, LenProperties DEF Least
<1>3. \A i \in 1 .. Len(others) : others[i] \in Range(others) /\ IsPod(others[i], P, C) /\ others[i].name # focus.name
    BY <1>0, <1>2 DEF Range
<1>4. none \in D
    <2>1. <<>> \in Seq(Entries(P, C, m)) OBVIOUS
    <2> QED BY <2>1 DEF LogStates
<1>5. Total(<<>>, m) = 0
    <2>1. Tails(<<>>, m) = {} BY DEF Tails
    <2> QED BY <2>1, FS_EmptySet DEF Total
<1>6. first \in D /\ PodRead(none, first, focus, m, TRUE, grep, m)
    <2>1. m \in Nat OBVIOUS
    <2>2. none \in LogStates(P, C, m) BY <1>4
    <2>3. first = ReadLogs(none, focus, TRUE, m, TRUE, grep) OBVIOUS
    <2> HIDE DEF none, first
    <2>4. first \in LogStates(P, C, m) /\ PodRead(none, first, focus, m, TRUE, grep, m) BY <1>0, <2>1, <2>2, <2>3, FocusKept
    <2> QED BY <2>4
<1>7. /\ first.tried = {focus.name} /\ first.budget + Total(first.logs, m) = MaxLogLines
      /\ \A i \in 1 .. Len(first.logs) : first.logs[i].pod = focus.name
    <2>1. Len(first.logs) \in Nat BY <1>6, LenProperties DEF LogStates
    <2>2. Continues(none, first, {focus.name}, TRUE, m) /\ first.tried = none.tried \cup {focus.name} BY <1>6 DEF PodRead
    <2>3. none.logs = <<>> /\ Len(none.logs) = 0 /\ none.budget = MaxLogLines /\ none.tried = {} OBVIOUS
    <2> HIDE DEF none, first
    <2>4. first.budget + Total(first.logs, m) = MaxLogLines + 0 BY <1>5, <2>2, <2>3 DEF Continues
    <2>5. \A i \in 1 .. Len(first.logs) : first.logs[i].pod = focus.name BY <2>1, <2>2, <2>3 DEF Continues
    <2> QED BY <2>2, <2>3, <2>4, <2>5
<1> HIDE DEF most, first, none
<1>8. ASSUME NEW x \in D, NEW i \in 1 .. most
      PROVE  Read(x, i) \in D /\ OtherRead(x, Read(x, i), others[i], m)
    <2> DEFINE pod == others[i]
    <2>1. i \in 1 .. Len(others) BY <1>2
    <2>2. IsPod(pod, P, C) /\ x \in LogStates(P, C, m) BY <1>3, <2>1
    <2> HIDE DEF pod, Read, D
    <2>3. LET y == ReadOther(x, pod, m, grep) IN y \in LogStates(P, C, m) /\ OtherRead(x, y, pod, m)
        BY <2>2, ReadOtherKept
    <2> QED BY <2>3 DEF pod, Read, D
<1> HIDE DEF D, Read
<1>9. after = [i \in 0 .. most |-> IF i = 0 THEN first ELSE Read(after[i - 1], i)]
    <2> DEFINE step == [p \in D \X (1 .. most) |-> Read(p[1], p[2])]
               Loop(f) == f = [i \in 0 .. most |-> IF i = 0 THEN first ELSE Read(f[i - 1], i)]
    <2>1. \A x \in D, i \in 1 .. most : step[<<x, i>>] = Read(x, i) OBVIOUS
    <2>2. step \in [D \X (1 .. most) -> D] BY <1>8
    <2> HIDE DEF step
    <2>3. PICK f \in [0 .. most -> D] : IsLoop(f, most, first, step) BY <1>2, <1>6, <2>2, LoopExists
    <2>4. \A i \in 0 .. most : i # 0 => i \in 1 .. most /\ f[i - 1] \in D BY <1>2, <2>3
    <2>5. \A i \in 0 .. most : (IF i = 0 THEN first ELSE step[<<f[i - 1], i>>]) = IF i = 0 THEN first ELSE Read(f[i - 1], i)
        BY <2>1, <2>4
    <2>6. Loop(f) BY <2>3, <2>5 DEF IsLoop
    <2> HIDE DEF Loop
    <2>7. after = CHOOSE g : Loop(g) BY DEF Loop
    <2>8. Loop(after) BY <2>6, <2>7
    <2> QED BY <2>8 DEF Loop
<1> HIDE DEF after
<1> DEFINE Shows(x, pod) == \E i \in 1 .. Len(x.logs) : x.logs[i].pod = pod.name
           Good(k) == /\ after[k] \in D /\ Continues(first, after[k], names, FALSE, m)
                      /\ after[k].tried \subseteq {focus.name} \cup {others[j].name : j \in 1 .. k}
                      /\ \A j \in 1 .. k : others[j].name \in after[k].tried => Silent(others[j]) \/ Shows(after[k], others[j])
<1>10. \A x \in D : Len(x.logs) \in Nat /\ DOMAIN x.logs = 1 .. Len(x.logs) /\ x.budget \in Int
    BY LenProperties DEF LogStates, D
<1>11. Good(0)
    <2>1. after[0] = first BY <1>2, <1>9
    <2>2. Continues(first, first, names, FALSE, m) BY <1>6, <1>10 DEF Continues
    <2>3. \A j \in 1 .. 0 : FALSE OBVIOUS
    <2>4. after[0].tried \subseteq {focus.name} \cup {others[j].name : j \in 1 .. 0} BY <1>7, <2>1
    <2> HIDE DEF names
    <2> QED BY <1>6, <2>1, <2>2, <2>3, <2>4
<1>12. ASSUME NEW k \in 1 .. most, Good(k - 1) PROVE Good(k)
    <2> DEFINE x == after[k - 1]
               y == after[k]
               pod == others[k]
               name(j) == others[j].name
    <2>0. k \in 1 .. Len(others) /\ pod \in Range(others) /\ pod.name \in names /\ k \in 0 .. most /\ k - 1 \in 0 .. most
        BY <1>2, <1>3
    <2>1. y = Read(x, k) /\ x \in D BY <1>9, <1>12, <2>0
    <2>2. y \in D /\ OtherRead(x, y, pod, m)
        <3> HIDE DEF x, y
        <3> QED BY <1>8, <2>1
    <2>3. Continues(x, y, {pod.name}, FALSE, m) BY <2>2 DEF OtherRead
    <2>4. Continues(first, y, names, FALSE, m)
        <3>1. Continues(x, y, names, FALSE, m) BY <2>0, <2>3 DEF Continues
        <3>2. Continues(first, x, names, FALSE, m) BY <1>12
        <3>3. FALSE \in BOOLEAN /\ m \in Nat OBVIOUS
        <3> HIDE DEF x, y, names
        <3> QED BY <1>6, <2>1, <2>2, <3>1, <3>2, <3>3, ContinuesOn DEF D
    <2>5. x.tried \subseteq {focus.name} \cup {name(j) : j \in 1 .. k - 1} BY <1>12
    <2>6. y.tried \subseteq x.tried \cup {pod.name} BY <2>2 DEF OtherRead
    <2>7. y.tried \subseteq {focus.name} \cup {name(j) : j \in 1 .. k}
        <3>1. \A j \in 1 .. k - 1 : j \in 1 .. k BY <1>2
        <3>2. pod.name = name(k) /\ k \in 1 .. k BY <1>2
        <3> HIDE DEF x, y, name, pod
        <3> QED BY <2>5, <2>6, <3>1, <3>2
    <2>8. ASSUME NEW j \in 1 .. k, name(j) \in y.tried PROVE Silent(others[j]) \/ Shows(y, others[j])
        <3>0. Len(x.logs) \in Nat /\ Len(y.logs) \in Nat BY <1>10, <2>1, <2>2
        <3>1. CASE j = k
            <4>1. \A i \in 1 .. k - 1 : i \in 1 .. Len(others) /\ i # k BY <1>2
            <4>2. \A i \in 1 .. k - 1 : name(i) # pod.name BY <1>0, <1>2, <2>0, <4>1
            <4>3. pod.name # focus.name BY <1>3, <2>0
            <4>4. pod.name \notin x.tried
                <5> HIDE DEF x, name, pod
                <5> QED BY <2>5, <4>2, <4>3
            <4>5. y.tried # x.tried BY <2>8, <3>1, <4>4
            <4>6. Len(y.logs) > Len(x.logs) \/ Silent(pod) BY <2>2, <4>5 DEF OtherRead
            <4>7. CASE Len(y.logs) > Len(x.logs)
                <5>1. Len(y.logs) \in 1 .. Len(y.logs) BY <3>0, <4>7
                <5>2. y.logs[Len(y.logs)].pod = pod.name BY <2>3, <4>7, <5>1 DEF Continues
                <5> QED BY <3>1, <5>1, <5>2
            <4> QED BY <3>1, <4>6, <4>7
        <3>2. CASE j # k
            <4>1. j \in 1 .. k - 1 /\ j \in 1 .. Len(others) BY <1>2, <3>2
            <4>2. name(j) # pod.name BY <1>0, <1>2, <2>0, <3>2, <4>1
            <4>3. name(j) \in x.tried BY <2>6, <2>8, <4>2
            <4>4. Silent(others[j]) \/ Shows(x, others[j]) BY <1>12, <4>1, <4>3
            <4>5. Shows(x, others[j]) => Shows(y, others[j])
                <5>1. Len(x.logs) <= Len(y.logs) /\ \A i \in 1 .. Len(x.logs) : y.logs[i] = x.logs[i] BY <2>3 DEF Continues
                <5>2. \A i \in 1 .. Len(x.logs) : i \in 1 .. Len(y.logs) BY <3>0, <5>1
                <5> QED BY <5>1, <5>2
            <4> QED BY <4>4, <4>5
        <3> QED BY <3>1, <3>2
    <2> QED BY <2>2, <2>4, <2>7, <2>8
<1>13. Good(most)
    <2> DEFINE S == {i \in 0 .. most : Good(i)}
    <2> HIDE DEF Good
    <2>1. 0 \in S BY <1>2, <1>11
    <2>2. \A i \in 1 .. most : i - 1 \in S => i \in S BY <1>2, <1>12
    <2> HIDE DEF S
    <2>3. 0 .. most \subseteq S BY <1>2, <2>1, <2>2, IntervalClosed
    <2>4. most \in S BY <1>2, <2>3
    <2> QED BY <2>4 DEF S
<1>14. last \in D /\ Continues(first, last, names, FALSE, m) BY <1>13
<1>15. logs \in Seq(Entries(P, C, m)) /\ Len(logs) \in Nat /\ DOMAIN logs = 1 .. Len(logs) BY <1>10, <1>14 DEF D, LogStates
<1>16. \A i \in DOMAIN logs : logs[i].lines \in 0 .. m
    <2> HIDE DEF logs
    <2>1. \A i \in DOMAIN logs : logs[i] \in Entries(P, C, m) BY <1>15, ElementOfSeq
    <2> QED BY <2>1 DEF Entries
<1> DEFINE own == OwnLines(logs, focus, m)
<1>17. Total(logs, m) <= IF Cardinality(own) > MaxLogLines THEN Cardinality(own) ELSE MaxLogLines
    <2>1. /\ first.logs \in Seq(Entries(P, C, m)) /\ Len(first.logs) \in Nat /\ DOMAIN first.logs = 1 .. Len(first.logs)
          /\ first.budget \in Int
        BY <1>6, <1>10 DEF D, LogStates
    <2>2. IsFiniteSet(Tails(logs, m)) /\ Total(logs, m) \in Nat /\ Total(first.logs, m) \in Nat
        <3> DEFINE x == first.logs
                   y == logs
        <3>1. x \in Seq(Entries(P, C, m)) /\ y \in Seq(Entries(P, C, m)) /\ m \in Nat BY <1>15, <2>1
        <3> HIDE DEF x, y
        <3>2. IsFiniteSet(Tails(x, m)) /\ IsFiniteSet(Tails(y, m)) BY <3>1, TailsFinite
        <3> QED BY <3>2, FS_CardinalityType DEF Total, x, y
    <2>3. own \subseteq Tails(logs, m) BY DEF Tails, OwnLines
    <2>4. Tails(first.logs, m) \subseteq own
        <3>1. /\ Len(first.logs) <= Len(logs) /\ \A i \in 1 .. Len(first.logs) : logs[i] = first.logs[i]
            BY <1>14 DEF Continues
        <3>2. \A i \in DOMAIN first.logs : i \in DOMAIN logs /\ logs[i] = first.logs[i] /\ logs[i].pod = focus.name
            BY <1>7, <1>15, <2>1, <3>1
        <3> HIDE DEF logs
        <3> QED BY <3>2 DEF Tails, OwnLines
    <2> HIDE DEF own
    <2>5. IsFiniteSet(own) /\ Cardinality(own) \in Nat BY <2>2, <2>3, FS_Subset, FS_CardinalityType
    <2>6. Total(first.logs, m) <= Cardinality(own) BY <2>4, <2>5, FS_Subset DEF Total
    <2>7. last.budget + Total(logs, m) = first.budget + Total(first.logs, m) /\ (last.budget >= 0 \/ last.budget = first.budget)
        BY <1>14 DEF Continues
    <2>8. last.budget \in Int BY <1>10, <1>14
    <2> HIDE DEF logs, last
    <2> QED BY <1>7, <2>1, <2>2, <2>5, <2>6, <2>7, <2>8
<1>18. ASSUME NEW p \in Range(others)
       PROVE  p.name \in r.skipped \/ Silent(p) \/ \E t \in Range(logs) : t.pod = p.name
    <2>1. PICK j \in 1 .. Len(others) : others[j] = p BY <1>2 DEF Range
    <2>2. CASE p.name \notin last.tried BY <2>2
    <2>3. CASE p.name \in last.tried
        <3>1. p.name # focus.name BY <1>0
        <3>2. PICK i \in 1 .. most : others[i].name = p.name BY <1>13, <2>3, <3>1
        <3>3. i = j BY <1>0, <1>2, <2>1, <3>2
        <3>4. Silent(p) \/ Shows(last, p) BY <1>13, <2>1, <2>3, <3>2, <3>3
        <3>5. Shows(last, p) => \E t \in Range(logs) : t.pod = p.name BY <1>15 DEF Range
        <3> QED BY <3>4, <3>5
    <2> QED BY <2>2, <2>3
<1>19. \A i \in DOMAIN logs : logs[i].lines <= m BY <1>16
<1> HIDE DEF logs
<1>20. LogsShown(r, focus, others, m) BY <1>17, <1>18, <1>19 DEF LogsShown
<1> QED BY <1>1, <1>20

-----------------------------------------------------------------------------
(* The events of a report.                                                 *)

LEMMA MaxIs ==
    ASSUME NEW S \in SUBSET Int, NEW x \in S, \A y \in S : y <= x
    PROVE  Max(S) = x
<1>1. \A y \in S : x >= y OBVIOUS
<1>2. \A z \in S : (\A y \in S : z >= y) => z = x
    <2> SUFFICES ASSUME NEW z \in S, \A y \in S : z >= y PROVE z = x OBVIOUS
    <2>1. z >= x /\ z <= x OBVIOUS
    <2> QED BY <2>1
<1> QED BY <1>1, <1>2 DEF Max

LEMMA MinIs ==
    ASSUME NEW S \in SUBSET Int, NEW x \in S, \A y \in S : x <= y
    PROVE  Min(S) = x
<1>2. \A z \in S : (\A y \in S : z <= y) => z = x
    <2> SUFFICES ASSUME NEW z \in S, \A y \in S : z <= y PROVE z = x OBVIOUS
    <2>1. z <= x /\ x <= z OBVIOUS
    <2> QED BY <2>1
<1> QED BY <1>2 DEF Min

\* The sentinels are no numbers.
Apart == NoCount \notin Int /\ Never \notin Int /\ Failed \notin Int /\ Failed # Never

Lives == (Nat \ {0}) \cup {Never}
Counts == (Nat \ {0}) \cup {NoCount}

\* A record of an event as the API keeps it, of an event not of this instant.
Sound(e) ==
    /\ {e.count, e.seriesCount} \subseteq Counts
    /\ {e.first, e.last, e.seriesLast, e.time} \subseteq Lives
    /\ Seen(e) # {} => /\ OrElse(e.first, e.time) # Never /\ OrElse(e.last, OrElse(e.seriesLast, e.time)) # Never
                       /\ \A t \in Seen(e) : /\ t <= OrElse(e.first, e.time)
                                             /\ OrElse(e.last, OrElse(e.seriesLast, e.time)) <= t

\* The ages of an event when a replay has run that much later, and the ones that span some.
Ages(e, later) == {t + later : t \in Seen(e)}
Spans(first, last, ages) ==
    /\ ages \subseteq Nat \ {0}
    /\ IF ages = {} THEN first = Never /\ last = Never
       ELSE first \in ages /\ last \in ages /\ \A t \in ages : last <= t /\ t <= first

LaterBy(elapsed) == IF elapsed = Never THEN 0 ELSE elapsed

\* What get_events says of an event, live or replayed: how often it was seen, and since when.
LEMMA EventTold ==
    ASSUME Apart, NEW e, Sound(e), NEW elapsed \in Nat \cup {Never}
    PROVE  LET g == GetEvent(e, elapsed) IN
           /\ g.says = e.says /\ g.count = Sightings(e) /\ g.count \in Counts
           /\ Spans(g.first, g.last, Ages(e, LaterBy(elapsed)))
<1> DEFINE s == EventSummary(e)
           g == GetEvent(e, elapsed)
           first == OrElse(e.first, e.time)
           last == OrElse(e.last, OrElse(e.seriesLast, e.time))
           d == LaterBy(elapsed)
           ages == Ages(e, d)
<1>1. /\ e.count \in Counts /\ e.seriesCount \in Counts
      /\ e.first \in Lives /\ e.last \in Lives /\ e.seriesLast \in Lives /\ e.time \in Lives
    BY DEF Sound
<1>2. /\ s.says = e.says /\ s.first = first /\ s.last = last /\ s.count = Sightings(e)
      /\ DOMAIN s = {"object", "kind", "says", "last", "first", "count"}
    BY <1>1 DEF EventSummary, Sightings, Counts, Apart
<1>3. Sightings(e) \in Counts BY <1>1 DEF Sightings, Counts
<1>4. first \in Seen(e) \cup {Never} /\ last \in Seen(e) \cup {Never} /\ Seen(e) \subseteq Nat \ {0}
    BY <1>1 DEF OrElse, Seen, Lives
<1>5. Never \notin Seen(e) /\ d \in Nat BY DEF Seen, LaterBy, Apart
<1>6. Spans(IF first = Never THEN Never ELSE first + d, IF last = Never THEN Never ELSE last + d, ages)
    <2>1. CASE Seen(e) = {}
        <3>1. ages = {} /\ first = Never /\ last = Never BY <1>4, <2>1 DEF Ages
        <3> QED BY <3>1 DEF Spans
    <2>2. CASE Seen(e) # {}
        <3>1. first # Never /\ last # Never /\ \A t \in Seen(e) : t <= first /\ last <= t BY <2>2 DEF Sound
        <3>2. first \in Seen(e) /\ last \in Seen(e) BY <1>4, <3>1
        <3> HIDE DEF first, last, d
        <3>3. first + d \in ages /\ last + d \in ages BY <3>2 DEF Ages
        <3>4. \A t \in ages : t \in Nat \ {0} /\ last + d <= t /\ t <= first + d BY <1>4, <1>5, <3>1, <3>2 DEF Ages
        <3> QED BY <3>1, <3>3, <3>4 DEF Spans
    <2> QED BY <2>1, <2>2
<1>7. CASE elapsed = Never
    <2>1. g = s /\ d = 0 BY <1>7 DEF GetEvent, LaterBy
    <2>2. (first # Never => first + d = first) /\ (last # Never => last + d = last) BY <1>4, <2>1
    <2> HIDE DEF g, s, first, last, d
    <2> QED BY <1>2, <1>3, <1>6, <2>1, <2>2 DEF g, d
<1>8. CASE elapsed # Never
    <2>1. d = elapsed /\ g = ReplayedEvent(EventRecord(s), elapsed) BY <1>8 DEF GetEvent, LaterBy
    <2>2. EventRecord(s) = s
        <3>1. s.first # 0 /\ s.last # 0 BY <1>2, <1>4 DEF Apart
        <3> QED BY <3>1 DEF EventRecord, EventSummary
    <2>3. ReplayedEvent(s, elapsed).first = (IF first = Never THEN Never ELSE first + elapsed)
        BY <1>2 DEF ReplayedEvent, EventSummary
    <2>4. ReplayedEvent(s, elapsed).last = (IF last = Never THEN Never ELSE last + elapsed)
        BY <1>2 DEF ReplayedEvent, EventSummary
    <2>5. ReplayedEvent(s, elapsed).says = s.says /\ ReplayedEvent(s, elapsed).count = s.count
        BY DEF ReplayedEvent, EventSummary
    <2> HIDE DEF g, s, first, last, d
    <2> QED BY <1>2, <1>3, <1>6, <2>1, <2>2, <2>3, <2>4, <2>5 DEF g, d
<1> QED BY <1>7, <1>8

\* Merged, two spans of ages make that of both.
LEMMA SpansMerged ==
    ASSUME Apart, NEW A, NEW B, NEW f, NEW l, NEW f2, NEW l2, Spans(f, l, A), Spans(f2, l2, B)
    PROVE  Spans(Span(f, f2, TRUE), Span(l, l2, FALSE), A \cup B)
<1>1. CASE B = {}
    <2>1. f2 = Never /\ l2 = Never /\ A \cup B = A BY <1>1 DEF Spans
    <2>2. Span(f, f2, TRUE) = f /\ Span(l, l2, FALSE) = l BY <2>1 DEF Span
    <2> QED BY <2>1, <2>2
<1>2. CASE A = {} /\ B # {}
    <2>1. f = Never /\ l = Never /\ f2 \in Nat \ {0} /\ l2 \in Nat \ {0} /\ A \cup B = B BY <1>2 DEF Spans
    <2>2. {f, f2} \ {Never, 0} = {f2} /\ {l, l2} \ {Never, 0} = {l2} BY <2>1 DEF Apart
    <2>3. Max({f2}) = f2 /\ Min({l2}) = l2 BY <2>1, MaxIs, MinIs
    <2>4. f # Failed /\ l # Failed /\ f2 # Never /\ l2 # Never BY <2>1 DEF Apart
    <2>5. Span(f, f2, TRUE) = f2 /\ Span(l, l2, FALSE) = l2 BY <2>2, <2>3, <2>4 DEF Span
    <2> QED BY <2>1, <2>5
<1>3. CASE A # {} /\ B # {}
    <2>1. /\ f \in A /\ l \in A /\ f2 \in B /\ l2 \in B /\ A \subseteq Nat \ {0} /\ B \subseteq Nat \ {0}
          /\ \A t \in A : l <= t /\ t <= f
          /\ \A t \in B : l2 <= t /\ t <= f2
        BY <1>3 DEF Spans
    <2>2. {f, f2} \ {Never, 0} = {f, f2} /\ {l, l2} \ {Never, 0} = {l, l2} BY <2>1 DEF Apart
    <2>3. f # Failed /\ l # Failed /\ f2 # Never /\ l2 # Never BY <2>1 DEF Apart
    <2>4. Span(f, f2, TRUE) = Max({f, f2}) /\ Span(l, l2, FALSE) = Min({l, l2}) BY <2>2, <2>3 DEF Span
    <2> DEFINE x == IF f < f2 THEN f2 ELSE f
               y == IF l2 < l THEN l2 ELSE l
    <2>5. Max({f, f2}) = x
        <3>1. {f, f2} \in SUBSET Int /\ x \in {f, f2} /\ \A z \in {f, f2} : z <= x BY <2>1
        <3> HIDE DEF x
        <3> QED BY <3>1, MaxIs
    <2>6. Min({l, l2}) = y
        <3>1. {l, l2} \in SUBSET Int /\ y \in {l, l2} /\ \A z \in {l, l2} : y <= z BY <2>1
        <3> HIDE DEF y
        <3> QED BY <3>1, MinIs
    <2>7. x \in A \cup B /\ y \in A \cup B BY <2>1
    <2>8. \A t \in A \cup B : y <= t /\ t <= x BY <2>1
    <2>9. A \cup B # {} /\ A \cup B \subseteq Nat \ {0} BY <2>1
    <2> HIDE DEF x, y
    <2> QED BY <2>4, <2>5, <2>6, <2>7, <2>8, <2>9 DEF Spans
<1> QED BY <1>1, <1>2, <1>3

\* The sightings told of some events, one by one.
Known(events, X) == {i \in X : Sightings(events[i]) # NoCount}
Units(events, X) == UNION {{i} \X (1 .. Sightings(events[i])) : i \in Known(events, X)}

\* They can be counted, and one more event adds its own.
LEMMA UnitsStep ==
    ASSUME NEW events, NEW X, IsFiniteSet(Units(events, X)), NEW i, i \notin X, Sightings(events[i]) \in Nat \ {0},
           NoCount \notin Int
    PROVE  /\ IsFiniteSet(Units(events, X \cup {i}))
           /\ Cardinality(Units(events, X)) \in Nat
           /\ Cardinality(Units(events, X \cup {i})) = Cardinality(Units(events, X)) + Sightings(events[i])
<1> DEFINE n == Sightings(events[i])
           its == {i} \X (1 .. n)
           U == Units(events, X)
<1>1. Known(events, X \cup {i}) = Known(events, X) \cup {i} BY DEF Known
<1>2. Units(events, X \cup {i}) = U \cup its BY <1>1 DEF Units
<1>3. U \cap its = {}
    <2>1. \A x \in U : x[1] \in X BY DEF Units, Known
    <2>2. \A x \in its : x[1] = i OBVIOUS
    <2> QED BY <2>1, <2>2
<1>4. IsFiniteSet(its) /\ Cardinality(its) = n
    <2>1. n \in Nat \ {0} OBVIOUS
    <2> HIDE DEF n
    <2>2. IsFiniteSet({i}) /\ Cardinality({i}) = 1 BY FS_Singleton
    <2>3. IsFiniteSet(1 .. n) /\ Cardinality(1 .. n) = n
        <3>1. 1 \in Int /\ n \in Int /\ ~(1 > n) BY <2>1
        <3>2. IsFiniteSet(1 .. n) /\ Cardinality(1 .. n) = n - 1 + 1 BY <3>1, FS_Interval
        <3> QED BY <2>1, <3>2
    <2>4. IsFiniteSet(its) /\ Cardinality(its) = 1 * n
        <3> DEFINE one == {i}
                   upTo == 1 .. n
        <3> HIDE DEF one, upTo
        <3>1. IsFiniteSet(one \X upTo) /\ Cardinality(one \X upTo) = Cardinality(one) * Cardinality(upTo)
            BY <2>2, <2>3, FS_Product DEF one, upTo
        <3> QED BY <2>2, <2>3, <3>1 DEF one, upTo
    <2> QED BY <2>1, <2>4
<1>5. Cardinality(U) \in Nat BY FS_CardinalityType
<1> HIDE DEF its, U, n
<1>6. IsFiniteSet(U) /\ Cardinality({}) = 0 BY FS_EmptySet DEF U
<1>7. IsFiniteSet(U \cup its) /\ Cardinality(U \cup its) = Cardinality(U) + Cardinality(its) - Cardinality(U \cap its)
    BY <1>4, <1>6, FS_Union
<1>8. n \in Nat BY DEF n
<1>9. Cardinality(U \cap its) = 0 BY <1>3, <1>6
<1>10. Cardinality(U \cup its) = Cardinality(U) + n
    <2> DEFINE a == Cardinality(U)
               b == Cardinality(U \cup its)
               c == Cardinality(U \cap its)
    <2>1. b = a + n - c /\ c = 0 /\ a \in Nat BY <1>4, <1>5, <1>7, <1>9
    <2> HIDE DEF a, b, c
    <2>2. b = a + n BY <1>8, <2>1
    <2> QED BY <2>2 DEF a, b
<1> QED BY <1>2, <1>5, <1>7, <1>10 DEF U, n

\* What a line says of the events merged in it: how many, how often, and since when.
LineTold(line, events, X, d) ==
    /\ IsFiniteSet(X) /\ line.objects = Cardinality(X)
    /\ IsFiniteSet(Units(events, X))
    /\ line.count = IF Known(events, X) = {} THEN NoCount ELSE Cardinality(Units(events, X))
    /\ Spans(line.first, line.last, UNION {Ages(events[j], d) : j \in X})

LineOf(g) == [says |-> g.says, objects |-> 1, count |-> g.count, first |-> g.first, last |-> g.last]

\* A line's first event, and one more.
LEMMA LineStarts ==
    ASSUME Apart, NEW events, NEW i, Sound(events[i]), NEW elapsed \in Nat \cup {Never}
    PROVE  LineTold(LineOf(GetEvent(events[i], elapsed)), events, {i}, LaterBy(elapsed))
<1> DEFINE e == events[i]
           g == GetEvent(e, elapsed)
           line == LineOf(g)
           d == LaterBy(elapsed)
<1>1. g.count = Sightings(e) /\ g.count \in Counts /\ Spans(g.first, g.last, Ages(e, d)) BY EventTold
<1> HIDE DEF g, d
<1>2. line.objects = 1 /\ line.count = g.count /\ line.first = g.first /\ line.last = g.last BY DEF LineOf
<1>3. IsFiniteSet({i}) /\ Cardinality({i}) = 1 BY FS_Singleton
<1>4. UNION {Ages(events[j], d) : j \in {i}} = Ages(e, d) OBVIOUS
<1>5. Units(events, {}) = {} /\ IsFiniteSet({}) /\ Cardinality({}) = 0 BY FS_EmptySet DEF Units, Known
<1>6. {} \cup {i} = {i} OBVIOUS
<1> HIDE DEF line
<1>7. ASSUME g.count = NoCount PROVE LineTold(line, events, {i}, d)
    <2>1. Known(events, {i}) = {} BY <1>1, <1>7 DEF Known
    <2>2. Units(events, {i}) = {} BY <2>1 DEF Units
    <2> QED BY <1>1, <1>2, <1>3, <1>4, <1>5, <1>7, <2>1, <2>2 DEF LineTold
<1>8. ASSUME g.count # NoCount PROVE LineTold(line, events, {i}, d)
    <2>1. Known(events, {i}) # {} BY <1>1, <1>8 DEF Known
    <2>2. Sightings(e) \in Nat \ {0} /\ NoCount \notin Int BY <1>1, <1>8 DEF Counts, Apart
    <2>3. /\ IsFiniteSet(Units(events, {} \cup {i}))
          /\ Cardinality(Units(events, {} \cup {i})) = Cardinality(Units(events, {})) + Sightings(events[i])
        BY <1>5, <2>2, UnitsStep
    <2>4. Cardinality(Units(events, {})) = 0 BY <1>5
    <2>5. Cardinality(Units(events, {i})) = 0 + Sightings(events[i]) BY <1>6, <2>3, <2>4
    <2>6. IsFiniteSet(Units(events, {i})) /\ Cardinality(Units(events, {i})) = g.count BY <1>1, <1>6, <2>2, <2>3, <2>5
    <2> QED BY <1>1, <1>2, <1>3, <1>4, <2>1, <2>6 DEF LineTold
<1>9. LineTold(line, events, {i}, d) BY <1>7, <1>8
<1> QED BY <1>9 DEF g, d, line

LEMMA LineGrows ==
    ASSUME Apart, NEW events, NEW X, NEW line, NEW i, i \notin X, Sound(events[i]), NEW elapsed \in Nat \cup {Never},
           LineTold(line, events, X, LaterBy(elapsed))
    PROVE  LineTold(LaterLine(line, GetEvent(events[i], elapsed)), events, X \cup {i}, LaterBy(elapsed))
<1> DEFINE e == events[i]
           g == GetEvent(e, elapsed)
           more == LaterLine(line, g)
           d == LaterBy(elapsed)
           A == UNION {Ages(events[j], d) : j \in X}
<1>1. g.count = Sightings(e) /\ g.count \in Counts /\ Spans(g.first, g.last, Ages(e, d)) BY EventTold
<1> HIDE DEF g, d
<1>2. /\ more.objects = line.objects + 1
      /\ more.count = IF g.count = NoCount THEN line.count
                      ELSE (IF line.count = NoCount THEN 0 ELSE line.count) + g.count
      /\ more.first = Span(line.first, g.first, TRUE) /\ more.last = Span(line.last, g.last, FALSE)
    BY DEF LaterLine
<1> HIDE DEF more
<1>3. /\ IsFiniteSet(X) /\ line.objects = Cardinality(X)
      /\ IsFiniteSet(Units(events, X))
      /\ line.count = IF Known(events, X) = {} THEN NoCount ELSE Cardinality(Units(events, X))
      /\ Spans(line.first, line.last, A)
    BY DEF LineTold, d
<1>4. IsFiniteSet(X \cup {i}) /\ Cardinality(X \cup {i}) = Cardinality(X) + 1 BY <1>3, FS_AddElement
<1>5. UNION {Ages(events[j], d) : j \in X \cup {i}} = A \cup Ages(e, d) OBVIOUS
<1>6. Spans(more.first, more.last, A \cup Ages(e, d))
    <2> DEFINE B == Ages(e, d)
    <2>1. Spans(line.first, line.last, A) /\ Spans(g.first, g.last, B) BY <1>1, <1>3
    <2> HIDE DEF A, B, e
    <2>2. Spans(Span(line.first, g.first, TRUE), Span(line.last, g.last, FALSE), A \cup B) BY <2>1, SpansMerged
    <2> QED BY <1>2, <2>2 DEF B
<1>7. /\ IsFiniteSet(Units(events, X \cup {i}))
      /\ more.count = IF Known(events, X \cup {i}) = {} THEN NoCount ELSE Cardinality(Units(events, X \cup {i}))
    <2>1. CASE g.count = NoCount
        <3>1. Known(events, X \cup {i}) = Known(events, X) BY <1>1, <2>1 DEF Known
        <3>2. Units(events, X \cup {i}) = Units(events, X) BY <3>1 DEF Units
        <3> QED BY <1>2, <1>3, <2>1, <3>1, <3>2
    <2>2. CASE g.count # NoCount
        <3>1. Known(events, X \cup {i}) # {} BY <1>1, <2>2 DEF Known
        <3>2. Sightings(events[i]) \in Nat \ {0} /\ NoCount \notin Int BY <1>1, <2>2 DEF Counts, Apart
        <3>3. /\ IsFiniteSet(Units(events, X \cup {i})) /\ Cardinality(Units(events, X)) \in Nat
              /\ Cardinality(Units(events, X \cup {i})) = Cardinality(Units(events, X)) + Sightings(events[i])
            BY <1>3, <3>2, UnitsStep
        <3>4. Known(events, X) = {} => Cardinality(Units(events, X)) = 0
            <4>1. Known(events, X) = {} => Units(events, X) = {} BY DEF Units
            <4> QED BY <4>1, FS_EmptySet
        <3>5. (IF line.count = NoCount THEN 0 ELSE line.count) = Cardinality(Units(events, X)) BY <1>3, <3>2, <3>3, <3>4
        <3> QED BY <1>1, <1>2, <2>2, <3>1, <3>3, <3>5
    <2> QED BY <2>1, <2>2
<1>8. LineTold(more, events, X \cup {i}, d)
    <2> HIDE DEF A, e
    <2> QED BY <1>2, <1>3, <1>4, <1>5, <1>6, <1>7 DEF LineTold
<1> QED BY <1>8 DEF g, d, more

\* Lines of things said, and those of some of the events, one for each.
Lines(S) == [says : S, objects : Nat \ {0}, count : Counts, first : Lives, last : Lives]
Saying(events, X, says) == {i \in X : events[i].says = says}
Merges(lines, events, X, S, d) ==
    /\ lines \in SUBSET Lines(S)
    /\ \A line \in lines : /\ Saying(events, X, line.says) # {}
                           /\ LineTold(line, events, Saying(events, X, line.says), d)
    /\ \A i \in X : \E line \in lines : line.says = events[i].says
    /\ \A line, l \in lines : line.says = l.says => line = l

\* Two ages of lines, or one, make an age of a line.
LEMMA SpanTyped ==
    ASSUME Apart, NEW a \in Lives, NEW b \in Lives, NEW oldest \in BOOLEAN
    PROVE  Span(a, b, oldest) \in Lives
<1>1. a # Failed /\ b # Failed /\ 0 \notin {a, b} BY DEF Lives, Apart
<1>2. CASE b = Never
    <2>1. Span(a, b, oldest) = a BY <1>2 DEF Span
    <2> QED BY <2>1
<1>3. CASE b # Never /\ a = Never
    <2>1. {a, b} \ {Never, 0} = {b} /\ b \in Nat \ {0} BY <1>1, <1>3 DEF Lives
    <2>2. Max({b}) = b /\ Min({b}) = b BY <2>1, MaxIs, MinIs
    <2>3. Span(a, b, oldest) = b BY <1>1, <1>3, <2>1, <2>2 DEF Span
    <2> QED BY <2>3
<1>4. CASE b # Never /\ a # Never
    <2>1. {a, b} \ {Never, 0} = {a, b} /\ {a, b} \subseteq Nat \ {0} BY <1>1, <1>4 DEF Lives
    <2>2. Span(a, b, oldest) = IF oldest THEN Max({a, b}) ELSE Min({a, b}) BY <1>1, <1>4, <2>1 DEF Span
    <2>3. Max({a, b}) \in {a, b}
        <3> DEFINE x == IF a < b THEN b ELSE a
        <3>1. {a, b} \in SUBSET Int /\ x \in {a, b} /\ \A z \in {a, b} : z <= x BY <2>1
        <3> HIDE DEF x
        <3>2. Max({a, b}) = x BY <3>1, MaxIs
        <3> QED BY <3>1, <3>2
    <2>4. Min({a, b}) \in {a, b}
        <3> DEFINE x == IF b < a THEN b ELSE a
        <3>1. {a, b} \in SUBSET Int /\ x \in {a, b} /\ \A z \in {a, b} : x <= z BY <2>1
        <3> HIDE DEF x
        <3>2. Min({a, b}) = x BY <3>1, MinIs
        <3> QED BY <3>1, <3>2
    <2> QED BY <2>2, <2>3, <2>4
<1> QED BY <1>2, <1>3, <1>4

\* An event read, as what can be merged.
Tellable(g, S) == g.says \in S /\ g.count \in Counts /\ g.first \in Lives /\ g.last \in Lives

LEMMA MergedTyped ==
    ASSUME Apart, NEW S, NEW lines \in SUBSET Lines(S), NEW g, Tellable(g, S)
    PROVE  Merged(lines, g) \in SUBSET Lines(S)
<1>1. LineOf(g) \in Lines(S) BY DEF LineOf, Lines, Tellable
<1>2. ASSUME NEW line \in lines PROVE LaterLine(line, g) \in Lines(S)
    <2> DEFINE count == IF g.count = NoCount THEN line.count
                        ELSE (IF line.count = NoCount THEN 0 ELSE line.count) + g.count
               objects == line.objects + 1
               first == Span(line.first, g.first, TRUE)
               last == Span(line.last, g.last, FALSE)
    <2>1. /\ line.says \in S /\ line.objects \in Nat \ {0} /\ line.count \in Counts
          /\ line.first \in Lives /\ line.last \in Lives
        BY DEF Lines
    <2>2. g.count \in Counts /\ g.first \in Lives /\ g.last \in Lives BY DEF Tellable
    <2>3. count \in Counts
        <3>1. CASE g.count = NoCount BY <2>1, <3>1
        <3>2. CASE g.count # NoCount /\ line.count = NoCount
            <4>1. g.count \in Nat \ {0} BY <2>2, <3>2 DEF Counts
            <4>2. count = 0 + g.count BY <3>2
            <4> QED BY <4>1, <4>2 DEF Counts
        <3>3. CASE g.count # NoCount /\ line.count # NoCount
            <4>1. g.count \in Nat \ {0} /\ line.count \in Nat \ {0} BY <2>1, <2>2, <3>3 DEF Counts
            <4>2. count = line.count + g.count BY <3>3
            <4> QED BY <4>1, <4>2 DEF Counts
        <3> QED BY <3>1, <3>2, <3>3
    <2>4. first \in Lives /\ last \in Lives BY <2>1, <2>2, SpanTyped
    <2>5. objects \in Nat \ {0} BY <2>1
    <2>6. LaterLine(line, g) = [says |-> line.says, objects |-> objects, count |-> count, first |-> first, last |-> last]
        BY DEF LaterLine
    <2> HIDE DEF count, first, last, objects
    <2> QED BY <2>1, <2>3, <2>4, <2>5, <2>6 DEF Lines
<1>3. Merged(lines, g) \in SUBSET Lines(S)
    <2>1. CASE \E line \in lines : line.says = g.says
        <3>1. Merged(lines, g) = {IF line.says = g.says THEN LaterLine(line, g) ELSE line : line \in lines}
            BY <2>1 DEF Merged
        <3> QED BY <1>2, <3>1
    <2>2. CASE ~\E line \in lines : line.says = g.says
        <3>1. Merged(lines, g) = lines \cup {LineOf(g)} BY <2>2 DEF Merged, LineOf
        <3> QED BY <1>1, <3>1
    <2> QED BY <2>1, <2>2
<1> QED BY <1>3

\* Merged, one more event is told by the line that says what it says, and no other line
\* is another for it.
LEMMA EventMerged ==
    ASSUME Apart, NEW events, NEW X, NEW S, NEW i, i \notin X, Sound(events[i]), events[i].says \in S,
           NEW elapsed \in Nat \cup {Never}, NEW lines, Merges(lines, events, X, S, LaterBy(elapsed))
    PROVE  Merges(Merged(lines, GetEvent(events[i], elapsed)), events, X \cup {i}, S, LaterBy(elapsed))
<1> DEFINE e == events[i]
           g == GetEvent(e, elapsed)
           d == LaterBy(elapsed)
           Y == X \cup {i}
           more == Merged(lines, g)
<1>1. g.says = e.says /\ g.count \in Counts /\ Spans(g.first, g.last, Ages(e, d)) BY EventTold
<1>2. Tellable(g, S) BY <1>1 DEF Tellable, Spans, Lives
<1>3. /\ lines \in SUBSET Lines(S)
      /\ \A line \in lines : Saying(events, X, line.says) # {} /\ LineTold(line, events, Saying(events, X, line.says), d)
      /\ \A j \in X : \E line \in lines : line.says = events[j].says
      /\ \A line, l \in lines : line.says = l.says => line = l
    BY DEF Merges
<1>4. \A line \in lines : line.says = g.says => LineTold(LaterLine(line, g), events, Saying(events, X, line.says) \cup {i}, d)
    <2> SUFFICES ASSUME NEW line \in lines, line.says = g.says
                 PROVE  LineTold(LaterLine(line, g), events, Saying(events, X, line.says) \cup {i}, d)
        OBVIOUS
    <2> DEFINE Z == Saying(events, X, line.says)
    <2>1. i \notin Z BY DEF Saying
    <2>2. LineTold(line, events, Z, LaterBy(elapsed)) BY <1>3
    <2> HIDE DEF Z
    <2>3. LineTold(LaterLine(line, GetEvent(events[i], elapsed)), events, Z \cup {i}, LaterBy(elapsed)) BY <2>1, <2>2, LineGrows
    <2> QED BY <2>3 DEF Z
<1>5. LineTold(LineOf(g), events, {i}, d) BY LineStarts
<1>6. /\ more \in SUBSET Lines(S)
      /\ \A line \in lines : LaterLine(line, g).says = line.says
      /\ LineOf(g).says = g.says
    <2> HIDE DEF g
    <2>1. lines \in SUBSET Lines(S) BY <1>3
    <2>2. Merged(lines, g) \in SUBSET Lines(S) BY <1>2, <2>1, MergedTyped
    <2> QED BY <2>2 DEF LaterLine, LineOf
<1>7. \A says : Saying(events, Y, says) = IF says = g.says THEN Saying(events, X, says) \cup {i} ELSE Saying(events, X, says)
    BY <1>1 DEF Saying
<1> HIDE DEF g, d, Y, more
<1>8. ASSUME \E line \in lines : line.says = g.says PROVE Merges(more, events, Y, S, d)
    <2> DEFINE New(line) == IF line.says = g.says THEN LaterLine(line, g) ELSE line
    <2>1. more = {New(line) : line \in lines} BY <1>8 DEF Merged, more
    <2>2. \A line \in lines : New(line).says = line.says BY <1>6
    <2>3. ASSUME NEW line \in lines
          PROVE  Saying(events, Y, New(line).says) # {} /\ LineTold(New(line), events, Saying(events, Y, New(line).says), d)
        <3>1. Saying(events, X, line.says) # {} /\ LineTold(line, events, Saying(events, X, line.says), d) BY <1>3
        <3>2. CASE line.says = g.says
            <4>1. Saying(events, Y, line.says) = Saying(events, X, line.says) \cup {i} BY <1>7, <3>2
            <4>2. New(line) = LaterLine(line, g) BY <3>2
            <4> HIDE DEF New
            <4> QED BY <1>4, <2>2, <3>2, <4>1, <4>2
        <3>3. CASE line.says # g.says
            <4>1. Saying(events, Y, line.says) = Saying(events, X, line.says) BY <1>7, <3>3
            <4>2. New(line) = line BY <3>3
            <4> HIDE DEF New
            <4> QED BY <3>1, <4>1, <4>2
        <3> QED BY <3>2, <3>3
    <2>4. \A j \in Y : \E line \in lines : line.says = events[j].says
        <3>1. \A j \in Y : j \in X \/ j = i BY DEF Y
        <3> QED BY <1>1, <1>3, <1>8, <3>1
    <2> HIDE DEF New
    <2>5. \A j \in Y : \E line \in more : line.says = events[j].says BY <2>1, <2>2, <2>4
    <2>6. \A line, l \in more : line.says = l.says => line = l
        <3> SUFFICES ASSUME NEW line \in lines, NEW l \in lines, New(line).says = New(l).says PROVE New(line) = New(l) BY <2>1
        <3>1. line = l BY <1>3, <2>2
        <3> QED BY <3>1
    <2>7. \A line \in more : /\ Saying(events, Y, line.says) # {}
                             /\ LineTold(line, events, Saying(events, Y, line.says), d)
        BY <2>1, <2>3
    <2> QED BY <1>6, <2>5, <2>6, <2>7 DEF Merges
<1>9. ASSUME ~\E line \in lines : line.says = g.says PROVE Merges(more, events, Y, S, d)
    <2> DEFINE new == LineOf(g)
    <2>1. more = lines \cup {new} BY <1>9 DEF Merged, LineOf, more
    <2>2. Saying(events, X, g.says) = {}
        <3>1. \A j \in X : events[j].says # g.says BY <1>3, <1>9
        <3> QED BY <3>1 DEF Saying
    <2>3. Saying(events, Y, new.says) = {i} BY <1>6, <1>7, <2>2
    <2>4. \A line \in lines : Saying(events, Y, line.says) = Saying(events, X, line.says) BY <1>7, <1>9
    <2> HIDE DEF new
    <2>5. \A line \in more : /\ Saying(events, Y, line.says) # {}
                             /\ LineTold(line, events, Saying(events, Y, line.says), d)
        <3>1. LineTold(new, events, {i}, d) BY <1>5 DEF new
        <3> QED BY <1>3, <2>1, <2>3, <2>4, <3>1
    <2>6. new.says = g.says BY <1>6 DEF new
    <2>7. \A j \in Y : \E line \in more : line.says = events[j].says
        <3>1. \A j \in Y : j \in X \/ j = i BY DEF Y
        <3> QED BY <1>1, <1>3, <2>1, <2>6, <3>1
    <2>8. \A line, l \in more : line.says = l.says => line = l BY <1>3, <1>9, <2>1, <2>6
    <2> QED BY <1>6, <2>5, <2>7, <2>8 DEF Merges
<1>10. Merges(more, events, Y, S, d) BY <1>8, <1>9
<1> QED BY <1>10 DEF more, g, d, Y

LEMMA EventTellable ==
    ASSUME Apart, NEW e, Sound(e), NEW S, e.says \in S, NEW elapsed \in Nat \cup {Never}
    PROVE  Tellable(GetEvent(e, elapsed), S)
<1> DEFINE g == GetEvent(e, elapsed)
           d == LaterBy(elapsed)
<1>1. g.says = e.says /\ g.count \in Counts /\ Spans(g.first, g.last, Ages(e, d)) BY EventTold
<1> HIDE DEF g, d
<1>2. Tellable(g, S) BY <1>1 DEF Tellable, Spans, Lives
<1> QED BY <1>2 DEF g

\* One step of the loop over the events of a name.
OneEvent(lines, event, name, kinds, elapsed) ==
    IF event.object = name /\ event.kind \in kinds THEN Merged(lines, GetEvent(event, elapsed)) ELSE lines

\* A list of events, those in W records as the API keeps them.
Listing(events, S, W) ==
    /\ Len(events) \in Nat
    /\ \A j \in W : Sound(events[j]) /\ events[j].says \in S

\* The first n events of a name, of the kinds wanted.
OfName(events, name, kinds, n) == {j \in 1 .. n : events[j].object = name /\ events[j].kind \in kinds}

\* The loop's lines, one event after the other.
NameLines(f, lines, events, S, name, kinds, elapsed) ==
    /\ f \in [0 .. Len(events) -> SUBSET Lines(S)]
    /\ f[0] = lines
    /\ \A i \in 1 .. Len(events) : f[i] = OneEvent(f[i - 1], events[i], name, kinds, elapsed)
    /\ MergedOf(lines, events, name, kinds, elapsed) = f[Len(events)]

LEMMA NameLoop ==
    ASSUME Apart, NEW events, NEW S, NEW W, Listing(events, S, W), NEW elapsed \in Nat \cup {Never},
           NEW lines \in SUBSET Lines(S), NEW name, NEW kinds, OfName(events, name, kinds, Len(events)) \subseteq W
    PROVE  \E f : NameLines(f, lines, events, S, name, kinds, elapsed)
<1> DEFINE D == SUBSET Lines(S)
           n == Len(events)
           Read(x, i) == OneEvent(x, events[i], name, kinds, elapsed)
           Raw(x, i) == IF events[i].object = name /\ events[i].kind \in kinds
                        THEN Merged(x, GetEvent(events[i], elapsed)) ELSE x
           after == CHOOSE after : after = [i \in 0 .. n |->
                       IF i = 0 THEN lines
                       ELSE IF events[i].object = name /\ events[i].kind \in kinds
                            THEN Merged(after[i - 1], GetEvent(events[i], elapsed))
                       ELSE after[i - 1]]
<1>1. MergedOf(lines, events, name, kinds, elapsed) = after[n] BY DEF MergedOf
<1>2. n \in Nat BY DEF Listing
<1>3. \A x, i : Read(x, i) = IF events[i].object = name /\ events[i].kind \in kinds
                             THEN Merged(x, GetEvent(events[i], elapsed)) ELSE x
    BY DEF OneEvent
<1>4. ASSUME NEW x \in D, NEW i \in 1 .. n PROVE Read(x, i) \in D
    <2>1. CASE events[i].object = name /\ events[i].kind \in kinds
        <3> DEFINE g == GetEvent(events[i], elapsed)
        <3>1. i \in OfName(events, name, kinds, Len(events)) BY <2>1 DEF OfName
        <3>2. Sound(events[i]) /\ events[i].says \in S BY <3>1 DEF Listing
        <3>3. Tellable(g, S) BY <3>2, EventTellable
        <3> HIDE DEF g
        <3>4. Merged(x, g) \in D BY <3>3, MergedTyped
        <3> HIDE DEF D, Read
        <3> QED BY <1>3, <2>1, <3>4 DEF g
    <2>2. CASE ~(events[i].object = name /\ events[i].kind \in kinds)
        <3> HIDE DEF D, Read
        <3> QED BY <1>3, <2>2
    <2> QED BY <2>1, <2>2
<1>5. lines \in D OBVIOUS
<1> HIDE DEF D, n
<1> DEFINE Loop(f) == f = [i \in 0 .. n |-> IF i = 0 THEN lines
                       ELSE IF events[i].object = name /\ events[i].kind \in kinds
                            THEN Merged(f[i - 1], GetEvent(events[i], elapsed))
                       ELSE f[i - 1]]
<1> HIDE DEF Read
<1>6. \E f : Loop(f)
    <2> DEFINE step == [p \in D \X (1 .. n) |-> Read(p[1], p[2])]
    <2>1. \A x \in D, i \in 1 .. n : step[<<x, i>>] = Read(x, i) OBVIOUS
    <2> HIDE DEF step
    <2>2. PICK f \in [0 .. n -> D] : IsLoop(f, n, lines, step)
        <3>1. step \in [D \X (1 .. n) -> D] BY <1>4 DEF step
        <3> QED BY <1>2, <1>5, <3>1, LoopExists
    <2>3. \A i \in 0 .. n : i # 0 => i \in 1 .. n /\ f[i - 1] \in D BY <1>2, <2>2
    <2>4. \A i \in 0 .. n : (IF i = 0 THEN lines ELSE step[<<f[i - 1], i>>]) =
                            IF i = 0 THEN lines
                            ELSE IF events[i].object = name /\ events[i].kind \in kinds
                                 THEN Merged(f[i - 1], GetEvent(events[i], elapsed))
                            ELSE f[i - 1]
        BY <1>3, <2>1, <2>3
    <2>5. Loop(f) BY <2>2, <2>4 DEF IsLoop
    <2> HIDE DEF Loop
    <2> QED BY <2>5
<1>7. Loop(after)
    <2> HIDE DEF Loop
    <2>1. after = CHOOSE g : Loop(g) BY DEF Loop
    <2> QED BY <1>6, <2>1
<1>8. /\ after = [i \in 0 .. n |-> after[i]] /\ after[0] = lines
      /\ \A i \in 1 .. n : after[i] = Read(after[i - 1], i)
    <2> HIDE DEF after
    <2>1. 0 \in 0 .. n /\ \A i \in 1 .. n : i \in 0 .. n /\ i # 0 BY <1>2
    <2>2. \A i \in 0 .. n : after[i] = IF i = 0 THEN lines ELSE Read(after[i - 1], i) BY <1>3, <1>7
    <2> QED BY <1>7, <2>1, <2>2
<1> HIDE DEF after, Loop
<1>9. after \in [0 .. n -> D]
    <2> DEFINE G == {i \in 0 .. n : after[i] \in D}
    <2>1. 0 \in G BY <1>2, <1>5, <1>8
    <2>2. ASSUME NEW i \in 1 .. n, i - 1 \in G PROVE i \in G
        <3>1. after[i] \in D BY <1>4, <1>8, <2>2
        <3> QED BY <1>2, <3>1
    <2> HIDE DEF G
    <2>3. 0 .. n \subseteq G BY <1>2, <2>1, <2>2, IntervalClosed
    <2> QED BY <1>8, <2>3 DEF G
<1>10. NameLines(after, lines, events, S, name, kinds, elapsed) BY <1>1, <1>8, <1>9 DEF n, D, Read, NameLines
<1> QED BY <1>10

\* The lines of the events met and of those of one name more.
LEMMA NameMerged ==
    ASSUME Apart, NEW events, NEW S, NEW W, Listing(events, S, W), NEW elapsed \in Nat \cup {Never}, NEW lines, NEW name, NEW kinds,
           OfName(events, name, kinds, Len(events)) \subseteq W,
           NEW X, \A j \in X : events[j].object # name, Merges(lines, events, X, S, LaterBy(elapsed))
    PROVE  Merges(MergedOf(lines, events, name, kinds, elapsed), events,
                  X \cup OfName(events, name, kinds, Len(events)), S, LaterBy(elapsed))
<1> DEFINE n == Len(events)
           d == LaterBy(elapsed)
           more == MergedOf(lines, events, name, kinds, elapsed)
           Y(i) == X \cup OfName(events, name, kinds, i)
<1>1. n \in Nat /\ \A j \in OfName(events, name, kinds, n) : Sound(events[j]) /\ events[j].says \in S BY DEF Listing
<1>2. PICK f : NameLines(f, lines, events, S, name, kinds, elapsed)
    <2>1. lines \in SUBSET Lines(S) BY DEF Merges
    <2> QED BY <2>1, NameLoop
<1>8. /\ f[0] = lines
      /\ \A i \in 1 .. n : f[i] = OneEvent(f[i - 1], events[i], name, kinds, elapsed)
      /\ more = f[n]
    BY <1>2 DEF NameLines
<1> HIDE DEF n, d, more
<1> DEFINE G == {i \in 0 .. n : Merges(f[i], events, Y(i), S, d)}
<1>3. 0 \in G
    <2>1. Y(0) = X BY DEF OfName
    <2> HIDE DEF Y
    <2>2. Merges(f[0], events, Y(0), S, d) BY <1>8, <2>1 DEF d
    <2> QED BY <1>1, <2>2
<1>4. ASSUME NEW i \in 1 .. n, i - 1 \in G PROVE i \in G
    <2>1. Merges(f[i - 1], events, Y(i - 1), S, d) BY <1>4
    <2>2. 1 .. i = (1 .. i - 1) \cup {i} /\ i \notin 1 .. i - 1 BY <1>1
    <2>3. i \in 0 .. n BY <1>1
    <2>4. CASE events[i].object = name /\ events[i].kind \in kinds
        <3>1. Y(i) = Y(i - 1) \cup {i} BY <2>2, <2>4 DEF OfName
        <3>2. i \notin Y(i - 1) BY <2>2, <2>4 DEF OfName
        <3>3. f[i] = Merged(f[i - 1], GetEvent(events[i], elapsed)) BY <1>8, <2>4 DEF OneEvent
        <3>4. Sound(events[i]) /\ events[i].says \in S
            <4>1. i \in OfName(events, name, kinds, n) BY <2>4 DEF OfName
            <4> QED BY <1>1, <4>1
        <3> DEFINE Z == Y(i - 1)
                   was == f[i - 1]
        <3>5. i \notin Z /\ Merges(was, events, Z, S, LaterBy(elapsed)) BY <2>1, <3>2 DEF d
        <3> HIDE DEF Z, was, Y
        <3>6. Merges(Merged(was, GetEvent(events[i], elapsed)), events, Z \cup {i}, S, LaterBy(elapsed))
            BY <3>4, <3>5, EventMerged
        <3>7. Merges(f[i], events, Y(i), S, d) BY <3>1, <3>3, <3>6 DEF Z, was, d
        <3> QED BY <2>3, <3>7
    <2>5. CASE ~(events[i].object = name /\ events[i].kind \in kinds)
        <3>1. Y(i) = Y(i - 1) BY <2>2, <2>5 DEF OfName
        <3>2. f[i] = f[i - 1] BY <1>8, <2>5 DEF OneEvent
        <3> HIDE DEF Y
        <3>3. Merges(f[i], events, Y(i), S, d) BY <2>1, <3>1, <3>2
        <3> QED BY <2>3, <3>3
    <2> QED BY <2>4, <2>5
<1> HIDE DEF G
<1>5. 0 .. n \subseteq G BY <1>1, <1>3, <1>4, IntervalClosed
<1>6. n \in 0 .. n BY <1>1
<1>7. Merges(more, events, Y(n), S, d) BY <1>5, <1>6, <1>8 DEF G
<1> QED BY <1>7 DEF more, n, d

LEMMA NameTyped ==
    ASSUME Apart, NEW events, NEW S, NEW W, Listing(events, S, W), NEW elapsed \in Nat \cup {Never},
           NEW lines \in SUBSET Lines(S), NEW name, NEW kinds, OfName(events, name, kinds, Len(events)) \subseteq W
    PROVE  MergedOf(lines, events, name, kinds, elapsed) \in SUBSET Lines(S)
<1>1. PICK f : NameLines(f, lines, events, S, name, kinds, elapsed) BY NameLoop
<1>2. Len(events) \in 0 .. Len(events) BY DEF Listing
<1> QED BY <1>1, <1>2 DEF NameLines

\* The events of the first n of some names, of the kinds wanted.
OfNames(events, names, kinds, n) ==
    {j \in 1 .. Len(events) : (\E k \in 1 .. n : events[j].object = names[k]) /\ events[j].kind \in kinds}

\* A report's lines tell of the events of its names, each once.
LEMMA AllMerged ==
    ASSUME Apart, NEW events, NEW S, NEW names, NEW kinds,
           Listing(events, S, OfNames(events, names, kinds, Len(names))),
           NEW elapsed \in Nat \cup {Never}, Len(names) \in Nat, \A i, j \in 1 .. Len(names) : names[i] = names[j] => i = j
    PROVE  Merges(EventLines(events, names, kinds, elapsed).lines, events,
                  OfNames(events, names, kinds, Len(names)), S, LaterBy(elapsed))
<1> DEFINE D == SUBSET Lines(S)
           n == Len(names)
           d == LaterBy(elapsed)
           Read(x, i) == MergedOf(x, events, names[i], kinds, elapsed)
           after == CHOOSE after : after = [i \in 0 .. n |->
                       IF i = 0 THEN {} ELSE MergedOf(after[i - 1], events, names[i], kinds, elapsed)]
           Y(i) == OfNames(events, names, kinds, i)
           Loop(f) == f = [i \in 0 .. n |-> IF i = 0 THEN {} ELSE Read(f[i - 1], i)]
           W == OfNames(events, names, kinds, n)
<1>1. EventLines(events, names, kinds, elapsed).lines = after[n] BY DEF EventLines
<1>2. n \in Nat OBVIOUS
<1>0. Listing(events, S, W) /\ \A i \in 1 .. n : OfName(events, names[i], kinds, Len(events)) \subseteq W
    BY DEF OfName, OfNames
<1> HIDE DEF W
<1>3. ASSUME NEW x \in D, NEW i \in 1 .. n PROVE Read(x, i) \in D
    <2> DEFINE name == names[i]
    <2>1. x \in SUBSET Lines(S) /\ OfName(events, name, kinds, Len(events)) \subseteq W BY <1>0
    <2> HIDE DEF name
    <2>2. MergedOf(x, events, name, kinds, elapsed) \in SUBSET Lines(S) BY <1>0, <2>1, NameTyped
    <2> QED BY <2>2 DEF name
<1>4. {} \in D OBVIOUS
<1>5. after = CHOOSE g : Loop(g) OBVIOUS
<1> HIDE DEF D, n, Read, after
<1>6. \E f : Loop(f)
    <2> DEFINE step == [p \in D \X (1 .. n) |-> Read(p[1], p[2])]
    <2>1. \A x \in D, i \in 1 .. n : step[<<x, i>>] = Read(x, i) OBVIOUS
    <2> HIDE DEF step
    <2>2. PICK f \in [0 .. n -> D] : IsLoop(f, n, {}, step)
        <3>1. step \in [D \X (1 .. n) -> D] BY <1>3 DEF step
        <3> QED BY <1>2, <1>4, <3>1, LoopExists
    <2>3. \A i \in 0 .. n : i # 0 => i \in 1 .. n /\ f[i - 1] \in D BY <1>2, <2>2
    <2>4. \A i \in 0 .. n : (IF i = 0 THEN {} ELSE step[<<f[i - 1], i>>]) = IF i = 0 THEN {} ELSE Read(f[i - 1], i)
        BY <2>1, <2>3
    <2>5. Loop(f) BY <2>2, <2>4 DEF IsLoop
    <2> HIDE DEF Loop
    <2> QED BY <2>5
<1>7. Loop(after)
    <2> HIDE DEF Loop
    <2> QED BY <1>5, <1>6
<1>8. after[0] = {} /\ \A i \in 1 .. n : after[i] = Read(after[i - 1], i)
    <2>1. 0 \in 0 .. n /\ \A i \in 1 .. n : i \in 0 .. n /\ i # 0 BY <1>2
    <2>2. \A i \in 0 .. n : after[i] = IF i = 0 THEN {} ELSE Read(after[i - 1], i) BY <1>7
    <2> QED BY <2>1, <2>2
<1> HIDE DEF Loop, d
<1> DEFINE G == {i \in 0 .. n : Merges(after[i], events, Y(i), S, d)}
<1>9. 0 \in G
    <2>1. Y(0) = {} BY DEF OfNames
    <2>2. Merges({}, events, {}, S, d) BY DEF Merges
    <2> HIDE DEF Y
    <2>3. Merges(after[0], events, Y(0), S, d) BY <1>8, <2>1, <2>2
    <2> QED BY <1>2, <2>3
<1>10. ASSUME NEW i \in 1 .. n, i - 1 \in G PROVE i \in G
    <2> DEFINE was == after[i - 1]
               Z == Y(i - 1)
               name == names[i]
               its == OfName(events, name, kinds, Len(events))
    <2>1. Merges(was, events, Z, S, d) BY <1>10
    <2>2. 1 .. i = (1 .. i - 1) \cup {i} /\ i \notin 1 .. i - 1 /\ i \in 0 .. n BY <1>2
    <2>3. \A k \in 1 .. i - 1 : names[k] # name
        <3>1. \A k \in 1 .. i - 1 : k \in 1 .. n /\ k # i BY <1>2
        <3> QED BY <3>1 DEF n
    <2>4. \A j \in Z : events[j].object # name BY <2>3 DEF OfNames
    <2>5. Y(i) = Z \cup its BY <2>2 DEF OfNames, OfName
    <2>6. after[i] = MergedOf(was, events, name, kinds, elapsed) BY <1>8 DEF Read
    <2>10. OfName(events, name, kinds, Len(events)) \subseteq W BY <1>0
    <2> HIDE DEF was, Z, name, its, Y
    <2>7. Merges(was, events, Z, S, LaterBy(elapsed)) BY <2>1 DEF d
    <2>8. Merges(MergedOf(was, events, name, kinds, elapsed), events,
                 Z \cup OfName(events, name, kinds, Len(events)), S, LaterBy(elapsed))
        BY <1>0, <2>4, <2>7, <2>10, NameMerged
    <2>9. Merges(after[i], events, Y(i), S, d) BY <2>5, <2>6, <2>8 DEF its, d
    <2> QED BY <2>2, <2>9
<1> HIDE DEF G
<1>11. 0 .. n \subseteq G BY <1>2, <1>9, <1>10, IntervalClosed
<1>12. n \in 0 .. n BY <1>2
<1>13. Merges(after[n], events, Y(n), S, d) BY <1>11, <1>12 DEF G
<1> QED BY <1>1, <1>13 DEF n, d

\* Lines that tell of all the events wanted, each once, and of no other: how many there
\* are, how often they were seen, and since when.
LinesTell(lines, events, wanted, later) ==
    LET of(line) == {i \in wanted : events[i].says = line.says}
        known(line) == {i \in of(line) : Sightings(events[i]) # NoCount}
        ages(line) == {t + later : t \in UNION {Seen(events[i]) : i \in of(line)}}
    IN  /\ \A i \in wanted : \E line \in lines : {l \in lines : i \in of(l)} = {line}
        /\ \A line \in lines :
            /\ line.objects = Cardinality(of(line)) /\ of(line) # {}
            /\ line.count = IF known(line) = {} THEN NoCount
                            ELSE Cardinality(UNION {{i} \X (1 .. Sightings(events[i])) : i \in known(line)})
            /\ line.first = IF ages(line) = {} THEN Never ELSE Max(ages(line))
            /\ line.last = IF ages(line) = {} THEN Never ELSE Min(ages(line))

\* Of ages, their span is the greatest and the least.
LEMMA SpanOfAges ==
    ASSUME NEW A, NEW first, NEW last, Spans(first, last, A)
    PROVE  /\ first = IF A = {} THEN Never ELSE Max(A)
           /\ last = IF A = {} THEN Never ELSE Min(A)
<1>1. CASE A = {} BY <1>1 DEF Spans
<1>2. CASE A # {}
    <2>1. first \in A /\ last \in A /\ \A t \in A : last <= t /\ t <= first BY <1>2 DEF Spans
    <2>4. A \in SUBSET Int
        <3>1. A \subseteq Nat \ {0} BY DEF Spans
        <3> QED BY <3>1
    <2>2. Max(A) = first BY <2>1, <2>4, MaxIs
    <2>3. Min(A) = last BY <2>1, <2>4, MinIs
    <2> QED BY <1>2, <2>2, <2>3
<1> QED BY <1>1, <1>2

LEMMA MergesTell ==
    ASSUME Apart, NEW lines, NEW events, NEW X, NEW S, NEW d, Merges(lines, events, X, S, d)
    PROVE  /\ LinesTell(lines, events, X, d)
           /\ ~\E line \in lines : Failed \in {line.first, line.last}
<1> DEFINE of(line) == {i \in X : events[i].says = line.says}
           known(line) == {i \in of(line) : Sightings(events[i]) # NoCount}
           ages(line) == {t + d : t \in UNION {Seen(events[i]) : i \in of(line)}}
<1>1. /\ lines \in SUBSET Lines(S)
      /\ \A line \in lines : Saying(events, X, line.says) # {} /\ LineTold(line, events, Saying(events, X, line.says), d)
      /\ \A j \in X : \E line \in lines : line.says = events[j].says
      /\ \A line, l \in lines : line.says = l.says => line = l
    BY DEF Merges
<1>2. ASSUME NEW i \in X PROVE \E line \in lines : {l \in lines : i \in of(l)} = {line}
    <2>1. PICK line \in lines : line.says = events[i].says BY <1>1
    <2>2. \A l \in lines : i \in of(l) <=> l.says = line.says BY <2>1
    <2> HIDE DEF of
    <2>3. \A l \in lines : i \in of(l) <=> l = line BY <1>1, <2>2
    <2> QED BY <2>3
<1>3. ASSUME NEW line \in lines
      PROVE  /\ line.objects = Cardinality(of(line)) /\ of(line) # {}
             /\ line.count = IF known(line) = {} THEN NoCount
                             ELSE Cardinality(UNION {{i} \X (1 .. Sightings(events[i])) : i \in known(line)})
             /\ line.first = IF ages(line) = {} THEN Never ELSE Max(ages(line))
             /\ line.last = IF ages(line) = {} THEN Never ELSE Min(ages(line))
    <2> DEFINE Z == of(line)
    <2>1. Z = Saying(events, X, line.says) BY DEF Saying
    <2>2. Z # {} /\ LineTold(line, events, Z, d) BY <1>1, <2>1
    <2>3. known(line) = Known(events, Z) BY DEF Known
    <2>4. UNION {{i} \X (1 .. Sightings(events[i])) : i \in known(line)} = Units(events, Z) BY DEF Units, Known
    <2>5. ages(line) = UNION {Ages(events[j], d) : j \in Z} BY DEF Ages
    <2> HIDE DEF of, known, ages
    <2>6. Spans(line.first, line.last, ages(line)) BY <2>2, <2>5 DEF LineTold
    <2>7. /\ line.first = IF ages(line) = {} THEN Never ELSE Max(ages(line))
          /\ line.last = IF ages(line) = {} THEN Never ELSE Min(ages(line))
        BY <2>6, SpanOfAges
    <2>8. /\ line.objects = Cardinality(Z)
          /\ line.count = IF Known(events, Z) = {} THEN NoCount ELSE Cardinality(Units(events, Z))
        BY <2>2 DEF LineTold
    <2> QED BY <2>2, <2>3, <2>4, <2>7, <2>8
<1>4. LinesTell(lines, events, X, d) BY <1>2, <1>3 DEF LinesTell
<1>5. ASSUME NEW line \in lines PROVE Failed \notin {line.first, line.last}
    <2>1. line.first \in Lives /\ line.last \in Lives BY <1>1 DEF Lines
    <2> QED BY <2>1 DEF Lives, Apart
<1> QED BY <1>4, <1>5

\* A report's lines tell of all the events of its names, of the kinds wanted.
LEMMA EventsTold ==
    ASSUME Apart, NEW events, NEW names, NEW kinds, NEW elapsed \in Nat \cup {Never},
           Len(events) \in Nat, Len(names) \in Nat, \A i, j \in 1 .. Len(names) : names[i] = names[j] => i = j,
           \A j \in OfNames(events, names, kinds, Len(names)) : Sound(events[j])
    PROVE  LET r == EventLines(events, names, kinds, elapsed) IN
           /\ ~r.failed
           /\ LinesTell(r.lines, events, OfNames(events, names, kinds, Len(names)), LaterBy(elapsed))
<1> DEFINE X == OfNames(events, names, kinds, Len(names))
           S == {events[j].says : j \in X}
           r == EventLines(events, names, kinds, elapsed)
           d == LaterBy(elapsed)
<1>1. Listing(events, S, X) BY DEF Listing
<1>2. Merges(r.lines, events, X, S, d)
    <2> HIDE DEF S
    <2> QED BY <1>1, AllMerged
<1>3. r.failed = \E line \in r.lines : Failed \in {line.first, line.last} BY DEF EventLines
<1> HIDE DEF X, S, r, d
<1>4. ~r.failed /\ LinesTell(r.lines, events, X, d)
    <2> DEFINE lines == r.lines
    <2>1. Merges(lines, events, X, S, d) BY <1>2
    <2> HIDE DEF lines
    <2>2. LinesTell(lines, events, X, d) /\ ~\E line \in lines : Failed \in {line.first, line.last} BY <2>1, MergesTell
    <2> QED BY <1>3, <2>2 DEF lines
<1> QED BY <1>4 DEF X, r, d
=============================================================================
