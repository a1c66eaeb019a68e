----------------------------- MODULE LogSummary -----------------------------
(***************************************************************************)
(* get_log_pattern_summary over the text of a log (k8s_tools._summarize_log *)
(* and _buckets), and the note on where a log starts (_log_extent_note).   *)
(* A line is [time, hit]: the kubelet's timestamp, or NoTime, and whether  *)
(* it matches the pattern.                                                 *)
(***************************************************************************)
EXTENDS Buckets, Lists, FiniteSets

CONSTANTS
    NoTime,       \* a line without a timestamp, or a time that isn't known
    MaxTail,      \* the lines a read gives unless told otherwise: 1000
    MaxSamples    \* _LOG_MAX_SAMPLES: 100

LogLines == [time : Nat \cup {NoTime}, hit : BOOLEAN]

\* The time a line belongs to: its own, or that of the last line that has one.
TimeOf(log, i) ==
    LET stamped == {j \in 1 .. i : log[j].time # NoTime} IN
    IF stamped = {} THEN NoTime ELSE log[Max(stamped)].time

Hits(log) == {i \in DOMAIN log : log[i].hit}
Stamped(log) == {i \in DOMAIN log : log[i].time # NoTime}
FirstLine(log) == IF Stamped(log) = {} THEN NoTime ELSE log[Min(Stamped(log))].time
LastLine(log) == IF Stamped(log) = {} THEN NoTime ELSE log[Max(Stamped(log))].time

\* No line is of before the one before it.
InOrder(log) == \A i, j \in Stamped(log) : i < j => log[i].time <= log[j].time

FirstMatch(log) ==
    LET timed == {i \in Hits(log) : TimeOf(log, i) # NoTime} IN
    IF timed = {} THEN NoTime ELSE TimeOf(log, Min(timed))

-----------------------------------------------------------------------------
(* Samples.                                                                *)

\* round() to the even neighbour of a half, of a / b.
Rounded(a, b) ==
    LET q == a \div b
        r == 2 * (a % b) IN
    IF r < b \/ (r = b /\ q % 2 = 0) THEN q ELSE q + 1

\* A bug to catch: steps of n / k, which miss the last index.
SpreadShort(n, k) ==
    IF k <= 0 \/ n = 0 THEN {}
    ELSE IF n <= k THEN 0 .. n - 1
    ELSE {Rounded(i * n, k) : i \in 0 .. k - 1}

\* _spread: k of n indices, the first, the last and evenly between.
Spread(n, k) ==
    IF k <= 0 \/ n = 0 THEN {}
    ELSE IF n <= k THEN 0 .. n - 1
    ELSE IF k = 1 THEN {0}
    ELSE {Rounded(i * (n - 1), k - 1) : i \in 0 .. k - 1}

\* max_samples, within 0 and the limit.
Clamped(n) == IF n < 0 THEN 0 ELSE IF n > MaxSamples THEN MaxSamples ELSE n

-----------------------------------------------------------------------------
(* Buckets.  A row is [from, to, hits, lines], over times from <= t < to.  *)

\* Where the first bucket starts, at a multiple of the width.
Origin(log, w) == (FirstLine(log) \div w) * w

\* The bucket of line i; lines before the first timestamp fall in the first.
BucketOf(log, i, w) ==
    IF TimeOf(log, i) = NoTime THEN 0 ELSE (TimeOf(log, i) - Origin(log, w)) \div w

\* The lines of the buckets from b to before end.
LinesOf(log, w, b, end) == {i \in DOMAIN log : b <= BucketOf(log, i, w) /\ BucketOf(log, i, w) < end}

\* A bug to catch: an empty bucket starts a row even after an empty one's run.
RowStartsAll(hitsIn, n) == {b \in 0 .. n - 1 : b = 0 \/ hitsIn[b] = 0 \/ hitsIn[b - 1] > 0}

\* Buckets without a match are joined: a row starts at a bucket with matches or
\* after one.
RowStarts(hitsIn, n) == {b \in 0 .. n - 1 : b = 0 \/ hitsIn[b] > 0 \/ hitsIn[b - 1] > 0}

RowEnd(starts, n, b) == Min({s \in starts : s > b} \cup {n})

Rows(log, w) ==
    LET n == BucketCount(FirstLine(log), LastLine(log), w)
        starts == RowStarts([b \in 0 .. n - 1 |-> Cardinality(LinesOf(log, w, b, b + 1) \cap Hits(log))], n)
        row(b, end) ==
            [from |-> Origin(log, w) + b * w, to |-> Origin(log, w) + end * w,
             hits |-> Cardinality(LinesOf(log, w, b, end) \cap Hits(log)),
             lines |-> Cardinality(LinesOf(log, w, b, end))]
    IN  {row(b, RowEnd(starts, n, b)) : b \in starts}

-----------------------------------------------------------------------------
(* What is said of the lines before the first.                             *)

\* A bug to catch: the capture's first line taken for the log's.
ExtentNoteOfRecorded(shown, recorded, began) ==
    IF shown = NoTime THEN {}
    ELSE IF recorded # NoTime /\ recorded < shown THEN {"older"}
    ELSE IF began # NoTime /\ began < shown THEN {"unrecorded"} ELSE {}

\* The note on lines left out, by what it says is missing.  shown and recorded
\* are the first times of the lines shown and of those recorded, began where
\* the log began (NoTime: not recorded).
ExtentNote(shown, recorded, began) ==
    LET earlier == began # NoTime /\ began < (IF recorded # NoTime THEN recorded ELSE shown) IN
    IF shown = NoTime THEN {}
    ELSE (IF recorded # NoTime /\ recorded < shown THEN {"older"} ELSE {})
         \cup (IF earlier THEN {"unrecorded"} ELSE {})

\* The recorded log as replay moves it (_reanchor_log).
Moved(log, shift) == [i \in DOMAIN log |-> IF log[i].time = NoTime THEN log[i]
                                           ELSE [log[i] EXCEPT !.time = @ + shift]]

\* A bug to catch: since_seconds counted back from the capture's time.
SinceCapture(log, in) ==
    IF in.since = NoTime \/ Stamped(log) = {} THEN log
    ELSE Those(log, {l \in Range(log) : l.time = NoTime \/ l.time >= in.elapsed - in.since})

\* _slice_log's since_seconds: lines without a timestamp stay, and so do all if
\* none has one.
Since(log, in) ==
    IF in.since = NoTime \/ Stamped(log) = {} THEN log
    ELSE Those(log, {l \in Range(log) : l.time = NoTime \/ l.time >= in.shift + in.elapsed - in.since})

\* Its tail.
LastLines(log, tail) ==
    LET n == IF tail = NoTime THEN MaxTail ELSE tail IN
    SubSeq(log, IF Len(log) > n THEN Len(log) - n + 1 ELSE 1, Len(log))

\* get_logs_for_pod_and_container, replayed.  The capture was taken at time 0;
\* in is [log, began, shift, elapsed, tail, since].
ReplayedRead(in) ==
    LET whole == Moved(in.log, in.shift)
        recent == Since(whole, in)
        text == LastLines(recent, in.tail)
        began == IF in.began = NoTime THEN NoTime ELSE in.began + in.shift
        noted == Len(text) < Len(recent) \/ in.since = NoTime IN
    [text |-> text, note |-> IF noted THEN ExtentNote(FirstLine(text), FirstLine(whole), began) ELSE {}]

\* _summarize_log's notes.  known is FALSE for a capture that didn't record
\* where the log began; started is the instance's start.
SummaryNotes(log, began, known, started) ==
    LET cut == began # NoTime /\ FirstLine(log) # NoTime /\ began < FirstLine(log)
        from == IF cut THEN began ELSE IF known THEN FirstLine(log) ELSE NoTime IN
    {n \in {"cut", "extent unknown", "starts late", "no times"} :
        CASE n = "cut" -> cut
          [] n = "extent unknown" -> ~cut /\ ~known /\ log # <<>>
          [] n = "starts late" -> from # NoTime /\ started # NoTime /\ from - started > 60
          [] n = "no times" -> log # <<>> /\ FirstLine(log) = NoTime}

Summary(in) ==
    LET first == FirstLine(in.log)
        last == LastLine(in.log)
        w == Width(first, last, in.asked) IN
    [matches |-> Cardinality(Hits(in.log)),
     firstMatch |-> FirstMatch(in.log),
     samples |-> Spread(Cardinality(Hits(in.log)), Clamped(in.samples)),
     rows |-> IF first = NoTime THEN {} ELSE Rows(in.log, w),
     notes |-> SummaryNotes(in.log, in.began, in.known, in.started)]
=============================================================================
