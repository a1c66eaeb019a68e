------------------------------ MODULE Buckets -------------------------------
(***************************************************************************)
(* The width of get_log_pattern_summary's time buckets: the one asked for, *)
(* unless it makes more than LOG_MAX_BUCKETS of them (k8s_tools._buckets). *)
(* Times are seconds since the epoch.                                      *)
(***************************************************************************)
EXTENDS Integers

CONSTANTS
    MaxBuckets,   \* LOG_MAX_BUCKETS
    Widths,       \* _BUCKET_WIDTHS
    Day           \* 86400, the unit of widths past the table

\* The table's widths are shorter than a day, or a day; a day has more seconds
\* than the limit has buckets.
ASSUME BucketsAssumption ==
    /\ MaxBuckets \in Nat /\ MaxBuckets > 2
    /\ Widths \subseteq Nat \ {0}
    /\ Day \in Nat /\ Day >= MaxBuckets

BucketCount(start, end, w) == end \div w - start \div w + 1

\* w >= (end - start) / (MaxBuckets - 2), without the fraction.
WideEnough(start, end, w) == w * (MaxBuckets - 2) >= end - start

\* The widths of the table that will do, and the narrowest of them.
Usable(start, end, asked) == {w \in Widths : w >= asked /\ WideEnough(start, end, w)}
Narrowest(S) == CHOOSE w \in S : \A v \in S : w <= v

\* Whole days: int(needed), rounded up.
DayWidth(start, end) ==
    LET needed == (end - start) \div (MaxBuckets - 2) IN Day * ((needed + Day - 1) \div Day)

\* A bug to catch: room for MaxBuckets whole widths, not for the two cut ones.
WidthTooTight(start, end, asked) ==
    IF BucketCount(start, end, asked) <= MaxBuckets THEN asked
    ELSE LET wide == {w \in Widths : w >= asked /\ w * MaxBuckets >= end - start} IN
         IF wide # {} THEN Narrowest(wide) ELSE DayWidth(start, end)

Width(start, end, asked) ==
    IF BucketCount(start, end, asked) <= MaxBuckets THEN asked
    ELSE LET wide == Usable(start, end, asked) IN
         IF wide # {} THEN Narrowest(wide) ELSE DayWidth(start, end)
=============================================================================
