------------------------------- MODULE Events -------------------------------
(***************************************************************************)
(* Events: how a record of either events API becomes an EventSummary       *)
(* (k8s_tools.py), what a capture keeps of it and replays (capture.py,     *)
(* mock_state.py), and the lines workload_report merges them into          *)
(* (composites.py).  Times are ages, as of the call or the capture.        *)
(*                                                                         *)
(* A record is [object, kind, says, count, first, last, seriesCount,       *)
(* seriesLast, time]: what it is of, the type, reason and message but for  *)
(* the object's name, the core/v1 fields, and those of events.k8s.io.      *)
(***************************************************************************)
EXTENDS Lists, FiniteSets, FiniteSetsExt

CONSTANTS
    NoCount,    \* an event without a count
    Never,      \* a time not recorded
    Failed      \* the exception of a report of events

\* The times a record says its event was seen at, and how often it was, if it tells.
Seen(e) == {e.first, e.last, e.seriesLast, e.time} \ {Never}
Sightings(e) ==
    IF e.count # NoCount THEN e.count
    ELSE IF e.seriesCount # NoCount THEN e.seriesCount
    ELSE IF e.time # Never THEN 1 ELSE NoCount

OrElse(a, b) == IF a # Never THEN a ELSE b

\* A bug to catch: the deprecated fields, then eventTime, without the series.
EventSummaryWithoutSeries(e) ==
    [object |-> e.object, kind |-> e.kind, says |-> e.says,
     last |-> OrElse(e.last, e.time), first |-> OrElse(e.first, e.time),
     count |-> IF e.count \notin {NoCount, 0} THEN e.count ELSE IF e.time # Never THEN 1 ELSE NoCount]

\* _event_summary.
EventSummary(e) ==
    [object |-> e.object, kind |-> e.kind, says |-> e.says,
     last |-> OrElse(e.last, OrElse(e.seriesLast, e.time)),
     first |-> OrElse(e.first, e.time),
     count |-> IF e.count \notin {NoCount, 0} THEN e.count
               ELSE IF e.seriesCount \notin {NoCount, 0} THEN e.seriesCount
               ELSE IF e.time # Never THEN 1 ELSE NoCount]

\* _capture_events: an age of zero is recorded as none.
EventRecord(s) ==
    [s EXCEPT !.last = IF @ = 0 THEN Never ELSE @, !.first = IF @ = 0 THEN Never ELSE @]

\* MockState._event_summary, after the replay ran on.
ReplayedEvent(r, elapsed) ==
    LET aged(t) == IF t = Never THEN Never ELSE t + elapsed IN
    [r EXCEPT !.last = aged(@), !.first = aged(@)]

\* An event get_events gives of a record: live, or replayed if elapsed # Never.
GetEvent(e, elapsed) ==
    IF elapsed = Never THEN EventSummary(e) ELSE ReplayedEvent(EventRecord(EventSummary(e)), elapsed)

-----------------------------------------------------------------------------
(* The report's lines.                                                     *)

\* The ages max and min choose from, filter(None, ...): zero counts as none, and
\* with neither left the report fails, and has failed from then on.
Span(mine, its, oldest) ==
    LET known == {mine, its} \ {Never, 0} IN
    IF mine = Failed \/ its = Never THEN mine
    ELSE IF known = {} THEN Failed
    ELSE IF oldest THEN Max(known) ELSE Min(known)

\* A bug to catch: a merged line keeps the ages of the first event met.
LaterLineAsMet(line, e) ==
    [line EXCEPT !.objects = @ + 1,
                 !.count = IF e.count = NoCount THEN @
                           ELSE (IF @ = NoCount THEN 0 ELSE @) + e.count]

LaterLine(line, e) ==
    [says |-> line.says,
     objects |-> line.objects + 1,
     count |-> IF e.count = NoCount THEN line.count
               ELSE (IF line.count = NoCount THEN 0 ELSE line.count) + e.count,
     first |-> Span(line.first, e.first, TRUE),
     last |-> Span(line.last, e.last, FALSE)]

\* One more event: the first of what it says starts a line.
Merged(lines, e) ==
    IF \E line \in lines : line.says = e.says
    THEN {IF line.says = e.says THEN LaterLine(line, e) ELSE line : line \in lines}
    ELSE lines \cup {[says |-> e.says, objects |-> 1, count |-> e.count, first |-> e.first, last |-> e.last]}

\* The events of one name, of the kinds wanted.
MergedOf(lines, events, name, kinds, elapsed) ==
    LET after[i \in 0 .. Len(events)] ==
            IF i = 0 THEN lines
            ELSE IF events[i].object = name /\ events[i].kind \in kinds
                 THEN Merged(after[i - 1], GetEvent(events[i], elapsed))
            ELSE after[i - 1]
    IN  after[Len(events)]

\* _events, before the cut to the newest: one line for each thing said of the
\* named objects, and whether that failed.
EventLines(events, names, kinds, elapsed) ==
    LET after[i \in 0 .. Len(names)] ==
            IF i = 0 THEN {} ELSE MergedOf(after[i - 1], events, names[i], kinds, elapsed)
        lines == after[Len(names)]
    IN  [lines |-> lines, failed |-> \E line \in lines : Failed \in {line.first, line.last}]
=============================================================================
