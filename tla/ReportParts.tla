---------------------------- MODULE ReportParts ----------------------------
(***************************************************************************)
(* The logs workload_report shows (composites.py): those of a workload's   *)
(* pods, within one budget of lines.                                       *)
(*                                                                         *)
(* A pod is [name, containers], its containers a sequence of               *)
(* [name, restarts, current, previous], the last two what a tail reads: a  *)
(* number of lines, or Unread.                                             *)
(***************************************************************************)
EXTENDS Integers, Sequences, FiniteSets, FiniteSetsExt, SequencesExt

CONSTANTS
    MaxLogLines,     \* _MAX_LOG_LINES
    MaxGrepPods,     \* _MAX_GREP_PODS
    OtherLogPods,    \* _OTHER_LOG_PODS
    OtherLogLines,   \* _OTHER_LOG_LINES
    Unread           \* a log that can't be read: no such instance

Least(a, b) == IF a < b THEN a ELSE b

\* The instances whose logs are wanted, in order: [container, lines].
Instances(pod, previousToo) ==
    LET of(i) ==
            LET c == pod.containers[i] IN
            <<[container |-> c.name, lines |-> c.current]>>
            \o (IF previousToo /\ c.restarts > 0
                THEN <<[container |-> c.name, lines |-> c.previous]>> ELSE <<>>)
    IN  FlattenSeq([i \in DOMAIN pod.containers |-> of(i)])

\* A bug to catch: each of the other pods has the whole budget.
TailReadUnshared(s, instance, name, want, isFocus, grep) ==
    IF want <= 0 /\ ~grep THEN [s EXCEPT !.over = TRUE]
    ELSE IF instance.lines = Unread THEN s
    ELSE [s EXCEPT !.budget = @ - Least(want, instance.lines),
                   !.logs = Append(@, [pod |-> name, container |-> instance.container,
                                       lines |-> Least(want, instance.lines)])]

\* The tail of one instance, if there are lines left; a grep goes on, for the
\* counts, and shows none.
TailRead(s, instance, name, want, isFocus, grep) ==
    LET room == IF isFocus THEN want ELSE Least(want, s.budget)
        shown == Least(IF room > 0 THEN room ELSE 0, instance.lines) IN
    IF s.over \/ (room <= 0 /\ ~grep) THEN [s EXCEPT !.over = TRUE]
    ELSE IF instance.lines = Unread THEN s
    ELSE [s EXCEPT !.budget = @ - shown,
                   !.logs = Append(@, [pod |-> name, container |-> instance.container, lines |-> shown])]

\* _logs.read: the tails of one pod.
ReadLogs(state, pod, previousToo, want, isFocus, grep) ==
    LET wanted == Instances(pod, previousToo)
        after[i \in 0 .. Len(wanted)] ==
            IF i = 0 THEN [state EXCEPT !.over = FALSE]
            ELSE TailRead(after[i - 1], wanted[i], pod.name, want, isFocus, grep)
    IN  [after[Len(wanted)] EXCEPT !.tried = @ \cup {pod.name}]

\* Those of a pod other than the focus.
ReadOther(s, pod, lines, grep) ==
    IF grep THEN ReadLogs(s, pod, TRUE, lines, FALSE, TRUE)
    ELSE IF s.budget <= 0 THEN s
    ELSE ReadLogs(s, pod, FALSE, Least(lines, OtherLogLines), FALSE, FALSE)

\* _logs: the focus pod's, then the others' in order of their names, and the pods
\* named in the note of those left out.
Logs(focus, others, lines, grep) ==
    LET none == [budget |-> MaxLogLines, logs |-> <<>>, tried |-> {}, over |-> FALSE]
        most == Least(IF grep THEN MaxGrepPods - 1 ELSE OtherLogPods, Len(others))
        after[i \in 0 .. most] ==
            IF i = 0 THEN ReadLogs(none, focus, TRUE, lines, TRUE, grep)
            ELSE ReadOther(after[i - 1], others[i], lines, grep)
    IN  [logs |-> after[most].logs, skipped |-> {p.name : p \in Range(others)} \ after[most].tried]
=============================================================================
