---------------------------- MODULE ReplayClock -----------------------------
(***************************************************************************)
(* The clock a replay ages its resources by (mock_state._Clock), under     *)
(* queries that run on one thread or on several.  Every public method of   *)
(* MockState is a query: it pins the elapsed time on entry, ages every     *)
(* field of its result by elapsed(), and unpins on the way out; a query    *)
(* may call another.  The composite tools are reports: they take the wall  *)
(* clock first, then run several queries (composites.py).                  *)
(*                                                                         *)
(* A thread can be switched out between any two reads or writes of the     *)
(* shared `pinned', so each is a step.  `given', `latest' and `overlapped' *)
(* are history: the elapsed times a call's ages were computed with, and    *)
(* whether another thread's call was under way during it.                  *)
(***************************************************************************)
EXTENDS Naturals, FiniteSets

CONSTANTS
    Threads,
    MaxNow,      \* bound: ticks of the wall clock since the server started
    MaxDepth,    \* bound: queries nested in one another
    None

TicksPerSecond == 2

ASSUME ClockAssumption ==
    /\ MaxNow \in Nat /\ MaxDepth \in Nat \ {0}
    /\ None \notin Nat

VARIABLES
    frozen,      \* --state-time frozen, for good
    now,         \* the wall clock, in ticks since server_start_time
    pinned,      \* _Clock._pinned
    pc,          \* per thread: where its call is
    depth,       \* per thread: queries it is in
    owns,        \* per thread: the depths whose query set the pin
    sample,      \* per thread: the value _sample returned, not stored yet
    report,      \* per thread: the wall clock its report took, or None
    given,       \* per thread: the elapsed times its latest call used
    latest,      \* per thread: the last elapsed time it was given
    overlapped   \* the threads whose latest call overlapped another's

vars == <<frozen, now, pinned, pc, depth, owns, sample, report, given, latest, overlapped>>
shared == <<frozen, now, pinned>>

\* _sample: whole seconds.
Elapsed == now \div TicksPerSecond

Init ==
    /\ frozen \in BOOLEAN
    /\ now = 0 /\ pinned = None
    /\ pc = [t \in Threads |-> "idle"]
    /\ depth = [t \in Threads |-> 0]
    /\ owns = [t \in Threads |-> {}]
    /\ sample = [t \in Threads |-> None]
    /\ report = [t \in Threads |-> None]
    /\ given = [t \in Threads |-> {}]
    /\ latest = [t \in Threads |-> 0]
    /\ overlapped = {}

Goto(t, label) == pc' = [pc EXCEPT ![t] = label]

Tick ==
    /\ now < MaxNow
    /\ now' = now + 1
    /\ UNCHANGED <<frozen, pinned, pc, depth, owns, sample, report, given, latest, overlapped>>

Running == {t \in Threads : pc[t] # "idle"}

\* t's call begins, alone or among others.
Overlap(t) ==
    overlapped' = IF Running = {} THEN overlapped \ {t} ELSE overlapped \cup Running \cup {t}

\* A tool is called: one that answers from a query, or a composite, which
\* reads the wall clock (_now) first.
BeginQuery(t) ==
    /\ pc[t] = "idle"
    /\ Goto(t, "entering")
    /\ report' = [report EXCEPT ![t] = None]
    /\ given' = [given EXCEPT ![t] = {}]
    /\ Overlap(t)
    /\ UNCHANGED <<shared, depth, owns, sample, latest>>

BeginReport(t) ==
    /\ pc[t] = "idle"
    /\ Goto(t, "reporting")
    /\ report' = [report EXCEPT ![t] = Elapsed]
    /\ given' = [given EXCEPT ![t] = {}]
    /\ Overlap(t)
    /\ UNCHANGED <<shared, depth, owns, sample, latest>>

\* A report runs its next query, a query calls another.
CallQuery(t) ==
    /\ pc[t] = "reporting" \/ (pc[t] = "body" /\ depth[t] < MaxDepth)
    /\ Goto(t, "entering")
    /\ UNCHANGED <<shared, depth, owns, sample, report, given, latest, overlapped>>

\* pinned(): nothing to do when frozen or already pinned ...
EnterPinned(t) ==
    /\ pc[t] = "entering"
    /\ frozen \/ pinned # None
    /\ depth' = [depth EXCEPT ![t] = @ + 1]
    /\ Goto(t, "body")
    /\ UNCHANGED <<shared, owns, sample, report, given, latest, overlapped>>

\* A bug to catch: storing without sampling.
EnterUnsampled(t) ==
    /\ pc[t] = "entering"
    /\ ~frozen /\ pinned = None
    /\ Goto(t, "storing")
    /\ UNCHANGED <<shared, depth, owns, sample, report, given, latest, overlapped>>

\* ... and otherwise sample, then store.
EnterUnpinned(t) ==
    /\ pc[t] = "entering"
    /\ ~frozen /\ pinned = None
    /\ Goto(t, "sampling")
    /\ UNCHANGED <<shared, depth, owns, sample, report, given, latest, overlapped>>

Sample(t) ==
    /\ pc[t] = "sampling"
    /\ sample' = [sample EXCEPT ![t] = Elapsed]
    /\ Goto(t, "storing")
    /\ UNCHANGED <<shared, depth, owns, report, given, latest, overlapped>>

\* A bug to catch: the query doesn't know that the pin is its own.
StoreUnowned(t) ==
    /\ pc[t] = "storing"
    /\ pinned' = sample[t]
    /\ sample' = [sample EXCEPT ![t] = None]
    /\ depth' = [depth EXCEPT ![t] = @ + 1]
    /\ Goto(t, "body")
    /\ UNCHANGED <<frozen, now, owns, report, given, latest, overlapped>>

Store(t) ==
    /\ pc[t] = "storing"
    /\ pinned' = sample[t]
    /\ sample' = [sample EXCEPT ![t] = None]
    /\ depth' = [depth EXCEPT ![t] = @ + 1]
    /\ owns' = [owns EXCEPT ![t] = @ \cup {depth[t] + 1}]
    /\ Goto(t, "body")
    /\ UNCHANGED <<frozen, now, report, given, latest, overlapped>>

Give(t, elapsed) ==
    /\ given' = [given EXCEPT ![t] = @ \cup {elapsed}]
    /\ latest' = [latest EXCEPT ![t] = elapsed]

\* Two bugs to catch: ageing by nothing, frozen or not, and by the wall clock,
\* frozen or not.
AgeNothing(t) ==
    /\ pc[t] = "body"
    /\ Give(t, 0)
    /\ UNCHANGED <<shared, pc, depth, owns, sample, report, overlapped>>

\* elapsed(), called by age(): it looks whether there is a pin, then reads it
\* again, or samples the clock itself.
AgeFrozen(t) ==
    /\ pc[t] = "body" /\ frozen
    /\ Give(t, 0)
    /\ UNCHANGED <<shared, pc, depth, owns, sample, report, overlapped>>

AgeLook(t) ==
    /\ pc[t] = "body" /\ ~frozen
    /\ Goto(t, IF pinned # None THEN "reading" ELSE "fresh")
    /\ UNCHANGED <<shared, depth, owns, sample, report, given, latest, overlapped>>

AgeFresh(t) ==
    /\ pc[t] = "fresh"
    /\ Give(t, Elapsed)
    /\ Goto(t, "body")
    /\ UNCHANGED <<shared, depth, owns, sample, report, overlapped>>

AgeRead(t) ==
    /\ pc[t] = "reading" /\ pinned # None
    /\ Give(t, pinned)
    /\ Goto(t, "body")
    /\ UNCHANGED <<shared, depth, owns, sample, report, overlapped>>

\* Unpinned in between: elapsed() returns None, which age() can't add.
AgeLost(t) ==
    /\ pc[t] = "reading" /\ pinned = None
    /\ Goto(t, "raising")
    /\ UNCHANGED <<shared, depth, owns, sample, report, given, latest, overlapped>>

\* A bug to catch: a nested query clears its caller's pin.
LeaveClearing(t) ==
    /\ pc[t] \in {"body", "raising"}
    /\ pinned' = None
    /\ owns' = [owns EXCEPT ![t] = @ \ {depth[t]}]
    /\ depth' = [depth EXCEPT ![t] = @ - 1]
    /\ Goto(t, IF depth[t] > 1 THEN pc[t]
               ELSE IF report[t] = None \/ pc[t] = "raising" THEN "idle" ELSE "reporting")
    /\ UNCHANGED <<frozen, now, sample, report, given, latest, overlapped>>

\* A query returns or raises: the one that set the pin clears it.
Leave(t) ==
    /\ pc[t] \in {"body", "raising"}
    /\ pinned' = IF depth[t] \in owns[t] THEN None ELSE pinned
    /\ owns' = [owns EXCEPT ![t] = @ \ {depth[t]}]
    /\ depth' = [depth EXCEPT ![t] = @ - 1]
    /\ Goto(t, IF depth[t] > 1 THEN pc[t]
               ELSE IF report[t] = None \/ pc[t] = "raising" THEN "idle" ELSE "reporting")
    /\ UNCHANGED <<frozen, now, sample, report, given, latest, overlapped>>

EndReport(t) ==
    /\ pc[t] = "reporting"
    /\ Goto(t, "idle")
    /\ UNCHANGED <<shared, depth, owns, sample, report, given, latest, overlapped>>

Step(t) ==
    \/ BeginQuery(t) \/ BeginReport(t) \/ CallQuery(t)
    \/ EnterPinned(t) \/ EnterUnpinned(t) \/ Sample(t) \/ Store(t)
    \/ AgeFrozen(t) \/ AgeLook(t) \/ AgeFresh(t) \/ AgeRead(t) \/ AgeLost(t)
    \/ Leave(t) \/ EndReport(t)

Next == Tick \/ \E t \in Threads : Step(t)

Spec == Init /\ [][Next]_vars

-----------------------------------------------------------------------------
(* Properties.                                                             *)

Labels == {"idle", "entering", "sampling", "storing", "body", "fresh", "reading",
           "raising", "reporting"}

TypeOK ==
    /\ frozen \in BOOLEAN /\ now \in 0 .. MaxNow
    /\ pinned \in Nat \cup {None}
    /\ pc \in [Threads -> Labels]
    /\ depth \in [Threads -> Nat]
    /\ owns \in [Threads -> SUBSET Nat]
    /\ sample \in [Threads -> Nat \cup {None}]
    /\ report \in [Threads -> Nat \cup {None}]
    /\ given \in [Threads -> SUBSET Nat]
    /\ latest \in [Threads -> Nat]
    /\ overlapped \subseteq Threads
    /\ \A t \in Threads :
           /\ pc[t] = "storing" => sample[t] # None
           /\ pc[t] \in {"body", "fresh", "reading", "raising"} => depth[t] > 0

\* Every field of the query's result is aged by the same elapsed time.
Consistent(t) == report[t] = None => Cardinality(given[t]) <= 1

\* A query that no other thread's call overlaps is consistent with itself,
\* whatever overlapped before it: nothing an earlier interleaving did to the pin
\* lasts.
LoneConsistent == \A t \in Threads : t \notin overlapped => Consistent(t)

\* The pin never outlives the queries: once every call has returned, however
\* the threads interleaved and whatever they raised, the next query samples
\* the clock afresh.
PinReleased == (\A t \in Threads : depth[t] = 0) => pinned = None

\* A call that no other overlaps is never told of an earlier time than its
\* thread's last call was, nor does it go back itself, from query to query.
LoneAdvance == [][\A t \in Threads : t \in overlapped' \/ latest'[t] >= latest[t]]_vars

-----------------------------------------------------------------------------
(* What the documentation says and the code doesn't do.                    *)

\* Frozen: a report's own ages are pinned at their captured values too.
FrozenReportStill == frozen => \A t \in Threads : report[t] \in {None, 0}
=============================================================================
