------------------------------- MODULE Import -------------------------------
(***************************************************************************)
(* What an import reads of an ITBench snapshot (itbench.py): one pull of   *)
(* its objects, the events there were at that time, and its containers'    *)
(* logs.  Times are seconds, 0 being Go's zero time.                       *)
(*                                                                         *)
(* An object record is [time, kind].  A watch record of an event is        *)
(* [time, type, core, state, last]: whether it is of the core API, and     *)
(* when the event last occurred.  A log record is [time, pod, service,     *)
(* says].  A pod is [name, containers, status]: its containers' names, and *)
(* for those that have one, [state, started, last], of which last is when  *)
(* the instance before was started.                                        *)
(***************************************************************************)
EXTENDS Integers, Sequences, FiniteSets, FiniteSetsExt, Lists

CONSTANTS
    PullGap,         \* PULL_GAP
    RequiredKinds,   \* REQUIRED_KINDS
    LatestPull,      \* no pull asked for: the last
    NoImport,        \* SnapshotImportError
    NoEvent,         \* what an event is when there is none,
    Uncertain,       \* and when there is one in a state not recorded
    NotKnown,        \* a time that isn't recorded
    NoContainer,     \* a log record of none of its pod's containers
    EndOfTime        \* datetime.max

-----------------------------------------------------------------------------
(* The pulls.                                                              *)

Times(records) == {r.time : r \in records}

\* A record this long after all before it starts a new pull.
Starts(records) == {t \in Times(records) : \A s \in Times(records) : s < t => t - s > PullGap}

\* A bug to catch: the pull ends with its first batch.
PullFromFirst(records, start) ==
    LET its == {r \in records : /\ r.time >= start
                                /\ \A t \in Starts(records) : t > start => r.time < t} IN
    [started |-> start, ended |-> start, kinds |-> {r.kind : r \in its}]

PullFrom(records, start) ==
    LET its == {r \in records : /\ r.time >= start
                                /\ \A t \in Starts(records) : t > start => r.time < t} IN
    [started |-> start, ended |-> Max(Times(its)), kinds |-> {r.kind : r \in its}]

\* read_pulls.
Pulls(records) ==
    LET starts == Sorted(Starts(records)) IN
    [i \in DOMAIN starts |-> PullFrom(records, starts[i])]

Objects(records, pull) == {r \in records : pull.started <= r.time /\ r.time <= pull.ended}

-----------------------------------------------------------------------------
(* Events.                                                                 *)

\* The watch: an event that was there when it began shows up when it changes or
\* expires, in each of two APIs.  A life is [born, changes, gone, dated].
WatchTimes(life, began, ended) ==
    {t \in {life.born} \cup life.changes \cup {life.gone} : t >= began /\ t <= ended}
StateAt(life, t) == Max({c \in {life.born} \cup life.changes : c <= t})
WatchRecord(life, t, core) ==
    [time |-> t, core |-> core,
     type |-> IF t = life.gone THEN "DELETED" ELSE IF t = life.born THEN "ADDED" ELSE "MODIFIED",
     state |-> StateAt(life, t), last |-> IF life.dated THEN StateAt(life, t) ELSE NotKnown]
Watched(life, began, ended) ==
    LET times == Sorted(WatchTimes(life, began, ended)) IN
    [i \in 1 .. 2 * Len(times) |-> WatchRecord(life, times[(i + 1) \div 2], i % 2 = 1)]

\* The latest and the earliest of some records, in the file's order if of one time.
Newest(records) ==
    records[Max({i \in DOMAIN records : \A j \in DOMAIN records : records[j].time <= records[i].time})]
Oldest(records) ==
    records[Min({i \in DOMAIN records : \A j \in DOMAIN records : records[i].time <= records[j].time})]

\* A bug to catch: an event first recorded later wasn't there.
EventAtIfRecorded(watched, at) ==
    LET before == Those(watched, {r \in Range(watched) : r.core /\ r.time <= at}) IN
    IF before = <<>> \/ Newest(before).type = "DELETED" THEN NoEvent ELSE Newest(before).state

\* _events, of one event's records.
EventAt(watched, at) ==
    LET history == Those(watched, {r \in Range(watched) : r.core})
        before == Those(history, {r \in Range(history) : r.time <= at})
        first == Oldest(history)
    IN  IF history = <<>> THEN NoEvent
        ELSE IF before # <<>>
             THEN IF Newest(before).type = "DELETED" THEN NoEvent ELSE Newest(before).state
        ELSE IF first.type = "ADDED" THEN NoEvent
        ELSE IF first.type = "DELETED" /\ first.last # NotKnown /\ first.last <= at
             THEN first.state
        ELSE Uncertain

EventsAt(watched, at) ==
    LET was == [i \in DOMAIN watched |-> EventAt(watched[i], at)] IN
    [events |-> [i \in {i \in DOMAIN was : was[i] \notin {NoEvent, Uncertain}} |-> was[i]],
     unknown |-> Cardinality({i \in DOMAIN was : was[i] = Uncertain})]

\* import_snapshot, but for the logs: the pull asked for, if it has what is required.
ImportPull(records, asked, watched) ==
    LET pulls == Pulls(records)
        number == IF asked = LatestPull THEN Len(pulls) ELSE asked
        pull == pulls[number]
        was == EventsAt(watched, pull.ended)
    IN  IF number \notin DOMAIN pulls \/ ~(RequiredKinds \subseteq pull.kinds) THEN NoImport
        ELSE [objects |-> Objects(records, pull), at |-> pull.ended,
              missing |-> {r.kind : r \in records} \ pull.kinds,
              events |-> was.events, unknown |-> was.unknown]

-----------------------------------------------------------------------------
(* Logs.                                                                   *)

\* A bug to catch: only the container's state tells when it was started.
InstanceStartedOfState(status) ==
    IF status.state = "waiting" THEN NotKnown
    ELSE IF status.started = 0 THEN EndOfTime ELSE status.started

\* _instance_started: one that never started has Go's zero time.
InstanceStarted(status) ==
    LET started == IF status.state = "waiting" THEN status.last ELSE status.started IN
    IF started = 0 THEN EndOfTime ELSE started

\* The container a record is taken to be of.
ContainerOf(pod, record) ==
    IF Len(pod.containers) = 1 THEN pod.containers[1]
    ELSE IF record.service \in Range(pod.containers) THEN record.service ELSE NoContainer

\* _logs: each container's lines, and how many records were left out and why.
ImportedLogs(records, pods, at) ==
    LET podOf(r) == CHOOSE p \in pods : p.name = r.pod
        ours == {i \in DOMAIN records : records[i].time <= at /\ \E p \in pods : p.name = records[i].pod}
        of(i) == ContainerOf(podOf(records[i]), records[i])
        assigned == {i \in ours : of(i) # NoContainer}
        current(i) ==
            LET status == podOf(records[i]).status IN
            /\ of(i) \in DOMAIN status /\ InstanceStarted(status[of(i)]) # NotKnown
            /\ records[i].time >= InstanceStarted(status[of(i)])
        used == {i \in assigned : current(i)}
        before(i, j) == records[i].time < records[j].time \/ (records[i].time = records[j].time /\ i < j)
        lines(k) ==
            LET its == {i \in used : <<records[i].pod, of(i)>> = k} IN
            [n \in 1 .. Cardinality(its) |->
                records[CHOOSE i \in its : Cardinality({j \in its : before(j, i)}) = n - 1]]
    IN  [logs |-> [k \in {<<records[i].pod, of(i)>> : i \in assigned} |-> lines(k)],
         used |-> Cardinality(used), others |-> Cardinality(assigned \ used),
         unassigned |-> Cardinality(ours \ assigned)]
=============================================================================
