------------------------------ MODULE Answers ------------------------------
(***************************************************************************)
(* What tools work out from what they read: one call of one tool, over     *)
(* each of a set of inputs, and its answer, beside what it should say.     *)
(***************************************************************************)
EXTENDS LogSummary, Policies, Placement, History, ReportParts, Joins, Routes, Import, Redaction

CONSTANTS
    \* The inputs of each tool.
    SummaryInputs,    \* get_log_pattern_summary
    ReadInputs,       \* get_logs_for_pod_and_container, replayed
    PolicyInputs,     \* the policies and pods workload_report reads
    Packets,          \* the traffic to tell allowed from denied
    PlacementInputs,  \* an unscheduled pod's spec and the nodes
    HistoryInputs,    \* a workload's revisions, oldest first
    PodLogInputs,     \* the pods of a workload and what to read of their logs
    EventInputs,      \* the events of a workload's objects
    RouteInputs,      \* a namespace's slices, services and ingress rules, and a workload's pods
    JobInputs,        \* a namespace's Jobs and pods, whose logs are read
    ClaimInputs,      \* its claims, pods and events
    SnapshotInputs,   \* a snapshot's pulls and the lives of its events
    OtelInputs,       \* its log records and the pull's pods
    ResultInputs,     \* what a tool returns, before redaction
    NoAnswer

-----------------------------------------------------------------------------
(* What the proofs need of the inputs, of which TLC shows that its own      *)
(* have it.                                                                 *)

\* A log's clock doesn't step back; a width under a second is one of a second.
ASSUME SummaryAssumption ==
    /\ NoTime \notin Int /\ MaxSamples \in Nat
    /\ \A in \in SummaryInputs : in.log \in Seq(LogLines) /\ InOrder(in.log) /\ in.asked \in Nat \ {0} /\ in.samples \in Int

\* A replay never runs before its capture.
ASSUME ReadAssumption ==
    /\ MaxTail \in Nat
    /\ \A in \in ReadInputs :
        /\ in.log \in Seq(LogLines) /\ InOrder(in.log)
        /\ in.shift \in Nat /\ in.elapsed \in Nat
        /\ {in.tail, in.since, in.began} \subseteq Nat \cup {NoTime}

\* The API takes no other operators, nor two pods of one name in a namespace.
ASSUME PolicyAssumption ==
    \A in \in PolicyInputs :
        /\ \A p, q \in in.pods : p.name = q.name => p = q
        /\ \A policy \in in.policies : \A e \in policy.selector :
            e.operator \in {"In", "NotIn", "Exists", "DoesNotExist"}

\* The API takes no other operators, and one value for the two that compare.
ASSUME PlacementAssumption ==
    \A in \in PlacementInputs : in.spec.terms # NoAffinity =>
        \A t \in in.spec.terms :
            /\ t = [expressions |-> t.expressions, fields |-> t.fields]
            /\ \A r \in t.expressions \cup t.fields :
                /\ r.operator \in {"In", "NotIn", "Exists", "DoesNotExist", "Gt", "Lt"}
                /\ r.operator \in {"Gt", "Lt"} => \E v \in r.values : r.values = {v}

\* No service is named NoService, nor a pod an address, in the namespaces read.
ASSUME RouteAssumption ==
    /\ Unreadable \notin Nat
    /\ \A in \in RouteInputs :
        /\ in.slices \in Seq(Range(in.slices))
        /\ \A l \in Range(in.slices) : l.endpoints \in Seq(Range(l.endpoints))
        /\ \A l \in Range(in.slices) : \A e \in Range(l.endpoints) :
            e.addresses # <<>> => e.pod # NoPod \/ e.addresses[1] \notin in.pods
        /\ Endpoints(in.slices) # Unreadable /\ NoPod \notin in.pods /\ NoService \notin DOMAIN in.services

\* A namespace has no two claims of one name, and no Job is named NoJob.
ASSUME JobAssumption ==
    \A in \in JobInputs :
        /\ in.pods \in Seq(Range(in.pods)) /\ \A p \in Range(in.pods) : p.age \in Nat
        /\ in.jobs \in Seq(Range(in.jobs)) /\ \A j \in Range(in.jobs) : j.age \in Nat /\ j.name # NoJob
ASSUME ClaimAssumption ==
    /\ EventLimit \in Nat /\ Never \notin Int
    /\ \A in \in ClaimInputs :
        /\ in.pods \in Seq(Range(in.pods)) /\ in.events \in Seq(Range(in.events))
        /\ \A c, d \in Range(in.claims) : c.name = d.name => c = d
        /\ \A e \in Range(in.events) : {e.last, e.seriesLast, e.time} \subseteq Nat \cup {Never}
        /\ in.elapsed \in Nat

\* A snapshot's pulls, in order: a pull's batches close together, two pulls far apart,
\* all while the watch lasts; and what an event's life is.
Batched(pull) ==
    /\ pull # {} /\ IsFiniteSet(pull)
    /\ \A r \in pull : \/ \A s \in pull : r.time <= s.time
                       \/ \E s \in pull : s.time < r.time /\ r.time - s.time <= PullGap
ASSUME SnapshotAssumption ==
    /\ {NoEvent, Uncertain, NotKnown, LatestPull} \cap Int = {} /\ NoEvent # Uncertain
    /\ PullGap \in Nat
    /\ \A in \in SnapshotInputs :
        /\ in.began \in Nat /\ in.ended \in Nat
        /\ in.pulls \in Seq(Range(in.pulls)) /\ in.lives \in Seq(Range(in.lives))
        /\ \A p \in Range(in.pulls) : Batched(p) /\ Times(p) \subseteq in.began .. in.ended
        /\ \A i, j \in DOMAIN in.pulls : i < j =>
            \A r \in in.pulls[i], s \in in.pulls[j] : s.time - r.time > PullGap
        /\ \A l \in Range(in.lives) :
            /\ l.born \in Nat /\ l.gone \in Nat /\ l.born < l.gone /\ l.dated \in BOOLEAN
            /\ \A t \in l.changes : t \in Nat /\ l.born < t /\ t < l.gone

\* No two of a snapshot's log records are the same, and no two of its pods.  A record is
\* of the container it says it is by, whose name no other container's service has, and
\* of its latest instance if that had started by then.
HadStarted(status, t) ==
    \/ status.state # "waiting" /\ status.started \in 1 .. t
    \/ status.state = "waiting" /\ status.last \in 1 .. t
ASSUME OtelAssumption ==
    \A in \in OtelInputs :
        /\ in.records \in Seq(Range(in.records))
        /\ \A i, j \in DOMAIN in.records : in.records[i] = in.records[j] => i = j
        /\ \A r \in Range(in.records) : r.time \in Nat /\ EndOfTime \in Nat /\ r.time < EndOfTime
        /\ \A p, q \in in.pods : p.name = q.name => p = q
        /\ \A p \in in.pods :
            /\ p.containers \in Seq(Range(p.containers)) /\ NoContainer \notin Range(p.containers)
            /\ \A c \in DOMAIN p.status : LET status == p.status[c] IN
                IF status.state = "waiting" THEN status.last \in Nat \cup {NotKnown} ELSE status.started \in Nat
            /\ \A r \in Range(in.records) : r.pod = p.name =>
                /\ r.by \in Range(p.containers) /\ (r.service \in Range(p.containers) => r.service = r.by)
                /\ r.instance = "latest" <=> r.by \in DOMAIN p.status /\ HadStarted(p.status[r.by], r.time)

\* At least one line of each log is asked for, and no two pods have one name.
ASSUME PodLogAssumption ==
    /\ MaxLogLines \in Nat /\ OtherLogLines \in Nat \ {0} /\ OtherLogPods \in Nat /\ MaxGrepPods \in Nat \ {0}
    /\ Unread \notin Int
    /\ \A in \in PodLogInputs :
        /\ in.lines \in Nat \ {0} /\ in.grep \in BOOLEAN
        /\ in.others \in Seq(Range(in.others))
        /\ \A i, j \in DOMAIN in.others : in.others[i].name = in.others[j].name => i = j
        /\ \A p \in {in.focus} \cup Range(in.others) :
            /\ p.containers \in Seq(Range(p.containers))
            /\ \A c \in Range(p.containers) : {c.current, c.previous} \subseteq Nat \cup {Unread} /\ c.restarts \in Nat
        /\ \A p \in Range(in.others) : p.name # in.focus.name

\* No value of a template is that of one that isn't there, and no other field of a
\* container is called as one that is compared by itself.
Present(map) == \A k \in DOMAIN map : map[k] # Absent
ContainerWhole(c) ==
    /\ Present(c.limits) /\ Present(c.single) /\ Present(c.env) /\ Present(MountSummaries(c.mounts)) /\ Present(c.other)
    /\ DOMAIN c.single \subseteq SingleFields /\ DOMAIN c.other \cap ContainerFields = {}
TemplateWhole(t) ==
    /\ \A n \in DOMAIN t.containers : ContainerWhole(t.containers[n])
    /\ \A n \in DOMAIN t.inits : ContainerWhole(t.inits[n])
    /\ Present(VolumeSummaries(t.volumes)) /\ Present(t.selector) /\ Present(t.other)
    /\ Present(t.labels) /\ Present(t.annotations)
ASSUME HistoryAssumption ==
    /\ NoRevision \notin Int
    /\ \A in \in HistoryInputs :
        /\ in \in Seq(Range(in))
        /\ \A r \in Range(in) : r.owned \in BOOLEAN /\ r.revision \in Nat \cup {NoRevision} /\ TemplateWhole(r.template)

\* An event that is counted was seen, and a record that has times has the first and the
\* last of them: in its own fields, in the series, or the time of the event alone.  No
\* name is asked for twice.
ASSUME EventAssumption ==
    /\ NoCount \notin Int /\ Never \notin Int /\ Failed \notin Int /\ Failed # Never
    /\ \A in \in EventInputs :
        /\ in.elapsed \in Nat \cup {Never}
        /\ in.names \in Seq(Range(in.names)) /\ \A i, j \in DOMAIN in.names : in.names[i] = in.names[j] => i = j
        /\ in.events \in Seq(Range(in.events))
        /\ \A e \in Range(in.events) :
            /\ {e.count, e.seriesCount} \subseteq (Nat \ {0}) \cup {NoCount}
            /\ {e.first, e.last, e.seriesLast, e.time} \subseteq Nat \cup {Never}
            /\ Seen(e) # {} => /\ OrElse(e.first, e.time) # Never /\ OrElse(e.last, OrElse(e.seriesLast, e.time)) # Never
                               /\ \A t \in Seen(e) : /\ t <= OrElse(e.first, e.time)
                                                     /\ OrElse(e.last, OrElse(e.seriesLast, e.time)) <= t

\* A result is finite, only texts have parts, a token is one whatever it looks like,
\* nothing is named by a key's block, and no JSON text lies in another.
ASSUME ResultAssumption ==
    /\ Marker \notin {"shape", "tokenReference"}
    /\ \A v \in ResultInputs :
        /\ IsFiniteSet(DOMAIN v) /\ DOMAIN v \subseteq Seq(UNION {Range(path) : path \in DOMAIN v})
        /\ v \in [DOMAIN v -> [is : {"text", "json", "map", "list", "scalar"}, of : Seq(Parts(v))]]
        /\ \A path \in DOMAIN v : v[path].is # "text" => v[path].of = <<>>
        /\ \A p \in Parts(v) : /\ p = [form |-> p.form, name |-> p.name, value |-> p.value, like |-> p.like]
                               /\ p.form = "shape" => p.value = "shape"
        /\ \A path \in DOMAIN v : path # <<>> /\ Last(path) = <<"field", "name">> =>
            \A p \in Range(v[path].of) : p.form # "block"
        /\ \A json, path \in DOMAIN v : v[json].is = "json" /\ v[path].is = "json" => ~IsStrictPrefix(json, path)

VARIABLES call, answer
vars == <<call, answer>>

Inputs == [summarize |-> SummaryInputs, read |-> ReadInputs, policies |-> PolicyInputs,
           placement |-> PlacementInputs, history |-> HistoryInputs, logs |-> PodLogInputs,
           events |-> EventInputs, routes |-> RouteInputs, jobs |-> JobInputs,
           claims |-> ClaimInputs, snapshot |-> SnapshotInputs, otel |-> OtelInputs,
           redact |-> ResultInputs]

Init == answer = NoAnswer /\ \E tool \in DOMAIN Inputs : \E in \in Inputs[tool] : call = [tool |-> tool, in |-> in]

Asks(tool) == answer = NoAnswer /\ call.tool = tool

SummarizeLog == Asks("summarize") /\ answer' = Summary(call.in) /\ UNCHANGED call

ReadLog == Asks("read") /\ answer' = ReplayedRead(call.in) /\ UNCHANGED call

\* get_networkpolicy_summaries' reading of the policies, and workload_report's
\* lines, for the pods named.
PolicyAnswer(in) ==
    [d \in Directions |-> PolicyLines(ReadPolicies(in.policies, in.pods), {p.name : p \in in.pods}, d)]
ReportPolicies == Asks("policies") /\ answer' = PolicyAnswer(call.in) /\ UNCHANGED call

PlacePod == Asks("placement") /\ answer' = PlacementLine(call.in.spec, call.in.nodes) /\ UNCHANGED call

TellHistory ==
    /\ Asks("history")
    /\ answer' = [revisions |-> Revisions(call.in),
                  config |-> ConfigReferences(call.in[Len(call.in)].template)]
    /\ UNCHANGED call

ReportLogs ==
    /\ Asks("logs")
    /\ answer' = Logs(call.in.focus, call.in.others, call.in.lines, call.in.grep)
    /\ UNCHANGED call

ReportEvents ==
    /\ Asks("events")
    /\ answer' = EventLines(call.in.events, call.in.names, call.in.kinds, call.in.elapsed)
    /\ UNCHANGED call

\* The services and ingress rules of workload_report, and the rules of
\* namespace_health.
RouteAnswer(in) ==
    LET endpoints == IF in.readable THEN Endpoints(in.slices) ELSE Unreadable
        lines == IngressRules(in.rules, in.services, endpoints)
        services == ServicesFor(endpoints, in.pods)
    IN  [services |-> services, rules |-> RulesTo(lines, services), trouble |-> RulesInTrouble(lines)]
ReportRoutes == Asks("routes") /\ answer' = RouteAnswer(call.in) /\ UNCHANGED call

\* The pods whose logs are those of a Job and of a CronJob.
JobAnswer(in) ==
    [job |-> LatestPod(in.pods, in.job), cronjob |-> CronJobPod(in.jobs, in.pods, in.cronjob),
     replayedJob |-> ReplayedLatestPod(in.pods, in.job),
     replayedCronJob |-> ReplayedCronJobPod(in.jobs, in.pods, in.cronjob)]
FindJobPods == Asks("jobs") /\ answer' = JobAnswer(call.in) /\ UNCHANGED call

ClaimAnswer(in) ==
    LET live == Claims(in.claims, in.pods, in.events, in.access) IN
    [live |-> live, unbound |-> UnboundClaims(live),
     replayed |-> ReplayedClaims(in.claims, in.pods, in.events, in.access, in.elapsed)]
ListClaims == Asks("claims") /\ answer' = ClaimAnswer(call.in) /\ UNCHANGED call

\* The snapshot's files need not be in order of time.
SnapshotAnswer(in) ==
    LET watch(life) == Watched(life, in.began, in.ended)
        file(life) == IF in.inOrder THEN watch(life) ELSE Reverse(watch(life))
    IN  ImportPull(UNION Range(in.pulls), in.asked, [i \in DOMAIN in.lives |-> file(in.lives[i])])
ImportSnapshot == Asks("snapshot") /\ answer' = SnapshotAnswer(call.in) /\ UNCHANGED call

ImportLogs == Asks("otel") /\ answer' = ImportedLogs(call.in.records, call.in.pods, call.in.at) /\ UNCHANGED call

RedactResult == Asks("redact") /\ answer' = Redact(call.in) /\ UNCHANGED call

Next ==
    \/ SummarizeLog \/ ReadLog \/ ReportPolicies \/ PlacePod
    \/ TellHistory \/ ReportLogs \/ ReportEvents \/ ReportRoutes
    \/ FindJobPods \/ ListClaims \/ ImportSnapshot \/ ImportLogs
    \/ RedactResult

Spec == Init /\ [][Next]_vars

Told(tool) == call.tool = tool /\ answer # NoAnswer

-----------------------------------------------------------------------------
(* Logs.                                                                   *)

\* The rows of a summary's buckets follow each other from before the log's first
\* line to after its last, each counts the lines of its time, and every line is in one
\* row and no other, so that they add up to the log; only a row without matches is wider
\* than a bucket, and no two of those meet.  The samples are of different lines, as many
\* as asked for up to the limit or all there are, the first match and the last among
\* them (_summarize_log, _buckets, _spread).
SummaryComplete ==
    Told("summarize") /\ answer.rows # {} =>
        LET log == call.in.log
            rows == answer.rows
            lo == Min({r.from : r \in rows})
            hi == Max({r.to : r \in rows})
            inRow(r) == {i \in DOMAIN log : IF TimeOf(log, i) = NoTime THEN r.from = lo
                                            ELSE r.from <= TimeOf(log, i) /\ TimeOf(log, i) < r.to}
            most == Least(call.in.samples, MaxSamples)
        IN  /\ lo <= FirstLine(log) /\ LastLine(log) < hi
            /\ \A r \in rows : /\ r.to = hi \/ \E s \in rows : s.from = r.to
                               /\ r.lines = Cardinality(inRow(r))
                               /\ r.hits = Cardinality(inRow(r) \cap Hits(log))
                               /\ r.hits = 0 => \A s \in rows : s.from = r.to => s.hits > 0
            /\ \A i \in DOMAIN log : \E r \in rows : {s \in rows : i \in inRow(s)} = {r}
            /\ answer.matches = Cardinality(Hits(log))
            /\ answer.samples \subseteq 0 .. answer.matches - 1
            /\ Cardinality(answer.samples) = IF most <= 0 THEN 0 ELSE Least(answer.matches, most)
            /\ most > 0 /\ answer.matches > 0 => 0 \in answer.samples
            /\ most > 1 /\ answer.matches > 0 => answer.matches - 1 \in answer.samples

\* However long a log and narrow its buckets, no summary has more of them than
\* the limit, and none is narrower than asked (_buckets).
BucketsBounded ==
    Told("summarize") /\ answer.rows # {} =>
        LET first == FirstLine(call.in.log)
            last == LastLine(call.in.log)
            w == Width(first, last, call.in.asked)
        IN  w >= call.in.asked /\ BucketCount(first, last, w) <= MaxBuckets

\* A replayed read gives the lines the live read gave at the capture's time, as
\* much later as the replay has run, and its note says that earlier lines are left
\* out, in the log or of the capture, exactly when they are
\* (_slice_log, _reanchor_log, _log_extent_note).
ReplayedLogHonest ==
    Told("read") =>
        LET in == call.in
            within(l) == in.since = NoTime \/ l.time = NoTime \/ l.time >= in.elapsed - in.since
            recent == Those(in.log, {l \in Range(in.log) : within(l)})
            live == LastLines(recent, in.tail)
            shown == FirstLine(live)
            dropped == Len(recent) > Len(live) \/ in.since = NoTime
        IN  /\ answer.text = Moved(live, in.shift)
            /\ "older" \in answer.note <=>
                dropped /\ shown # NoTime /\ \E i \in Stamped(in.log) : in.log[i].time < shown
            /\ "unrecorded" \in answer.note <=>
                dropped /\ shown # NoTime /\ in.began # NoTime /\ in.began < FirstLine(in.log)

-----------------------------------------------------------------------------
(* Pods.                                                                   *)

\* What workload_report says the policies allow a workload's pods is what they
\* allow each of them, unless it says that a policy selects only some of them;
\* and when it says that no name can be looked up, nothing may go to port 53
\* (_workload_policy_lines, network_policy_effect, allows_port).
PolicyAsEnforced ==
    Told("policies") =>
        \A d \in Directions : \A pod \in call.in.pods, packet \in Packets :
            LET allowed == Allowed(call.in.policies, pod, d, packet) IN
            ~answer[d].some =>
                /\ SaysAllowed(answer[d].effect, packet) <=> allowed
                /\ answer[d].noDNS /\ packet.port = 53 => ~allowed

\* The nodes an unscheduled pod is said to match are those the scheduler's node
\* filters pass, and those said to repel it those of them with a taint that its
\* tolerations leave (_placement_line, _admits, _tolerates).
PlacementAsScheduler ==
    Told("placement") =>
        LET fit == {n \in call.in.nodes : Fits(call.in.spec, n)}
            left(n) == {t \in n.taints : t.effect # "PreferNoSchedule"}
                       \ UNION {{t \in n.taints : /\ o.effect # Empty => o.effect = t.effect
                                                  /\ o.key # Empty => o.key = t.key
                                                  /\ o.operator # "Exists" => o.value = t.value} :
                                o \in call.in.spec.tolerations}
        IN  /\ answer.match = Cardinality(fit)
            /\ answer.repel = Cardinality({n \in fit : left(n) # {}})
            /\ ~answer.constrained => answer.match = answer.of

-----------------------------------------------------------------------------
(* Workload history.                                                       *)

\* What of a template is compared, each thing by where it is.  Left out are the other
\* fields of a mount (subPathExpr, mountPropagation), of a volume (its items, mode,
\* sizes) and of a toleration (tolerationSeconds), the claims of a container's
\* resources, which of its envFrom are optional, and the labels controllers stamp.
Mounted(m) == <<m.volume, m.subPath, m.readOnly>>
ContainerDetails(group, n, c) ==
    {<<<<group, n, "image">>, c.image>>}
    \cup {<<<<group, n, "limits", k>>, c.limits[k]>> : k \in DOMAIN c.limits}
    \cup {<<<<group, n, k>>, c.single[k]>> : k \in DOMAIN c.single}
    \cup {<<<<group, n, "env", k>>, c.env[k]>> : k \in DOMAIN c.env}
    \cup {<<<<group, n, "envFrom">>, x>> : x \in c.envFrom}
    \cup {<<<<group, n, "volumeMounts", k>>, Mounted(c.mounts[k])>> : k \in DOMAIN c.mounts}
    \cup {<<<<group, n, k>>, c.other[k]>> : k \in DOMAIN c.other}
GroupDetails(group, containers) == UNION {ContainerDetails(group, n, containers[n]) : n \in DOMAIN containers}
Details(t) ==
    GroupDetails("containers", t.containers)
    \cup GroupDetails("init_containers", t.inits)
    \cup {<<<<"volumes", v>>, <<t.volumes[v].source, t.volumes[v].names>>>> : v \in DOMAIN t.volumes}
    \cup {<<<<"node_selector", k>>, t.selector[k]>> : k \in DOMAIN t.selector}
    \cup {<<<<"tolerations">>, <<x.key, x.effect>>>> : x \in t.tolerations}
    \cup {<<<<"spec", k>>, t.other[k]>> : k \in DOMAIN t.other}
    \cup {<<<<"metadata", "labels", k>>, t.labels[k]>> : k \in DOMAIN t.labels \ ControllerLabels}
    \cup {<<<<"metadata", "annotations", k>>, t.annotations[k]>> : k \in DOMAIN t.annotations}

\* Of the details that are compared, a revision's changes name all that its template
\* says otherwise than that of the revision it is compared with, which is the next
\* one retained, and nothing else, and none of them shows an env var's value; only
\* the newest is current (get_workload_history, _template_changes).
ChangesExplain ==
    Told("history") =>
        LET items == call.in
            told == answer.revisions
            owned == {i \in DOMAIN items : items[i].owned}
            number(i) == IF items[i].revision = NoRevision THEN -1 ELSE items[i].revision
            newer(i) == {j \in owned : number(j) > number(i) \/ (number(j) = number(i) /\ j > i)}
            place(i) == Cardinality(newer(i)) + 1
        IN  /\ Len(told) = Cardinality(owned)
            /\ \A i \in owned :
                /\ place(i) \in DOMAIN told
                /\ told[place(i)].revision = items[i].revision
                /\ told[place(i)].current <=> newer(i) = {}
            /\ \A i, j \in owned : newer(j) = newer(i) \cup {i} =>
                LET row == told[place(i)]
                    a == Details(items[i].template)
                    b == Details(items[j].template)
                    changes == row.changes.spec \cup row.changes.metadata
                    differ == {d[1] : d \in (a \ b) \cup (b \ a)}
                IN  /\ row.compared = items[j].revision
                    /\ \A field \in differ : \E c \in changes : IsPrefix(c.field, field)
                    /\ \A c \in changes : \E field \in differ : IsPrefix(c.field, field)
                    /\ \A c \in changes :
                        c.field[1] \in {"containers", "init_containers"} /\ Len(c.field) > 2 /\ c.field[3] = "env" =>
                            c.before = Hidden /\ c.after = Hidden

\* Whatever differs in a container that two successive revisions both have is named:
\* "anything else that differs is named" (k8s_tools.py, of _CONTAINER_FIELDS).  It is
\* not, of the fields compared by some of what they hold.
OtherwiseNamed ==
    Told("history") =>
        \A k \in 1 .. Len(answer.revisions) - 1 :
            LET raw == RawRevisions(call.in)
                a == raw[Len(raw) - k + 1].template.containers
                b == raw[Len(raw) - k].template.containers
            IN  \A n \in DOMAIN a \cap DOMAIN b : a[n] # b[n] =>
                    \E c \in answer.revisions[k].changes.spec : IsPrefix(<<"containers", n>>, c.field)

\* Every ConfigMap or Secret a container reads is listed by how a write to it
\* reaches that container: said to be a plain mounted volume only if no container
\* mounts it by subPath (_config_references).
ConfigReach ==
    Told("history") =>
        LET t == call.in[Len(call.in)].template
            uses(r) == {c.used : c \in {c \in answer.config : c.ref = r}} IN
        \A c \in Range(t.containers) \cup Range(t.inits) :
            /\ \A e \in Range(c.env) : \A r \in e.refers : "env" \in uses(r)
            /\ \A r \in c.envFrom : "envFrom" \in uses(r)
            /\ \A m \in Range(c.mounts) : m.volume \in DOMAIN t.volumes =>
                \A r \in t.volumes[m.volume].names :
                    IF m.subPath THEN "subPath" \in uses(r)
                    ELSE uses(r) \cap {"volume", "subPath"} # {}

-----------------------------------------------------------------------------
(* workload_report's logs and events.                                      *)

\* However much the focus pod's logs take, the other pods' share what is left of
\* the report's lines, and a pod none of whose logs was tried is named (_logs).
LogsAccounted ==
    Told("logs") =>
        LET lines(logs) == {x \in logs \X (1 .. call.in.lines) : x[2] <= answer.logs[x[1]].lines}
            all == Cardinality(lines(DOMAIN answer.logs))
            focus == Cardinality(lines({i \in DOMAIN answer.logs : answer.logs[i].pod = call.in.focus.name}))
            empty(p) == \A i \in DOMAIN p.containers : p.containers[i].current = Unread
        IN  /\ all <= IF focus > MaxLogLines THEN focus ELSE MaxLogLines
            /\ \A i \in DOMAIN answer.logs : answer.logs[i].lines <= call.in.lines
            /\ \A p \in Range(call.in.others) :
                \/ p.name \in answer.skipped
                \/ empty(p)
                \/ \E t \in Range(answer.logs) : t.pod = p.name

\* Merged, the events of a report still add up, whichever API recorded them, live
\* or replayed: each wanted event is on one line, whose count is the sum of those
\* known and whose ages span those its events were seen at; as long as none was
\* seen in this very instant, which reads as a time not known
\* (_event_summary, _events).
EventsMerged ==
    Told("events") =>
        LET events == call.in.events
            wanted == {i \in DOMAIN events : events[i].object \in Range(call.in.names) /\ events[i].kind \in call.in.kinds}
            of(line) == {i \in wanted : events[i].says = line.says}
            known(line) == {i \in of(line) : Sightings(events[i]) # NoCount}
            later == IF call.in.elapsed = Never THEN 0 ELSE call.in.elapsed
            ages(line) == {t + later : t \in UNION {Seen(events[i]) : i \in of(line)}}
        IN  (\A i \in wanted : 0 \notin Seen(events[i])) =>
            /\ ~answer.failed
            /\ \A i \in wanted : \E line \in answer.lines : {l \in answer.lines : i \in of(l)} = {line}
            /\ \A line \in answer.lines :
                /\ line.objects = Cardinality(of(line)) /\ of(line) # {}
                /\ line.count = IF known(line) = {} THEN NoCount
                                ELSE Cardinality(UNION {{i} \X (1 .. Sightings(events[i])) : i \in known(line)})
                /\ line.first = IF ages(line) = {} THEN Never ELSE Max(ages(line))
                /\ line.last = IF ages(line) = {} THEN Never ELSE Min(ages(line))

-----------------------------------------------------------------------------
(* Services and ingresses.                                                 *)

\* Whatever pods its slices repeat, and in whatever state, the rules in trouble are
\* those a request can't follow to a ready pod or address, as far as that is known; the
\* number shown ready is that of the pods and addresses behind the rule; and every
\* rule that leads to one of the workload's pods is among the workload's.  The slices
\* agree on each of them (get_endpoint_summaries, _ingress_backend, _ingress_lines).
RoutesAsServed ==
    Told("routes") =>
        LET in == call.in
            behind(s) == {e \in UNION {Range(l.endpoints) : l \in {l \in Range(in.slices) : l.service = s}} :
                             e.addresses # <<>>}
            agreed == \A s \in {l.service : l \in Range(in.slices)} : \A d, e \in behind(s) :
                          Identity(d) = Identity(e) => IsReady(d) = IsReady(e)
            ready(s) == {Identity(e) : e \in {e \in behind(s) : e.ready # FALSE}}
            offers(r) == /\ r.service \in DOMAIN in.services
                         /\ r.port # NoPort => HasPort(in.services[r.service], r.port)
            known(r) == offers(r) /\ in.readable /\ ~in.services[r.service].external
        IN  agreed =>
            /\ {l.rule : l \in answer.trouble} =
                   {r \in in.rules : r.service # NoService /\ (~offers(r) \/ (known(r) /\ ready(r.service) = {}))}
            /\ \A l \in answer.rules \cup answer.trouble :
                   /\ l.backend.ready # Unreadable <=> known(l.rule)
                   /\ known(l.rule) => l.backend.ready = Cardinality(ready(l.rule.service))
            /\ in.readable => \A r \in in.rules :
                   (\E e \in behind(r.service) : e.pod \in in.pods) <=> \E l \in answer.rules : l.rule = r

-----------------------------------------------------------------------------
(* Jobs and claims.                                                        *)

\* The log of a Job or a CronJob is that of a pod no other of its newest Job's is
\* younger than, and a replay reads the same pod's, if the capture has the pods'
\* labels; an unbound claim lists its newest events, which an unscheduled pod that
\* mounts it is shown, and a replay lists the same, as much older as it has run; as
\* long as no event was seen in that very instant (get_logs_for_cronjob,
\* _latest_pod_for_label, get_pvc_summaries, _unbound_claims).
JoinsReplayed ==
    /\ Told("jobs") =>
        LET in == call.in
            its(j) == {p \in Range(in.pods) : p.job = j}
            runs == {j \in Range(in.jobs) : j.owner = in.cronjob}
            last == {j \in runs : \A k \in runs : j.age <= k.age}
            newest(some) == {p.name : p \in {p \in some : \A q \in some : p.age <= q.age}}
        IN  /\ IF its(in.job) = {} THEN answer.job = NoPodOf ELSE answer.job \in newest(its(in.job))
            /\ IF last = {} THEN answer.cronjob = NoPodOf
               ELSE \E j \in last : IF its(j.name) = {} THEN answer.cronjob = NoPodOf
                                    ELSE answer.cronjob \in newest(its(j.name))
            /\ (\A p \in Range(in.pods) : p.labelled) =>
                answer.replayedJob = answer.job /\ answer.replayedCronJob = answer.cronjob
    /\ Told("claims") =>
        LET in == call.in
            of(n) == {i \in DOMAIN in.events : in.events[i].kind = "PersistentVolumeClaim" /\ in.events[i].object = n}
            last(i) == EventSummary(in.events[i]).last
            old == {n \in DOMAIN answer.live : \A i \in of(n) : 0 \notin {last(i), EventSummary(in.events[i]).first}}
            aged(events) == [i \in DOMAIN events |-> ReplayedEvent(events[i], in.elapsed)]
        IN  /\ \A n \in old : answer.replayed[n] = [answer.live[n] EXCEPT !.events = aged(@)]
            /\ \A n \in DOMAIN answer.live :
                LET listed == answer.live[n].events IN
                "events" \in in.access /\ ~answer.live[n].bound =>
                    /\ Len(listed) = Min({EventLimit, Cardinality(of(n))})
                    /\ \A k \in DOMAIN listed : listed[k].last # Never =>
                        Cardinality({i \in of(n) : last(i) # Never /\ last(i) < listed[k].last}) < k
                    /\ (\E k \in DOMAIN listed : listed[k].last = Never) =>
                        \A i \in of(n) : last(i) # Never => \E k \in DOMAIN listed : listed[k].last = last(i)
            /\ "pods" \in in.access => \A p \in Range(in.pods) : \A c \in Range(in.claims) :
                c.name \in p.mounts /\ ~c.bound =>
                    p.name \in DOMAIN answer.unbound /\ \E l \in answer.unbound[p.name] : l.claim = c.name

\* A Job whose log could be read isn't told to have none on replay: the README's "what a
\* capture didn't record replays as not recorded, never as none".  Violated: a pod whose
\* labels weren't read is no Job's (_latest_pod_for_label).
JobLogNotDenied == Told("jobs") /\ answer.replayedJob = NoPodOf => answer.job = NoPodOf

-----------------------------------------------------------------------------
(* Imports.                                                                *)

\* The pull imported is all of the one asked for, and none is if it lacks a kind
\* an import needs.  An event in it was there at the pull's time, as it is
\* imported; one that was, and of which the watch recorded anything, is there or
\* counted as unknown, and is there if its state can be told (read_pulls, _events,
\* import_snapshot).  A container's log is what its latest instance wrote up to
\* then, by time and else as in the file, as far as its records name it; every record
\* of the pull's pods is used or counted as left out (_logs, _instance_started).
SnapshotImported ==
    /\ Told("snapshot") =>
        LET in == call.in
            number == IF in.asked = LatestPull THEN Len(in.pulls) ELSE in.asked
            pull == in.pulls[number]
            kinds(records) == {r.kind : r \in records}
            at == Max(Times(pull))
            there(l) == l.born <= at /\ at < l.gone
            recorded(l) == \E t \in {l.born, l.gone} \cup l.changes : in.began <= t /\ t <= in.ended
            certain(l) == \/ \E t \in {l.born} \cup l.changes : in.began <= t /\ t <= at
                          \/ l.dated /\ \A t \in l.changes : t <= at
            imported(i) == i \in DOMAIN answer.events
            present == {i \in DOMAIN in.lives : there(in.lives[i]) /\ recorded(in.lives[i])}
        IN  IF number \notin DOMAIN in.pulls \/ ~(RequiredKinds \subseteq kinds(pull))
            THEN answer = NoImport
            ELSE /\ answer.objects = pull /\ answer.at = at
                 /\ answer.missing = kinds(UNION Range(in.pulls)) \ kinds(pull)
                 /\ \A i \in DOMAIN answer.events :
                        i \in present /\ answer.events[i] = Max({t \in {in.lives[i].born} \cup in.lives[i].changes : t <= at})
                 /\ answer.unknown = Cardinality({i \in present : ~imported(i)})
                 /\ \A i \in present : certain(in.lives[i]) => imported(i)
    /\ Told("otel") =>
        LET in == call.in
            ours == {r \in Range(in.records) : r.time <= in.at /\ \E p \in in.pods : p.name = r.pod}
            named(r) == \A p \in in.pods : p.name = r.pod => Len(p.containers) = 1 \/ r.service = r.by
        IN  /\ DOMAIN answer.logs = {<<r.pod, r.by>> : r \in {r \in ours : named(r)}}
            /\ \A k \in DOMAIN answer.logs :
                LET log == answer.logs[k] IN
                /\ Range(log) = {r \in ours : <<r.pod, r.by>> = k /\ named(r) /\ r.instance = "latest"}
                /\ \A m, n \in DOMAIN log : m < n => \E i, j \in DOMAIN in.records :
                    /\ log[m] = in.records[i] /\ log[n] = in.records[j]
                    /\ log[m].time < log[n].time \/ (log[m].time = log[n].time /\ i < j)
            /\ answer.used + answer.others = Cardinality({r \in ours : named(r)})
            /\ answer.unassigned = Cardinality({r \in ours : ~named(r)})

-----------------------------------------------------------------------------
(* Redaction.                                                              *)

\* A second pass finds nothing to replace in a result, so that a redacted capture
\* replays through a redacting server as it is, unless a JSON text in it holds what
\* only a look at its text finds: a setting that runs on, a token in a placeholder.
\* And a result changes if and only if a replacement is counted (_redact, which keeps
\* a new value only then).
RedactionStable ==
    Told("redact") =>
        /\ (\A json, path \in DOMAIN answer.value :
                answer.value[json].is = "json" /\ IsStrictPrefix(json, path) =>
                    \A p \in Range(answer.value[path].of) : ~Shaped(p) /\ ~RunsOn(p))
           => Redact(answer.value) = [value |-> answer.value, count |-> 0]
        /\ answer.count = 0 <=> answer.value = call.in

\* No token and no key block is left in a text of a result, however deep it lies, but
\* in a placeholder under a sensitive name, which is not looked at; and what only
\* refers to a secret stays, but in a text that goes whole, itself or with one it is
\* in, and, in JSON, in a setting that runs on (_redact_string, _is_placeholder).
RedactionSwept ==
    Told("redact") =>
        /\ \A path \in DOMAIN answer.value : \A p \in Range(answer.value[path].of) :
            /\ p.form # "block"
            /\ Shaped(p) => SensitiveEntry(call.in, path) /\ IsPlaceholder(answer.value[path])
        /\ \A path \in DOMAIN call.in : \A p \in Range(call.in[path].of) :
            p.value = "reference" /\ p.form # "runOn" =>
                \E at \in DOMAIN answer.value :
                    /\ IsPrefix(at, path)
                    /\ answer.value[at] = Redacted \/ (at = path /\ p \in Range(answer.value[at].of))

\* README.md: a redacted capture redacted again has nothing more to find.  Violated: a
\* JSON text in which nothing is left to replace is looked at as plain text, where an
\* escape after a setting makes its marker something else (_redact_string).
RedactedOnceForAll == Told("redact") => Redact(answer.value).count = 0

\* redaction.py: what looks like a credential is replaced regardless of where it sits.
\* Violated: a placeholder under a sensitive name keeps a token (_redact_string).
TokensReplaced == Told("redact") => \A p \in Parts(answer.value) : ~Shaped(p)
=============================================================================
