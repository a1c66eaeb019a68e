------------------------------- MODULE Reports -------------------------------
(***************************************************************************)
(* namespace_health and workload_report (composites.py): each is a series  *)
(* of reads of a cluster that changes between them, some of which the      *)
(* account may not make (a 403), or the capture doesn't record, or fail.   *)
(*                                                                         *)
(* Reads whose data isn't modelled (autoscalers, endpoints, ingresses,     *)
(* policies, events, claims) keep what a refusal or a failure of each does *)
(* to the report.  Left out are the reads that no failure is noted of:     *)
(* nodes and specs, told of in a line of their own, a pod's log, and the   *)
(* kinds of policies installed as custom resources.                        *)
(***************************************************************************)
EXTENDS Workloads

CONSTANTS
    Requests,        \* [tool, kind, name]
    NoKind,          \* a report asked for by name only
    Names,           \* workloads <<kind, name>> and pods, in the API's order
    Clusters,        \* what each is at first, or Gone
    States,          \* what each may become; its owner is for a pod's life
    Gone,
    ReplicaSets,     \* each ReplicaSet's Deployment, or NoOwner
    Accesses,        \* [refused, failing], sets of kinds
    MaxChanges,      \* the most changes during a call
    NoAnswer

Objects == Range(Names.workloads) \cup Range(Names.pods)

\* What a workload, a container's status and a pod are.
WorkloadStates == [ready : Int, desired : Int, failing : BOOLEAN]
Containers == [init : BOOLEAN, sidecar : BOOLEAN, state : STRING, exit : Int, ended : Nat \cup {NoAge}]
Summaries == [owner : STRING \X STRING, node : BOOLEAN, reason : BOOLEAN, restarts : Nat,
              ready : Int, desired : Int]
PodStates == [summary : Summaries, statuses : Seq(Containers)]
StatesOf(o) == IF o \in Range(Names.workloads) THEN WorkloadStates ELSE PodStates

ASSUME RequestsAssumption ==
    /\ NoKind \notin Range(Kinds)
    /\ \A r \in Requests : r.tool \in {"health", "report"} /\ r.kind \in Range(Kinds) \cup {NoKind}

\* A read that is refused is refused before it can fail in another way.
ASSUME AccessAssumption == \A a \in Accesses : a.refused \cap a.failing = {}

\* Names has what is in the namespace at one time or another, Gone or not.
ASSUME NamesAssumption ==
    /\ Names.workloads \in Seq(Range(Kinds) \X STRING)
    /\ Names.pods \in Seq({"Pod"} \X STRING)
    /\ \A r \in DOMAIN ReplicaSets :
        ReplicaSets[r] = NoOwner \/ ReplicaSets[r] \in Range(Names.workloads)

ASSUME StatesAssumption ==
    /\ NoAge \notin Containers \cup Nat
    /\ \A c \in Clusters :
        DOMAIN c = Objects /\ \A o \in Objects : c[o] = Gone \/ c[o] \in StatesOf(o)
    /\ \A o \in Objects : States[o] \subseteq StatesOf(o)

\* A pod's owner is one of the names, if it is a workload; and a pod that the scheduler
\* has given a reason for has no containers yet.
ASSUME PodsAssumption ==
    \A o \in Range(Names.pods) : \A s \in States[o] \cup ({c[o] : c \in Clusters} \ {Gone}) :
        /\ s.summary.owner[1] \in Range(Kinds) => s.summary.owner \in Range(Names.workloads)
        /\ ~s.summary.node /\ s.summary.reason => s.statuses = <<>>

VARIABLES
    cluster,
    touched,     \* what changed during the call: history
    request,
    kind,        \* the kind reported on
    access,      \* what a read of each kind meets, as long as the call takes
    todo,        \* the reads left, in order
    listed,      \* the workloads listed
    rsOwner,     \* owner_deployment of the ReplicaSets read
    pods,        \* the pods listed: a sequence of [name, summary]
    statuses,    \* and the statuses read
    unknown,     \* unrecorded
    notes,       \* other notes on what can't be read
    answer

world == <<cluster, touched, request, access>>
read == <<kind, listed, rsOwner, pods, statuses>>
vars == <<world, todo, read, unknown, notes, answer>>

Listing == [i \in DOMAIN Kinds |-> Plural[Kinds[i]]]

\* The reads of each tool; "statuses" are those of each pod it looks into, "templates"
\* the histories that namespace_health dates the changes of workloads by.
HealthReads ==
    Listing \o <<"ReplicaSets", "pods", "HorizontalPodAutoscalers", "Endpoints", "usage",
                 "statuses", "templates", "Ingresses", "NetworkPolicies">>
ReportReads(k) ==
    Listing \o <<"match", "ReplicaSets", "pods", "statuses", "spec", "events">>
    \o (IF k = "Job" THEN <<>> ELSE <<"WorkloadHistory">>)
    \o <<"HorizontalPodAutoscalers", "Endpoints", "Ingresses", "NetworkPolicies", "usage">>
FindReads == Listing \o <<"choose">>

\* The kinds read through _recorded, and those of which nothing more is modelled.
Related == {"HorizontalPodAutoscalers", "Endpoints", "Ingresses", "events", "NetworkPolicies"}
Recorded == Range(Listing) \cup Related \cup {"ReplicaSets", "WorkloadHistory"}

\* Those of a report, by the kind reported on.
ReadsOf(tool, k) ==
    IF tool = "health" THEN HealthReads ELSE IF k = NoKind THEN FindReads ELSE ReportReads(k)

Init ==
    /\ cluster \in Clusters
    /\ request \in Requests /\ kind = request.kind
    /\ access \in Accesses
    /\ todo = ReadsOf(request.tool, kind)
    /\ touched = {} /\ unknown = {} /\ notes = {}
    /\ listed = <<>> /\ rsOwner = <<>> /\ pods = <<>> /\ statuses = <<>>
    /\ answer = NoAnswer

Is(o) == cluster[o] # Gone

\* Whatever else happens in the cluster during the call; a pod keeps its owner.
Change ==
    /\ answer = NoAnswer /\ Cardinality(touched) < MaxChanges
    /\ \E o \in DOMAIN cluster, s \in {Gone} \cup UNION Range(States) :
        /\ s \in {Gone} \cup States[o] /\ s # cluster[o]
        /\ o \in Range(Names.pods) /\ Gone \notin {s, cluster[o]} =>
            s.summary.owner = cluster[o].summary.owner
        /\ cluster' = [cluster EXCEPT ![o] = s]
        /\ touched' = touched \cup {o}
    /\ UNCHANGED <<request, access, todo, read, unknown, notes, answer>>

-----------------------------------------------------------------------------
(* The reads of a call.                                                    *)

Reads(what) == answer = NoAnswer /\ todo # <<>> /\ Head(todo) = what
Done == todo' = Tail(todo)
Meets(kinds, set) == answer = NoAnswer /\ todo # <<>> /\ Head(todo) \in kinds \cap set
Readable(what) == what \notin access.refused \cup access.failing

\* The call ends, with a report or an exception.
Ends(outcome, lines) ==
    /\ answer' = [outcome |-> outcome, lines |-> lines, unknown |-> unknown, notes |-> notes]
    /\ UNCHANGED <<world, todo, read, unknown, notes>>

\* A bug to catch: _recorded without a list to name the kind in.
RefuseUnnamed == Meets(Recorded, access.refused) /\ Done /\ UNCHANGED <<world, read, unknown, notes, answer>>

\* _recorded: a kind that may not be read, or isn't recorded, is named, and the
\* call goes on without.
Refuse ==
    /\ Meets(Recorded, access.refused)
    /\ unknown' = unknown \cup {Head(todo)}
    /\ Done /\ UNCHANGED <<world, read, notes, answer>>

\* _usage and _network_policies have a note of their own, the latter if the read
\* isn't refused but fails.
Note ==
    /\ Meets({"usage"}, access.refused) \/ Meets({"NetworkPolicies"}, access.failing)
    /\ notes' = notes \cup {Head(todo)}
    /\ Done /\ UNCHANGED <<world, read, unknown, answer>>

\* Any other read that fails ends the call, as does a refusal of the pods.
Break ==
    /\ \/ Meets((Recorded \cup {"pods", "usage"}) \ {"NetworkPolicies"}, access.failing)
       \/ Meets({"pods"}, access.refused)
    /\ Ends("error", {})

ReadRelated ==
    /\ Meets(Related \cup {"usage"}, Related \cup {"usage"}) /\ Readable(Head(todo))
    /\ Done /\ UNCHANGED <<world, read, unknown, notes, answer>>

\* _workloads, of one kind.
ListWorkloads(k) ==
    /\ Reads(Plural[k]) /\ Readable(Plural[k])
    /\ LET found == Those(Names.workloads, {w \in Range(Names.workloads) : w[1] = k /\ Is(w)}) IN
       listed' = listed \o [i \in DOMAIN found |->
                                [kind |-> k, name |-> found[i][2], is |-> cluster[found[i]]]]
    /\ Done /\ UNCHANGED <<world, kind, rsOwner, pods, statuses, unknown, notes, answer>>

\* _find_kind, once all kinds are listed: the report then lists them again.
ChooseKind ==
    /\ Reads("choose")
    /\ LET found == {w.kind : w \in {w \in Range(listed) : w.name = request.name}} IN
       \/ found = {} /\ Ends("noSuchName", {})
       \/ Cardinality(found) > 1 /\ Ends("ambiguous", {})
       \/ /\ \E k \in found : found = {k} /\ kind' = k /\ todo' = ReportReads(k)
          /\ listed' = <<>> /\ unknown' = {}
          /\ UNCHANGED <<world, rsOwner, pods, statuses, notes, answer>>

Asked == <<kind, request.name>>
IsListed(label) == \E w \in Range(listed) : <<w.kind, w.name>> = label

\* A bug to catch: what isn't listed isn't there.
MatchListed ==
    /\ Reads("match")
    /\ \/ ~IsListed(Asked) /\ Ends("notFound", {})
       \/ IsListed(Asked) /\ Done /\ UNCHANGED <<world, read, unknown, notes, answer>>

\* workload_report finds the workload it was asked for among those listed.
Match ==
    /\ Reads("match")
    /\ \/ /\ ~IsListed(Asked)
          /\ Ends(IF Plural[kind] \in unknown THEN "unknown" ELSE "notFound", {})
       \/ IsListed(Asked) /\ Done /\ UNCHANGED <<world, read, unknown, notes, answer>>

ReadReplicaSets ==
    /\ Reads("ReplicaSets") /\ Readable("ReplicaSets")
    /\ rsOwner' = ReplicaSets
    /\ Done /\ UNCHANGED <<world, kind, listed, pods, statuses, unknown, notes, answer>>

\* The pods listed that count for a label.
Group(label) == Those(pods, {p \in Range(pods) : GroupOf(p.name, p.summary, rsOwner, listed) = label})

\* The pods that count for no workload.
Ownerless == Those(pods, {p \in Range(pods) : GroupOf(p.name, p.summary, rsOwner, listed)[1] = "Pod"})

\* What the tool looks into: the pods of each workload listed, and those of none; or
\* those of the workload asked for.
LooksInto ==
    IF request.tool = "health"
    THEN FlattenSeq([i \in DOMAIN listed |-> Group(<<listed[i].kind, listed[i].name>>)]) \o Ownerless
    ELSE Group(Asked)

\* get_pod_summaries.
ListPods ==
    /\ Reads("pods") /\ Readable("pods")
    /\ LET found == Those(Names.pods, {p \in Range(Names.pods) : Is(p)}) IN
       pods' = [i \in DOMAIN found |-> [name |-> found[i], summary |-> cluster[found[i]].summary]]
    /\ Done /\ UNCHANGED <<world, kind, listed, rsOwner, statuses, unknown, notes, answer>>

\* get_pod_container_statuses, of each pod in turn: one deleted since it was listed
\* ends the call.  The claims of an unscheduled one are read too, their failure
\* swallowed.
ReadStatuses ==
    /\ Reads("statuses")
    /\ LET left == Those(LooksInto, {p \in Range(LooksInto) : p.name \notin DOMAIN statuses})
           claims == {"PersistentVolumeClaims"} \cap access.refused IN
       \/ left = <<>> /\ Done /\ UNCHANGED <<world, read, unknown, notes, answer>>
       \/ left # <<>> /\ ~Is(left[1].name) /\ Ends("error", {})
       \/ /\ left # <<>> /\ Is(left[1].name)
          /\ LET now == ContainerStatuses(cluster[left[1].name].statuses) IN
             /\ statuses' = [n \in DOMAIN statuses \cup {left[1].name} |->
                                IF n = left[1].name THEN now ELSE statuses[n]]
             /\ unknown' = unknown \cup (IF Unscheduled(left[1].summary, now) THEN claims ELSE {})
          /\ UNCHANGED <<world, kind, listed, rsOwner, pods, todo, notes, answer>>

\* Pods as Workloads assesses them.
WithStatuses(some) ==
    [i \in DOMAIN some |-> [name |-> some[i].name, summary |-> some[i].summary,
                            statuses |-> statuses[some[i].name]]]

\* get_pod_spec, of the focus pod; its logs' failures are swallowed.
ReadFocus ==
    /\ Reads("spec")
    /\ LET of == WithStatuses(Group(Asked)) IN
       IF of # <<>> /\ ~Is(Focus(of).name) THEN Ends("error", {})
       ELSE Done /\ UNCHANGED <<world, read, unknown, notes, answer>>

\* get_workload_history reads the workload again, which may be deleted by now.
ReadHistory ==
    /\ Reads("WorkloadHistory") /\ Readable("WorkloadHistory")
    /\ \/ ~Is(Asked) /\ Ends("error", {})
       \/ Is(Asked) /\ Done /\ UNCHANGED <<world, read, unknown, notes, answer>>

\* _template_changed, of each workload in trouble or recovering: whatever its history's
\* read meets, a refusal too, is swallowed, and only the date is missing.
ReadTemplates == Reads("templates") /\ Done /\ UNCHANGED <<world, read, unknown, notes, answer>>

\* One line of namespace_health.
LineOf(label, w, some) ==
    LET of == WithStatuses(some) IN
    [label |-> label, class |-> Assess(label[1], w.ready, w.desired, w.failing, of),
     pods |-> {p.name : p \in Range(some)}]

\* A pod of no workload, as a workload of its own.
Alone(p) == [ready |-> p.summary.ready, desired |-> p.summary.desired, failing |-> FALSE]

Lines ==
    IF request.tool = "health"
    THEN {LineOf(<<w.kind, w.name>>, w.is, Group(<<w.kind, w.name>>)) : w \in Range(listed)}
         \cup {LineOf(p.name, Alone(p), <<p>>) : p \in Range(Ownerless)}
    ELSE {[label |-> Asked, class |-> "report", pods |-> {p.name : p \in Range(Group(Asked))}]}

\* What the call reads is all read.
Write == answer = NoAnswer /\ todo = <<>> /\ Ends("report", Lines)

Next ==
    \/ Change \/ Refuse \/ Note \/ Break \/ ReadRelated
    \/ \E k \in Range(Kinds) : ListWorkloads(k)
    \/ ChooseKind \/ Match \/ ReadReplicaSets \/ ListPods
    \/ ReadStatuses \/ ReadFocus \/ ReadHistory \/ ReadTemplates \/ Write

Spec == Init /\ [][Next]_vars

-----------------------------------------------------------------------------
(* What an answer says of the cluster, as far as that stood still.         *)

Answered(tool, outcome) == answer # NoAnswer /\ request.tool = tool /\ answer.outcome = outcome
Steady(o) == Is(o) /\ o \notin touched
Named(w) == Plural[w[1]] \in answer.unknown

\* What a pod counts for: its owner, or its ReplicaSet's; for a pod whose owner
\* isn't recorded, what its name could come from.
Whose(p) ==
    LET owner == cluster[p].summary.owner
        up(o) == IF o[1] = "ReplicaSet" /\ o[2] \in DOMAIN ReplicaSets THEN ReplicaSets[o[2]] ELSE o IN
    {up(o) : o \in IF owner = NotRecorded THEN Resembles[p] ELSE {owner}}

\* Nothing drops out of namespace_health between the workloads and the pods: each
\* workload there all along has a line, or its kind is named unknown; each such pod
\* is in one line and no other, or the workload it counts for has no line because
\* its kind is named or it came or went (_workloads, _pods_by_workload).
NothingDropped ==
    Answered("health", "report") =>
        /\ \A w \in Range(Names.workloads) : Steady(w) =>
            Named(w) \/ Cardinality({l \in answer.lines : l.label = w}) = 1
        /\ \A p \in Range(Names.pods) : Steady(p) =>
            LET lines == {l \in answer.lines : p \in l.pods} IN
            /\ Cardinality(lines) <= 1
            /\ lines = {} => \E w \in Whose(p) : w \in Range(Names.workloads) /\ (Named(w) \/ ~Steady(w))
            /\ \A l \in lines : l.label \notin Whose(p) /\ Whose(p) \cap Range(Names.workloads) # {} =>
                "ReplicaSets" \in answer.unknown \/ cluster[p].summary.owner = NotRecorded

\* "Unknown is never none": what a report reads through _recorded, or of the usage, and
\* was refused is named in its notes, and nothing else is; not the histories by which
\* namespace_health dates changes (_recorded, _not_recorded_notes, _usage).
RefusalsNamed ==
    LET due == (Range(ReadsOf(request.tool, kind)) \cap access.refused) \cap (Recorded \cup {"usage"})
        claims == \E p \in Range(pods) : /\ p.name \in DOMAIN statuses
                                         /\ Unscheduled(p.summary, statuses[p.name])
        asked == IF claims THEN {"PersistentVolumeClaims"} \cap access.refused ELSE {} IN
    answer # NoAnswer =>
        /\ answer.outcome = "report" =>
            /\ answer.unknown = (due \ {"usage"}) \cup asked
            /\ answer.notes = (due \cap {"usage"}) \cup ({"NetworkPolicies"} \cap access.failing)
        /\ answer.outcome = "noSuchName" => answer.unknown = Range(Listing) \cap access.refused

\* "The composites name it in a note" (test_forbidden.py), what the account may not
\* read: also the histories of the workloads in trouble or recovering.  They don't.
HistoriesNamed ==
    /\ Answered("health", "report") /\ "WorkloadHistory" \in access.refused
    /\ \E l \in answer.lines : l.class \in {"trouble", "recovering"} /\ l.label[1] \notin {"Job", "Pod"}
    => "WorkloadHistory" \in answer.unknown

\* A pod that isn't scheduled, or that something holds back.
PodTrouble(p) ==
    \/ ~cluster[p].summary.node /\ cluster[p].statuses = <<>>
    \/ \E c \in Range(cluster[p].statuses) :
        IF c.init /\ ~c.sidecar THEN c.state # "terminated" \/ c.exit # 0 ELSE c.state = "waiting"

\* The pods of a workload, and their runs that ended last: of runs that ended in the
\* same second, any may be the last.
Its(w) == {p \in Range(Names.pods) : Is(p) /\ w \in Whose(p)}
LastRuns(w) ==
    LET runs == {c \in UNION {Range(cluster[p].statuses) : p \in Its(w)} : c.ended # NoAge /\ (c.init => c.sidecar)} IN
    {c \in runs : \A d \in runs : c.ended <= d.ended}
InTrouble(w) == cluster[w].ready < cluster[w].desired \/ cluster[w].failing \/ \E p \in Its(w) : PodTrouble(p)

\* A line of a workload that stood still, with its pods, is in trouble only with a
\* cause, and always with one: the last run of a Job may be one that failed.
ShownTruly(l) ==
    LET w == l.label IN
    /\ Steady(w) /\ touched \cap (Its(w) \cup l.pods) = {}
    /\ \A p \in Its(w) : cluster[p].summary.owner # NotRecorded
    =>
        /\ l.class = "trouble" => InTrouble(w) \/ (w[1] = "Job" /\ \E c \in LastRuns(w) : c.exit # 0)
        /\ InTrouble(w) => l.class = "trouble"
        /\ w[1] = "Job" /\ LastRuns(w) # {} /\ (\A c \in LastRuns(w) : c.exit # 0) => l.class = "trouble"

\* namespace_health puts a workload that stood still, with its pods, among those in
\* trouble exactly when it is: short of pods, unable to make progress, with a pod that
\* isn't scheduled or is held back, or a Job whose last run failed (assess).
TroubleShown ==
    Answered("health", "report") /\ "ReplicaSets" \notin access.refused =>
        \A l \in {l \in answer.lines : l.label \in Range(Names.workloads)} : ShownTruly(l)

\* workload_report never calls absent a workload that was there all along: not found,
\* it can be listed; unnamed, its kind is known; and of several of one name it tells
\* of one only if the kinds of the others are named unknown (_find_kind).
NotFoundHonest ==
    answer # NoAnswer /\ request.tool = "report" =>
        LET same == {w \in Range(Names.workloads) : w[2] = request.name /\ Steady(w)} IN
        /\ answer.outcome = "notFound" => Asked \notin same
        /\ answer.outcome = "unknown" => Plural[kind] \in access.refused
        /\ answer.outcome = "noSuchName" => \A w \in same : Named(w)
        /\ answer.outcome = "report" /\ request.kind = NoKind => \A w \in same \ {Asked} : Named(w)
        /\ answer.outcome = "ambiguous" =>
            \E v, w \in Range(Names.workloads) :
                v # w /\ v[2] = w[2] /\ (Is(v) \/ v \in touched) /\ (Is(w) \/ w \in touched)
=============================================================================
