----------------------------- MODULE Workloads -----------------------------
(***************************************************************************)
(* How the composite reports read a namespace's workloads (composites.py): *)
(* which workload a pod belongs to, and which workloads are in trouble.    *)
(*                                                                         *)
(* A listed workload is [kind, name, is], what it is [ready, desired,      *)
(* failing], failing when a Deployment's conditions say that it can't make *)
(* progress. A pod is [owner, node, reason, restarts, ready, desired]:     *)
(* owner is <<kind, name>>, node whether it has one, reason whether the    *)
(* scheduler's is recorded, the last two of its containers; its name is    *)
(* <<"Pod", ...>>. A container's status is [init, sidecar, state, exit,    *)
(* ended], sidecar what the spec says of an init container, exit and ended *)
(* (an age) those of its last termination.                                 *)
(***************************************************************************)
EXTENDS Lists, FiniteSets, FiniteSetsExt

CONSTANTS
    NoAge,        \* a container that never terminated, or not at a known time
    Window,       \* _RECOVERING_WINDOW
    Resembles     \* the workloads and ReplicaSets each pod's name could come from

\* _KINDS, in the order they are listed, and what the notes call each.
Kinds == <<"Deployment", "StatefulSet", "DaemonSet", "Job">>
Plural == [Deployment |-> "Deployments", StatefulSet |-> "StatefulSets",
           DaemonSet |-> "DaemonSets", Job |-> "Jobs"]

\* The owner of a pod that nothing owns, and of one in a capture before 2.3.0.
NoOwner == <<"nothing", "nothing">>
NotRecorded == <<"unrecorded", "unrecorded">>

-----------------------------------------------------------------------------
(* Whose pod it is.  rsOwner maps each ReplicaSet read to its Deployment,  *)
(* or NoOwner; listed is the sequence of the workloads listed.             *)

\* _match_by_name: Deployments by their ReplicaSets, then the other kinds.
MatchByName(name, rsOwner, listed) ==
    LET like(kind) == Those(listed, {w \in Range(listed) : w.kind = kind /\ <<kind, w.name>> \in Resembles[name]})
        others == like("StatefulSet") \o like("Job") \o like("DaemonSet")
        rss == {r \in DOMAIN rsOwner : rsOwner[r] # NoOwner /\ <<"ReplicaSet", r>> \in Resembles[name]} IN
    IF rss # {} THEN rsOwner[CHOOSE r \in rss : TRUE]
    ELSE IF others # <<>> THEN <<others[1].kind, others[1].name>>
    ELSE name

\* A bug to catch: a ReplicaSet's pods belong to a Deployment, known or not.
GroupOfAnyReplicaSet(name, pod, rsOwner, listed) ==
    IF pod.owner[1] = "ReplicaSet"
    THEN IF pod.owner[2] \in DOMAIN rsOwner THEN rsOwner[pod.owner[2]] ELSE NoOwner
    ELSE IF pod.owner[1] \in Range(Kinds) THEN pod.owner
    ELSE IF pod.owner = NotRecorded THEN MatchByName(name, rsOwner, listed)
    ELSE name

\* _pods_by_workload, of one pod: what it counts for, itself if nothing else.
GroupOf(name, pod, rsOwner, listed) ==
    LET deployment == IF pod.owner[1] = "ReplicaSet" /\ pod.owner[2] \in DOMAIN rsOwner
                      THEN rsOwner[pod.owner[2]] ELSE NoOwner IN
    IF deployment # NoOwner THEN deployment
    ELSE IF pod.owner[1] \in Range(Kinds) THEN pod.owner
    ELSE IF pod.owner = NotRecorded THEN MatchByName(name, rsOwner, listed)
    ELSE name

-----------------------------------------------------------------------------
(* How it fares.                                                           *)

\* A bug to catch: the containers are told apart as the API lists them.
ContainerStatusesAsListed(status) ==
    Those(status, {c \in Range(status) : ~c.init}) \o Those(status, {c \in Range(status) : c.init})

\* get_pod_container_statuses: the app containers, then the native sidecars, which
\* count as such; init containers last.
ContainerStatuses(status) ==
    LET all == Range(status)
        sidecars == Those(status, {c \in all : c.init /\ c.sidecar}) IN
    Those(status, {c \in all : ~c.init}) \o [i \in DOMAIN sidecars |-> [sidecars[i] EXCEPT !.init = FALSE]]
    \o Those(status, {c \in all : c.init /\ ~c.sidecar})

\* A bug to catch: a pod is judged by its containers alone.
UnscheduledByContainers(pod, statuses) == ~pod.node /\ ~pod.reason /\ statuses = <<>>

\* _unscheduled: without a reason recorded, a pod whose containers have statuses
\* has been scheduled.
Unscheduled(pod, statuses) == ~pod.node /\ (pod.reason \/ statuses = <<>>)

InitCompleted(c) == c.state = "terminated" /\ c.exit = 0

\* The app containers, and the init containers that hold them back.
Held(statuses) == Those(statuses, {c \in Range(statuses) : c.init /\ ~InitCompleted(c)})
Shown(statuses) == Those(statuses, {c \in Range(statuses) : ~c.init \/ ~InitCompleted(c)})
Waiting(statuses) == Held(statuses) # <<>> \/ \E c \in Range(statuses) : ~c.init /\ c.state = "waiting"

\* _termination and _latest: the newest of the terminations whose time is known.
Latest(containers) ==
    LET ended == Those(containers, {c \in Range(containers) : c.ended # NoAge})
        newest == {i \in DOMAIN ended : \A j \in DOMAIN ended : ended[i].ended <= ended[j].ended} IN
    IF ended = <<>> THEN NoAge ELSE ended[Min(newest)]

\* assess: where namespace_health puts a workload, or a pod of its own.  pods is a
\* sequence of [name, summary, statuses].
Assess(kind, ready, desired, failing, pods) ==
    LET shown == FlattenSeq([i \in DOMAIN pods |-> Shown(pods[i].statuses)])
        last == Latest(shown)
        failedJob == kind = "Job" /\ last # NoAge /\ last.exit # 0
        unscheduled == \E p \in Range(pods) : Unscheduled(p.summary, p.statuses)
        waiting == \E p \in Range(pods) : Waiting(p.statuses)
        restart == Latest(Those(shown, {c \in Range(shown) : c.state # "terminated"})) IN
    IF ready < desired \/ waiting \/ failedJob \/ unscheduled \/ failing THEN "trouble"
    ELSE IF restart # NoAge /\ restart.ended <= Window THEN "recovering"
    ELSE "healthy"

\* The pod whose spec and logs workload_report shows: the first of those in most
\* trouble, then with most restarts.
Focus(pods) ==
    LET above(p, q) == IF Waiting(p.statuses) # Waiting(q.statuses) THEN Waiting(p.statuses)
                       ELSE p.summary.restarts > q.summary.restarts
        top == {i \in DOMAIN pods : \A j \in DOMAIN pods : ~above(pods[j], pods[i])} IN
    pods[Min(top)]
=============================================================================
