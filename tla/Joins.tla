------------------------------- MODULE Joins --------------------------------
(***************************************************************************)
(* What a tool finds of one object among others: a Job's newest pod, for   *)
(* its logs, and a claim's pods and events; live (k8s_tools.py), and       *)
(* replayed from a capture (mock_state.py).                                *)
(*                                                                         *)
(* A pod is [name, age, job, labelled, mounts]: the Job its label names    *)
(* or NoJob, whether the capture's list of labels has it, and the claims   *)
(* it mounts.  A Job is [name, age, owner].  A claim is [name, bound].     *)
(* Pods, Jobs, claims and events are sequences, as the API lists them.     *)
(***************************************************************************)
EXTENDS Events

CONSTANTS
    NoJob,        \* no Job: of a pod, or of a CronJob that hasn't run
    NoPodOf,      \* a Job without pods
    EventLimit    \* PVC_EVENT_LIMIT

Youngest(objects) ==
    objects[Min({i \in DOMAIN objects : \A j \in DOMAIN objects : objects[i].age <= objects[j].age})]

\* _latest_pod_name_for_selector.
LatestPod(pods, job) ==
    LET of == Those(pods, {p \in Range(pods) : p.job = job}) IN
    IF of = <<>> THEN NoPodOf ELSE Youngest(of).name

\* A bug to catch: the first of them recorded.
ReplayedLatestPodFirst(pods, job) ==
    LET of == Those(pods, {p \in Range(pods) : p.labelled /\ p.job = job}) IN
    IF of = <<>> THEN NoPodOf ELSE of[1].name

\* _latest_pod_for_label: a pod whose labels weren't read has none.
ReplayedLatestPod(pods, job) ==
    LET of == Those(pods, {p \in Range(pods) : p.labelled /\ p.job = job}) IN
    IF of = <<>> THEN NoPodOf ELSE Youngest(of).name

\* get_logs_for_cronjob: the newest Job's, though an older one may have pods.
LatestJob(jobs, cronjob) ==
    LET owned == Those(jobs, {j \in Range(jobs) : j.owner = cronjob}) IN
    IF owned = <<>> THEN NoJob ELSE Youngest(owned).name

\* Whose log is read, live and replayed.
CronJobPod(jobs, pods, cronjob) ==
    IF LatestJob(jobs, cronjob) = NoJob THEN NoPodOf ELSE LatestPod(pods, LatestJob(jobs, cronjob))
ReplayedCronJobPod(jobs, pods, cronjob) ==
    IF LatestJob(jobs, cronjob) = NoJob THEN NoPodOf
    ELSE ReplayedLatestPod(pods, LatestJob(jobs, cronjob))

-----------------------------------------------------------------------------
(* Claims.                                                                 *)

\* A bug to catch: the cut comes before the order.
NewestEventsUnsorted(events) == SubSeq(events, 1, Min({EventLimit, Len(events)}))

\* _newest_events: by last_seen, those without one last, else in the order listed.
Sooner(s, t) == s # Never /\ (t = Never \/ s < t)
Precedes(events, i, j) ==
    \/ Sooner(events[i].last, events[j].last)
    \/ i < j /\ ~Sooner(events[j].last, events[i].last)
Ranked(events, k) ==
    CHOOSE i \in DOMAIN events : Cardinality({j \in DOMAIN events : Precedes(events, j, i)}) = k - 1
NewestEvents(events) == [k \in 1 .. Min({EventLimit, Len(events)}) |-> events[Ranked(events, k)]]

\* The pods that mount a claim, if pods can be read.
MountedBy(claim, pods, readable) ==
    LET of == IF readable THEN Those(pods, {p \in Range(pods) : claim.name \in p.mounts}) ELSE <<>> IN
    [i \in DOMAIN of |-> of[i].name]

\* A claim's events.
EventsOf(events, name) ==
    Those(events, {e \in Range(events) : e.kind = "PersistentVolumeClaim" /\ e.object = name})

\* get_pvc_summaries, as a function of the claims; both joins are best-effort.
\* access is what can be read.
Claims(claims, pods, events, access) ==
    LET its(c) == EventsOf(events, c.name)
        summary(c) ==
            [bound |-> c.bound, mountedBy |-> MountedBy(c, pods, "pods" \in access),
             events |-> IF c.bound \/ "events" \notin access THEN <<>>
                        ELSE NewestEvents([i \in DOMAIN its(c) |-> EventSummary(its(c)[i])])]
    IN  [n \in {c.name : c \in Range(claims)} |->
            summary(CHOOSE c \in Range(claims) : c.name = n)]

\* MockState.get_pvc_summaries: the claims captured, their events from the
\* capture's own, of which there are none where they couldn't be read.
ReplayedClaims(claims, pods, events, access, elapsed) ==
    LET live == Claims(claims, pods, events, access)
        its(n) == EventsOf(IF "events" \in access THEN events ELSE <<>>, n)
        replayed(e) == ReplayedEvent(EventRecord(EventSummary(e)), elapsed)
    IN  [n \in DOMAIN live |->
            [live[n] EXCEPT !.events =
                IF live[n].bound THEN <<>>
                ELSE NewestEvents([i \in DOMAIN its(n) |-> replayed(its(n)[i])])]]

\* _unbound_claims and _claim_line: per pod, the unbound claims it mounts, each
\* with what its newest event says.
UnboundClaims(summaries) ==
    [p \in UNION {Range(summaries[n].mountedBy) : n \in DOMAIN summaries} |->
        {[claim |-> n, says |-> IF summaries[n].events = <<>> THEN Never ELSE summaries[n].events[1].says] :
            n \in {n \in DOMAIN summaries : ~summaries[n].bound /\ p \in Range(summaries[n].mountedBy)}}]
=============================================================================
