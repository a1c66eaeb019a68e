------------------------------- MODULE Replay -------------------------------
(***************************************************************************)
(* MockState: the tools' answers, read from a finished capture.  A query   *)
(* changes nothing, so each is an operator on the capture's dictionary.    *)
(*                                                                         *)
(* The rule of README.md ("Capturing and replaying") is that what a        *)
(* capture didn't record replays as not recorded, never as none.  Which    *)
(* reads of the capture keep it, and which don't, is what this module      *)
(* states.                                                                 *)
(***************************************************************************)
EXTENDS Capture

\* namespace=None: the query covers every namespace.
All == "all"

ASSUME AllAssumption == All \notin Places

-----------------------------------------------------------------------------
(* The queries.                                                            *)

\* A bug to catch: a query over all namespaces looks for a cluster-wide refusal only.
NotReadableThere(k, p) == \E r \in unreadable : r[1] = k /\ r[2] \in {Cluster, p}

\* _check_readable: the capture was refused k in p, or in the whole cluster;
\* for a query over all namespaces, anywhere.
NotReadable(k, p) == \E r \in unreadable : r[1] = k /\ (p = All \/ r[2] \in {Cluster, p})

\* A bug to catch: only the missing keys are looked for.
NotRecordedKey(k, p) == k \in missing

\* _records raises K8sNotRecorded.
NotRecorded(k, p) == k \in missing \/ NotReadable(k, p)

InScope(k, p) == {r \in lists[k] : p = All \/ r[1] = p}

\* A list tool over one place: the names, or Unknown for K8sNotRecorded (for
\* metrics, K8sMetricsUnavailable).
ListReply(k, p) == IF NotRecorded(k, p) THEN Unknown ELSE {r[2] : r \in InScope(k, p)}

\* A list tool over every namespace: the <<namespace, name>> pairs.
ListAllReply(k) == IF NotRecorded(k, All) THEN Unknown ELSE lists[k]

\* Two bugs to catch: rebuilding where the capture was refused histories, and
\* rebuilding from ReplicaSets nobody recorded.
HistoryReplyRebuilt(k, p, n) ==
    IF <<k, p, n>> \in histories THEN "recorded"
    ELSE IF NotRecorded(k, p) THEN "unknown"
    ELSE IF <<p, n>> \notin lists[k] THEN "not found"
    ELSE IF k = "deployments" /\ NotRecorded("replicasets", p) THEN "unknown"
    ELSE "rebuilt"

HistoryReplyFromNothing(k, p, n) ==
    IF <<k, p, n>> \in histories THEN "recorded"
    ELSE IF NotReadable("workload_histories", p) \/ NotRecorded(k, p) THEN "unknown"
    ELSE IF <<p, n>> \notin lists[k] THEN "not found"
    ELSE "rebuilt"

\* get_workload_history: the recorded one; or an error; or, with nothing
\* recorded, one rebuilt from the ReplicaSet records (a Deployment's) or empty.
HistoryReply(k, p, n) ==
    IF <<k, p, n>> \in histories THEN "recorded"
    ELSE IF NotReadable("workload_histories", p) \/ NotRecorded(k, p) THEN "unknown"
    ELSE IF <<p, n>> \notin lists[k] THEN "not found"
    ELSE IF k = "deployments" /\ NotRecorded("replicasets", p) THEN "unknown"
    ELSE "rebuilt"

\* get_configmap.
ConfigMapReply(p, n) ==
    IF NotRecorded("configmaps", p) THEN "unknown"
    ELSE IF <<p, n>> \notin lists["configmaps"] THEN "not found"
    ELSE IF <<p, n>> \in contents THEN "data" ELSE "no data"

\* A bug to catch: any container without a restart count is unknown.
LogReplyUnsure(p, n, previous) ==
    LET d == details[p][n] IN
    IF (previous /\ d.previous) \/ (~previous /\ d.log) THEN "log"
    ELSE IF ~d.statuses /\ ~d.spec THEN "not valid" ELSE "unknown"

\* _recorded_log, for a container the pod has: a pod with neither statuses nor
\* spec has none, and without a restart count there was no previous instance.
LogReply(p, n, previous) ==
    LET d == details[p][n] IN
    IF (previous /\ d.previous) \/ (~previous /\ d.log) THEN "log"
    ELSE IF ~d.statuses /\ ~d.spec THEN "not valid"
    ELSE IF previous /\ ~(d.statuses /\ d.restarted) THEN "no previous"
    ELSE "unknown"

\* get_custom_resource_status: an API error's text for whatever wasn't read, and
\* another's for a type the cluster didn't define.
CustomReply(t, p) ==
    IF definitions \in {Refused, Unknown} THEN Refused
    ELSE IF t \notin definitions THEN "not found"
    ELSE IF instances[t] = Refused THEN Refused
    ELSE {i \in instances[t] : p = All \/ i[1] = p}

-----------------------------------------------------------------------------
(* What holds of every finished capture.                                   *)

TypeOK ==
    /\ options \in Options
    /\ phase \in {"namespaces", "nodes", "kinds", "metrics", "customs", "assembled", "done",
                  "failed"}
    /\ left \subseteq Namespaces /\ ns \in Places /\ at \in Position
    /\ phase = "kinds" => ns \in Namespaces
    /\ visited \subseteq Names \cup (Workloads \X Names)
    /\ lists \in [ListKeys -> SUBSET (Places \X Objects)]
    /\ histories \subseteq Workloads \X Namespaces \X Names
    /\ contents \subseteq Namespaces \X Names /\ labelled \subseteq Namespaces
    /\ details \in [Namespaces -> [Names -> PodDetail]]
    /\ unreadable \subseteq Keys \X Places
    /\ missing \subseteq ListKeys
    /\ version \in {"none", "1", "2"}
    /\ definitions \in {Unasked, Refused, Unknown} \cup SUBSET CustomTypes
    /\ instances \in [CustomTypes -> {Unasked, Refused} \cup SUBSET (Places \X Names)]
    /\ offered \in [CustomTypes -> {Unasked, Refused} \cup SUBSET (Places \X Names)]
    /\ told \in [Keys -> [Places -> (SUBSET Objects) \cup {Unasked, Refused}]]

\* Replaying a list tool gives the cluster's own answer: what it answered when
\* the capture asked, object for object, and "not recorded" for what it
\* refused; never none for a kind nobody could read.
RepliesAsTold ==
    phase = "done" =>
        \A k \in ListKeys, p \in Places :
            told[k][p] # Unasked =>
                ListReply(k, p) = IF told[k][p] = Refused THEN Unknown ELSE told[k][p]

\* A query over all namespaces never passes off the readable namespaces for
\* the whole: it answers only if every namespace captured was read (and, in an
\* import, the pull had the kind).
AllNamespacesAsTold ==
    phase = "done" =>
        \A k \in ListKeys :
            IF k \in Unpulled \/ \E p \in Places : told[k][p] = Refused
            THEN ListAllReply(k) = Unknown
            ELSE ListAllReply(k) = UNION {{p} \X told[k][p] :
                                            p \in {q \in Places : told[k][q] # Unasked}}

\* A workload's history is never rebuilt, nor the workload reported missing,
\* where the capture was refused histories or the workload's kind; a rebuilt
\* one stands on a ReplicaSet list that was read.
HistoryNeverInvented ==
    phase = "done" =>
        \A k \in Workloads, p \in Namespaces, n \in Names :
            told[k][p] # Unasked =>
                LET reply == HistoryReply(k, p, n) IN
                /\ reply \in {"rebuilt", "not found"} =>
                       told["workload_histories"][p] # Refused /\ told[k][p] # Refused
                /\ reply = "not found" => n \notin told[k][p]
                /\ reply = "rebuilt" /\ k = "deployments" => told["replicasets"][p] # Refused

\* A reader from before the unreadable map (it reads only version "1", and
\* ignores the map) is never told none of a kind the capture was refused.
OldReaderNotMisled ==
    phase = "done" /\ version = "1" =>
        \A k \in ListKeys, p \in Places :
            told[k][p] = Refused => k \in missing

\* A custom resource type the cluster wouldn't list, or an import has no
\* instances of, replays as an error wherever it is asked for.  A type within the
\* limit replays exactly what it held in the places asked.  One over the limit
\* replays as many instances as the limit, all of them the cluster's; a namespace
\* may then have none of them (CutTypeNotNone).
CustomResourcesAsTold ==
    phase = "done" =>
        \A t \in CustomTypes, p \in Namespaces \cup {All} :
            /\ offered[t] = Refused => CustomReply(t, p) = Refused
            /\ offered[t] \notin {Unasked, Refused} =>
                   LET there == {i \in offered[t] : p = All \/ i[1] = p} IN
                   /\ CustomReply(t, p) \subseteq there
                   /\ IF Cardinality(offered[t]) <= MaxCustom THEN CustomReply(t, p) = there
                      ELSE Cardinality(CustomReply(t, All)) = MaxCustom

\* Of a pod whose statuses were read, the previous instance's log is said not
\* to exist exactly when its container never restarted, and one not captured is
\* unknown; its current log is never said to be of no such container.
LogsNotDenied ==
    phase = "done" =>
        \A r \in lists["pods"] :
            LET d == details[r[1]][r[2]] IN
            d.statuses =>
                /\ LogReply(r[1], r[2], TRUE) = "no previous" <=> ~d.restarted
                /\ LogReply(r[1], r[2], FALSE) = IF d.log THEN "log" ELSE "unknown"

-----------------------------------------------------------------------------
(* What README.md's rule says and the code doesn't do.                     *)

\* A namespace the capture was not asked for is unknown to every list tool.
UncapturedNamespaceUnknown ==
    phase = "done" =>
        \A k \in ListKeys \ {"namespaces", "nodes", "metrics"}, p \in Namespaces :
            told[k][p] = Unasked => ListReply(k, p) = Unknown

\* A ConfigMap is replayed as empty only if its data was read.
ConfigMapDataHonest ==
    phase = "done" =>
        \A p \in Namespaces, n \in Names : ConfigMapReply(p, n) # "no data"

\* A custom resource type is never told as none where the cluster had some.
CutTypeNotNone ==
    phase = "done" =>
        \A t \in CustomTypes, p \in Namespaces :
            offered[t] \notin {Unasked, Refused} =>
                (CustomReply(t, p) = {} <=> \A i \in offered[t] : i[1] # p)

\* A log that wasn't recorded is unknown, and so is that of the instance before a
\* restart: neither is denied, whatever of the pod could be read.
UnreadLogsNotDenied ==
    phase = "done" =>
        \A r \in lists["pods"] :
            LET d == details[r[1]][r[2]] IN
            /\ LogReply(r[1], r[2], FALSE) \in {"log", "unknown"}
            /\ d.restarted => LogReply(r[1], r[2], TRUE) \in {"log", "unknown"}

=============================================================================
