------------------------------ MODULE Capture -------------------------------
(***************************************************************************)
(* k8s-capture-state: one pass over the cluster, one API read at a time,   *)
(* that builds the dictionary a capture file holds (capture.py), from a    *)
(* live cluster or from a pull of an ITBench snapshot (itbench.py).        *)
(*                                                                         *)
(* The cluster is the environment: it changes while the capture runs, so   *)
(* every read may answer anything, be refused (a 403, or a 404 for an API  *)
(* the cluster doesn't serve) or fail (a 5xx, a dropped connection).       *)
(* `told' remembers what it said; no code reads it.                        *)
(***************************************************************************)
EXTENDS Naturals, Sequences, FiniteSets

CONSTANTS
    Namespaces,                 \* namespaces the cluster may have
    Names,                      \* names of objects in a namespace, and of nodes
    CustomTypes,                \* custom resource types the cluster may define
    Namespaced,                 \* those whose instances live in namespaces
    MaxCustom,                  \* MAX_CUSTOM_RESOURCES_PER_TYPE
    Options,                    \* the ways the capture may be run
    Unasked, Refused, Unknown   \* sentinels

\* The "" of the unreadable map: a read of the whole cluster.
Cluster == ""

\* The order one namespace is read in.
KindOrder == <<"deployments", "replicasets", "services", "endpoints", "ingresses",
               "networkpolicies", "statefulsets", "daemonsets", "hpas",
               "workload_histories", "cronjobs", "jobs", "pvcs", "configmaps",
               "events", "pods">>

Position == 1 .. Len(KindOrder)
Workloads == {"deployments", "statefulsets", "daemonsets"}
ListKeys == {"namespaces", "nodes", "metrics",
             "deployments", "replicasets", "services", "endpoints", "ingresses",
             "networkpolicies", "statefulsets", "daemonsets", "hpas",
             "cronjobs", "jobs", "pvcs", "configmaps", "events", "pods"}
Keys == ListKeys \cup {"workload_histories"}
Required == {"namespaces", "nodes", "pods"}
Places == Namespaces \cup {Cluster}
Objects == Names \cup Namespaces

ASSUME ConstantsAssumption ==
    /\ Cluster \notin Namespaces
    /\ Namespaced \subseteq CustomTypes /\ MaxCustom \in Nat
    /\ \A o \in Options :
           /\ o.requested \subseteq Namespaces
           /\ o.unpulled \subseteq ListKeys \ (Required \cup {"metrics", "events"})
           /\ o.logs \in BOOLEAN /\ o.import \in BOOLEAN /\ o.definitions \in BOOLEAN
           /\ ~o.import => o.unpulled = {} /\ o.definitions
    /\ Unasked # Refused /\ Unasked # Unknown /\ Refused # Unknown
    /\ \A S \in SUBSET Objects : S \notin {Unasked, Refused, Unknown}

ASSUME SentinelsAssumption ==
    /\ \A S \in SUBSET CustomTypes : S \notin {Unasked, Refused, Unknown}
    /\ \A S \in SUBSET (Places \X Names) : S \notin {Unasked, Refused, Unknown}

VARIABLES
    options,     \* how the capture is run
    \* Where the capture is.
    phase,       \* the part of _capture that runs next
    left,        \* target namespaces not begun yet
    ns,          \* the namespace being read
    at,          \* the position in KindOrder being read
    visited,     \* objects of that kind read one by one so far
    \* The capture file's dictionary.
    lists,       \* its top-level lists, as sets of <<place, name>>
    histories,   \* workload_histories, as <<kind, namespace, name>>
    contents,    \* ConfigMaps whose data was read
    labelled,    \* namespaces whose pods' labels were read
    details,     \* per pod, what of its record was read
    unreadable,  \* <<key, place>> pairs
    missing,     \* keys deleted from the dictionary
    version,
    definitions, \* custom_resources: the types read, Refused, or Unknown once deleted
    instances,   \* per type, its captured instances as <<place, name>>, or Refused
    \* What the cluster said.
    told,
    offered      \* per custom resource type

Requested == options.requested    \* --namespace, {} when it isn't given
IncludeLogs == options.logs       \* FALSE for --no-logs
Import == options.import          \* TRUE for --from-itbench
Unpulled == options.unpulled      \* the keys an imported pull has no batch of
Varied == options.varied          \* bound: the keys whose reads may answer anything

place == <<phase, left, ns, at, visited>>
customs == <<definitions, instances, offered>>
file == <<lists, histories, contents, labelled, details, unreadable, missing, version>>
vars == <<options, place, file, customs, told>>

key == KindOrder[at]

\* log and previous: the instance's log is in the record.  restarted is the
\* container's restart count as the cluster has it, recorded or not.
PodDetail == [statuses : BOOLEAN, spec : BOOLEAN, log : BOOLEAN,
              previous : BOOLEAN, restarted : BOOLEAN]
NoDetail == [statuses |-> FALSE, spec |-> FALSE, log |-> FALSE,
             previous |-> FALSE, restarted |-> FALSE]

Init ==
    /\ options \in Options
    /\ phase = "namespaces"
    /\ left = {} /\ ns = Cluster /\ at = 1 /\ visited = {}
    /\ lists = [k \in ListKeys |-> {}]
    /\ histories = {} /\ contents = {} /\ labelled = {}
    /\ unreadable = {} /\ missing = {}
    /\ details = [p \in Namespaces |-> [n \in Names |-> NoDetail]]
    /\ version = "none"
    /\ definitions = Unasked
    /\ instances = [t \in CustomTypes |-> Unasked]
    /\ offered = [t \in CustomTypes |-> Unasked]
    /\ told = [k \in Keys |-> [p \in Places |-> Unasked]]

-----------------------------------------------------------------------------
(* One read, by its outcome.                                               *)

\* Bound: a key outside Varied is always answered, with nothing.  A pull's
\* reads are never refused.
MayAnswer(k) ==
    IF k \notin Varied THEN {{}}
    ELSE IF k = "namespaces" THEN SUBSET Namespaces ELSE SUBSET Names
MayRefuse(k) == k \in Varied /\ ~Import

Answered(k, p) ==
    /\ k \notin Unpulled
    /\ \E found \in MayAnswer(k) :
           /\ told' = [told EXCEPT ![k][p] = found]
           /\ lists' = [lists EXCEPT ![k] = @ \cup ({p} \X found)]
    /\ UNCHANGED unreadable

\* A bug to catch: the refusal is swallowed, and the list left empty.
RefusedReadAsNone(k, p) ==
    /\ MayRefuse(k) /\ k \notin Unpulled
    /\ told' = [told EXCEPT ![k][p] = Refused]
    /\ UNCHANGED <<lists, unreadable>>

\* Recorded as not readable there, and read as empty.
RefusedRead(k, p) ==
    /\ MayRefuse(k) /\ k \notin Unpulled
    /\ told' = [told EXCEPT ![k][p] = Refused]
    /\ unreadable' = unreadable \cup {<<k, p>>}
    /\ UNCHANGED lists

\* A pull's answer for a kind it has no batch of: an empty list.
UnpulledRead(k, p) ==
    /\ k \in Unpulled
    /\ told' = [told EXCEPT ![k][p] = Refused]
    /\ UNCHANGED <<lists, unreadable>>

Read(k, p) == Answered(k, p) \/ RefusedRead(k, p) \/ UnpulledRead(k, p)

\* A bug to catch: one position too many.
AdvancePast ==
    /\ visited' = {}
    /\ \/ /\ at <= Len(KindOrder)
          /\ at' = at + 1
          /\ UNCHANGED <<phase, left, ns>>
       \/ /\ at = Len(KindOrder) /\ left = {}
          /\ phase' = "metrics"
          /\ UNCHANGED <<left, ns, at>>

\* Go on to the next kind, the next namespace or what follows the last one.
Advance ==
    /\ visited' = {}
    /\ \/ /\ at < Len(KindOrder)
          /\ at' = at + 1
          /\ UNCHANGED <<phase, left, ns>>
       \/ /\ at = Len(KindOrder)
          /\ \E n \in left : ns' = n /\ left' = left \ {n}
          /\ at' = 1
          /\ UNCHANGED phase
       \/ /\ at = Len(KindOrder) /\ left = {}
          /\ phase' = "metrics"
          /\ UNCHANGED <<left, ns, at>>

-----------------------------------------------------------------------------
(* Actions, in the order the capture takes them.                           *)

\* --namespace makes the namespace list optional.
ReadNamespaces ==
    /\ phase = "namespaces"
    /\ \/ Answered("namespaces", Cluster)
       \/ Requested # {} /\ RefusedRead("namespaces", Cluster)
    /\ left' = IF Requested # {} THEN Requested
               ELSE {n \in Namespaces : <<Cluster, n>> \in lists'["namespaces"]}
    /\ phase' = "nodes"
    /\ UNCHANGED <<options, customs, ns, at, visited, histories, contents, labelled, details, missing, version>>

ReadNodes ==
    /\ phase = "nodes"
    /\ Read("nodes", Cluster)
    /\ \/ /\ left = {}
          /\ phase' = "metrics"
          /\ UNCHANGED <<left, ns>>
       \/ /\ \E n \in left : ns' = n /\ left' = left \ {n}
          /\ phase' = "kinds"
    /\ UNCHANGED <<options, customs, at, visited, histories, contents, labelled, details, missing, version>>

ReadKind ==
    /\ phase = "kinds"
    /\ key \notin {"workload_histories", "configmaps", "pods"}
    /\ Read(key, ns)
    /\ Advance
    /\ UNCHANGED <<options, customs, histories, contents, labelled, details, missing, version>>

\* The workloads listed in this namespace whose history is still to be read.
WorkloadsLeft ==
    {w \in Workloads \X Names : <<ns, w[2]>> \in lists[w[1]]} \ visited

\* A history that can't be read marks the namespace; a workload deleted since
\* it was listed is skipped.
ReadHistory ==
    /\ phase = "kinds" /\ key = "workload_histories"
    /\ \E w \in WorkloadsLeft :
        /\ visited' = visited \cup {w}
        /\ \/ /\ histories' = histories \cup {<<w[1], ns, w[2]>>}
              /\ UNCHANGED <<unreadable, told>>
           \/ /\ MayRefuse(key)
              /\ told' = [told EXCEPT ![key][ns] = Refused]
              /\ unreadable' = unreadable \cup {<<key, ns>>}
              /\ UNCHANGED histories
           \/ /\ MayRefuse(key)  \* 404: deleted since
              /\ UNCHANGED <<histories, unreadable, told>>
    /\ UNCHANGED <<options, customs, phase, left, ns, at, lists, contents, labelled, details, missing, version>>

ListConfigMaps ==
    /\ phase = "kinds" /\ key = "configmaps"
    /\ told[key][ns] = Unasked
    /\ Read(key, ns)
    /\ UNCHANGED <<options, customs, place, histories, contents, labelled, details, missing, version>>

\* Failing to read one ConfigMap's data leaves its record with none.
ReadConfigMap ==
    /\ phase = "kinds" /\ key = "configmaps"
    /\ \E n \in Names \ visited :
        /\ <<ns, n>> \in lists[key]
        /\ visited' = visited \cup {n}
        /\ \/ contents' = contents \cup {<<ns, n>>}
           \/ ~Import /\ UNCHANGED contents
    /\ UNCHANGED <<options, customs, phase, left, ns, at, lists, histories, labelled, details, unreadable, missing,
                   version, told>>

\* The pods' labels are read by a list of their own, whose failure is swallowed.
ReadLabels == labelled' = labelled \cup {ns} \/ (~Import /\ UNCHANGED labelled)

\* Pods are required: a refusal fails the capture.
ListPods ==
    /\ phase = "kinds" /\ key = "pods"
    /\ told[key][ns] = Unasked
    /\ Answered(key, ns)
    /\ ReadLabels
    /\ UNCHANGED <<options, customs, place, histories, contents, details, missing, version>>

\* Each of a pod's reads may fail on its own.  Without its statuses the capture
\* knows no container to read the log of; the previous instance's log is asked
\* for only of a container that restarted.
ReadPod ==
    /\ phase = "kinds" /\ key = "pods"
    /\ \E n \in Names \ visited, d \in PodDetail :
        /\ <<ns, n>> \in lists[key]
        /\ d.log => d.statuses /\ IncludeLogs
        /\ d.previous => d.statuses /\ IncludeLogs /\ d.restarted /\ ~Import
        /\ visited' = visited \cup {n}
        /\ details' = [details EXCEPT ![ns][n] = d]
    /\ UNCHANGED <<options, customs, phase, left, ns, at, lists, histories, contents, labelled, unreadable, missing,
                   version, told>>

EndLoop ==
    /\ phase = "kinds"
    /\ \/ key = "workload_histories" /\ WorkloadsLeft = {}
       \/ /\ key \in {"configmaps", "pods"}
          /\ told[key][ns] # Unasked
          /\ {n \in Names : <<ns, n>> \in lists[key]} \subseteq visited
    /\ Advance
    /\ UNCHANGED <<options, customs, file, told>>

\* A bug to catch: without metrics-server, the empty usage stays in the file.
ReadMetricsAsNone ==
    /\ phase = "metrics"
    /\ \/ ~Import /\ Answered("metrics", Cluster)
       \/ /\ Import \/ MayRefuse("metrics")
          /\ told' = [told EXCEPT !["metrics"][Cluster] = Refused]
          /\ UNCHANGED <<lists, unreadable>>
    /\ phase' = "customs"
    /\ UNCHANGED <<options, customs, left, ns, at, visited, histories, contents, labelled, details, missing, version>>

\* Container and node usage, or that there is none to read.  An import's
\* reader never has metrics.
ReadMetrics ==
    /\ phase = "metrics"
    /\ \/ ~Import /\ Answered("metrics", Cluster) /\ UNCHANGED missing
       \/ /\ Import \/ MayRefuse("metrics")
          /\ told' = [told EXCEPT !["metrics"][Cluster] = Refused]
          /\ missing' = missing \cup {"metrics"}
          /\ UNCHANGED <<lists, unreadable>>
    /\ phase' = "customs"
    /\ UNCHANGED <<options, customs, left, ns, at, visited, histories, contents, labelled, details, version>>

\* Custom resources: the types, then each type's instances.  Any API error, not
\* only a refusal, is recorded as the type's answer.  With --namespace, a
\* namespaced type is read in those namespaces, and one error discards them all.
CustomVaried == "custom_resources" \in Varied

ReadDefinitions ==
    /\ phase = "customs" /\ definitions = Unasked
    /\ \/ \E types \in IF CustomVaried /\ options.definitions THEN SUBSET CustomTypes ELSE {{}} :
              definitions' = types
       \/ CustomVaried /\ ~Import /\ definitions' = Refused
    /\ UNCHANGED <<options, place, file, instances, told, offered>>

InstancePlaces(t) ==
    IF t \notin Namespaced THEN {Cluster}
    ELSE IF Requested # {} THEN Requested ELSE Namespaces

TypesLeft == {t \in CustomTypes : definitions # Refused /\ t \in definitions /\ instances[t] = Unasked}

\* The first items up to the limit, in an order the API chooses (or, before it,
\* that of the namespaces given, which may be any).
Kept(items) ==
    {kept \in SUBSET items :
        IF Cardinality(items) <= MaxCustom THEN kept = items ELSE Cardinality(kept) = MaxCustom}

\* A pull records no instances.
ReadInstances ==
    /\ phase = "customs" /\ definitions # Unasked
    /\ \E t \in TypesLeft :
        \/ ~Import /\ \E items \in SUBSET (InstancePlaces(t) \X Names) :
              /\ offered' = [offered EXCEPT ![t] = items]
              /\ \E kept \in Kept(items) : instances' = [instances EXCEPT ![t] = kept]
        \/ /\ offered' = [offered EXCEPT ![t] = Refused]
           /\ instances' = [instances EXCEPT ![t] = IF Import THEN {} ELSE Refused]
    /\ UNCHANGED <<options, place, file, definitions, told>>

EndCustoms ==
    /\ phase = "customs" /\ definitions # Unasked /\ TypesLeft = {}
    /\ phase' = "assembled"
    /\ UNCHANGED <<options, customs, left, ns, at, visited, file, told>>

\* An import keeps the Deployments' histories only if its pull has ReplicaSets.
KeptHistories ==
    IF "replicasets" \in Unpulled THEN {h \in histories : h[1] # "deployments"} ELSE histories

\* What an import puts in place of the custom resources read.
ImportedDefinitions == IF Import /\ ~options.definitions THEN Unknown ELSE definitions
ImportedInstances ==
    [t \in CustomTypes |-> IF Import /\ instances[t] # Unasked THEN Refused ELSE instances[t]]

\* Bugs to catch: a capture with gaps that older readers accept; an import that
\* keeps the keys of the kinds it has no batch of, or the empty instance lists.
FinishUnversioned ==
    /\ phase = "assembled"
    /\ version' = "1"
    /\ missing' = missing \cup Unpulled
    /\ phase' = "done"
    /\ UNCHANGED <<options, customs, left, ns, at, visited, lists, histories, contents, labelled, details,
                   unreadable, told>>

FinishKeepingKeys ==
    /\ phase = "assembled"
    /\ version' = IF unreadable # {} THEN "2" ELSE "1"
    /\ phase' = "done"
    /\ UNCHANGED <<options, customs, left, ns, at, visited, lists, histories, contents, labelled, details,
                   unreadable, missing, told>>

FinishKeepingItems ==
    /\ phase = "assembled"
    /\ version' = IF unreadable # {} THEN "2" ELSE "1"
    /\ missing' = missing \cup Unpulled
    /\ histories' = KeptHistories
    /\ phase' = "done"
    /\ UNCHANGED <<options, customs, left, ns, at, visited, lists, contents, labelled, details,
                   unreadable, told>>

\* A capture with gaps is one that readers without the unreadable map refuse.
\* An import then deletes the keys of the kinds its pull has no batch of, and
\* marks every custom resource type as not readable.
Finish ==
    /\ phase = "assembled"
    /\ version' = IF unreadable # {} THEN "2" ELSE "1"
    /\ missing' = missing \cup Unpulled
    /\ histories' = KeptHistories
    /\ definitions' = ImportedDefinitions /\ instances' = ImportedInstances
    /\ phase' = "done"
    /\ UNCHANGED <<options, offered, left, ns, at, visited, lists, contents, labelled, details, unreadable, told>>

\* The last of a namespace's reads, of each pod, all swallow their failures.
ReadingPods == phase = "kinds" /\ key = "pods" /\ told[key][ns] # Unasked

\* Any other failure of a read raises, and no file is written.
Fail ==
    /\ phase \in {"namespaces", "nodes", "kinds", "metrics"}
    /\ ~ReadingPods
    /\ phase' = "failed"
    /\ UNCHANGED <<options, customs, left, ns, at, visited, file, told>>

Next ==
    \/ ReadNamespaces \/ ReadNodes \/ ReadKind
    \/ ReadHistory \/ ListConfigMaps \/ ReadConfigMap
    \/ ListPods \/ ReadPod \/ EndLoop
    \/ ReadMetrics \/ ReadDefinitions \/ ReadInstances \/ EndCustoms
    \/ Finish \/ Fail

Spec == Init /\ [][Next]_vars
=============================================================================
