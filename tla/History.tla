------------------------------ MODULE History ------------------------------
(***************************************************************************)
(* get_workload_history (k8s_tools.py): a workload's retained pod          *)
(* templates, each compared with the one before, and the ConfigMaps and    *)
(* Secrets the current one refers to.                                      *)
(*                                                                         *)
(* A template is [containers, inits, volumes, selector, tolerations,       *)
(* other, labels, annotations, pull]: functions from names, but for the    *)
(* set of tolerations and that of pull secrets.  A container is            *)
(* [image, limits, single, env, envFrom, mounts, other, claims, optional]: *)
(* its limits with its requests, the claims of its resources, and those of *)
(* its envFrom that may be missing; a mount is [volume, subPath, readOnly, *)
(* rest], a volume [source, names, rest], an env var [value, refers], a    *)
(* toleration [key, effect, rest].                                         *)
(***************************************************************************)
EXTENDS Integers, Sequences, FiniteSets, SequencesExt

CONSTANTS
    Absent,       \* a field that isn't there: None
    Hidden,       \* a value the result doesn't show
    Structured,   \* the values that are maps or lists
    ControllerLabels,  \* the template labels controllers stamp
    NoRevision    \* a ReplicaSet without a revision annotation

At(map, key) == IF key \in DOMAIN map THEN map[key] ELSE Absent

\* One TemplateChange; what it shows of values is up to `show`.
Change(field, b, a, show) ==
    [field |-> field,
     change |-> IF b = Absent THEN "added" ELSE IF a = Absent THEN "removed" ELSE "changed",
     before |-> IF show THEN b ELSE Hidden, after |-> IF show THEN a ELSE Hidden]

\* A bug to catch: what the later template no longer has isn't looked at.
CompareMapsOfLater(prefix, b, a, show) ==
    {Change(Append(prefix, k), At(b, k), At(a, k), show) :
        k \in {k \in DOMAIN a : At(b, k) # At(a, k)}}

\* _compare_maps.
CompareMaps(prefix, b, a, show) ==
    {Change(Append(prefix, k), At(b, k), At(a, k), show) :
        k \in {k \in DOMAIN b \cup DOMAIN a : At(b, k) # At(a, k)}}

\* _compare_other_fields: values shown if both are scalars.
CompareOtherFields(prefix, b, a) ==
    {Change(Append(prefix, k), At(b, k), At(a, k), {At(b, k), At(a, k)} \cap Structured = {}) :
        k \in {k \in DOMAIN b \cup DOMAIN a : At(b, k) # At(a, k)}}

\* Sets of labels: one more, or one less.
CompareSets(prefix, b, a) ==
    {Change(prefix, IF x \in b THEN x ELSE Absent, IF x \in a THEN x ELSE Absent, TRUE) :
        x \in (b \ a) \cup (a \ b)}

\* What a mount, a volume and a toleration are compared by.
MountSummaries(mounts) ==
    [p \in DOMAIN mounts |->
        [volume |-> mounts[p].volume, subPath |-> mounts[p].subPath, readOnly |-> mounts[p].readOnly]]
VolumeSummaries(volumes) ==
    [v \in DOMAIN volumes |-> [source |-> volumes[v].source, names |-> volumes[v].names]]
TolerationSummary(t) == [key |-> t.key, effect |-> t.effect]

\* The container fields compared whole, and _CONTAINER_FIELDS.
SingleFields == {"command", "args", "livenessProbe", "readinessProbe", "startupProbe"}
ContainerFields == SingleFields \cup {"name", "image", "resources", "env", "envFrom", "volumeMounts"}

\* One container that is in both templates; single holds its SingleFields.  Its
\* resources are compared by limits and requests only, and its envFrom by name:
\* claims and what is optional are not looked at.
CompareContainer(prefix, b, a) ==
    (IF b.image # a.image THEN {Change(Append(prefix, "image"), b.image, a.image, TRUE)} ELSE {})
    \cup CompareMaps(Append(prefix, "limits"), b.limits, a.limits, TRUE)
    \cup CompareMaps(prefix, b.single, a.single, TRUE)
    \cup CompareMaps(Append(prefix, "env"), b.env, a.env, FALSE)
    \cup CompareSets(Append(prefix, "envFrom"), b.envFrom, a.envFrom)
    \cup CompareMaps(Append(prefix, "volumeMounts"), MountSummaries(b.mounts),
                     MountSummaries(a.mounts), TRUE)
    \cup CompareOtherFields(prefix, b.other, a.other)

\* _compare_containers.
CompareContainers(group, b, a) ==
    UNION {IF n \in DOMAIN b \cap DOMAIN a THEN CompareContainer(<<group, n>>, b[n], a[n])
           ELSE {Change(<<group, n>>, IF n \in DOMAIN b THEN b[n].image ELSE Absent,
                        IF n \in DOMAIN a THEN a[n].image ELSE Absent, TRUE)} :
           n \in DOMAIN b \cup DOMAIN a}

\* _template_changes: of the spec, and of the metadata.
TemplateChanges(b, a) ==
    [spec |->
        CompareContainers("containers", b.containers, a.containers)
        \cup CompareContainers("init_containers", b.inits, a.inits)
        \cup CompareMaps(<<"volumes">>, VolumeSummaries(b.volumes), VolumeSummaries(a.volumes), TRUE)
        \cup CompareMaps(<<"node_selector">>, b.selector, a.selector, TRUE)
        \cup CompareSets(<<"tolerations">>, {TolerationSummary(t) : t \in b.tolerations},
                         {TolerationSummary(t) : t \in a.tolerations})
        \cup CompareOtherFields(<<"spec">>, b.other, a.other),
     metadata |->
        CompareMaps(<<"metadata", "labels">>, Restrict(b.labels, DOMAIN b.labels \ ControllerLabels),
                    Restrict(a.labels, DOMAIN a.labels \ ControllerLabels), TRUE)
        \cup CompareMaps(<<"metadata", "annotations">>, b.annotations, a.annotations, TRUE)]

\* A bug to catch: in the order listed.
OlderAsListed(items, i, j) == i < j

\* The order of the revisions: by number, the unnumbered first, else as listed.
Number(r) == IF r.revision = NoRevision THEN -1 ELSE r.revision
Older(items, i, j) ==
    \/ Number(items[i]) < Number(items[j])
    \/ Number(items[i]) = Number(items[j]) /\ i < j

\* _raw_revisions: those the workload owns, in that order.
RawRevisions(items) ==
    LET owned == {i \in DOMAIN items : items[i].owned} IN
    [k \in 1 .. Cardinality(owned) |->
        items[CHOOSE i \in owned : Cardinality({j \in owned : Older(items, j, i)}) = k - 1]]

\* One WorkloadRevision, compared with the one before.
RevisionOf(raw, i) ==
    LET diff == TemplateChanges(raw[i - 1].template, raw[i].template)
        none == [spec |-> {}, metadata |-> {}]
        changes == IF i > 1 THEN diff ELSE none
    IN  [revision |-> raw[i].revision, current |-> i = Len(raw),
         compared |-> IF i > 1 THEN raw[i - 1].revision ELSE NoRevision,
         changes |-> changes,
         restart |-> \E c \in changes.metadata : c.field = <<"metadata", "annotations", "restartedAt">>]

\* The revisions, newest first.
Revisions(items) ==
    LET raw == RawRevisions(items) IN Reverse([i \in 1 .. Len(raw) |-> RevisionOf(raw, i)])

-----------------------------------------------------------------------------
(* What the current template refers to.                                    *)

AllContainers(template) == Range(template.containers) \cup Range(template.inits)

\* A bug to catch: subPath looked for in the app containers only.
SubPathVolumesOfApps(template) ==
    {m.volume : m \in {m \in UNION {Range(c.mounts) : c \in Range(template.containers)} : m.subPath}}

SubPathVolumes(template) ==
    {m.volume : m \in {m \in UNION {Range(c.mounts) : c \in AllContainers(template)} : m.subPath}}

\* _config_references: [ref, used], by how each is used.
ContainerReferences(template) ==
    UNION {{[ref |-> r, used |-> "env"] : r \in UNION {v.refers : v \in Range(c.env)}}
           \cup {[ref |-> r, used |-> "envFrom"] : r \in c.envFrom} : c \in AllContainers(template)}
VolumeReferences(template) ==
    UNION {{[ref |-> r, used |-> IF v \in SubPathVolumes(template) THEN "subPath" ELSE "volume"] :
                r \in template.volumes[v].names} : v \in DOMAIN template.volumes}
ConfigReferences(template) ==
    ContainerReferences(template) \cup VolumeReferences(template)
    \cup {[ref |-> r, used |-> "imagePullSecrets"] : r \in template.pull}
=============================================================================
